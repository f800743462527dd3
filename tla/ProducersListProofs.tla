-------------------------- MODULE ProducersListProofs --------------------------
(***************************************************************************)
(* Proofs about ProducersList: pages are cut from a sorted list, so a walk *)
(* by cursor lists what was there all along exactly once; reading survives *)
(* a rotation of the key; the list page shows no producer it deleted, does *)
(* not lead past its last page, and its hit is for the document in the box.*)
(***************************************************************************)
EXTENDS ProducersList, FiniteSetTheorems, SequenceTheorems, TLAPS

-----------------------------------------------------------------------------
(* The order of a page *)

Orders == {"asc", "desc"}

\* A table of rows with numbered ids.
IsTable(t) == t \in [DOMAIN t -> Rows] /\ DOMAIN t \subseteq Nat

\* Sort values are numbers.
LEMMA SortValueType ==
  ASSUME NEW t, IsTable(t), NEW q, NEW id \in DOMAIN t
  PROVE  SortValue(t[id], q) \in Nat
BY DEF SortValue, IsTable, Rows

\* Before is a strict total order on the ids of a table.
LEMMA BeforeIsOrder ==
  ASSUME NEW t, IsTable(t), NEW q,
         NEW a \in DOMAIN t, NEW b \in DOMAIN t, NEW c \in DOMAIN t
  PROVE  /\ ~Before(t, q, a, a)
         /\ a # b => Before(t, q, a, b) \/ Before(t, q, b, a)
         /\ Before(t, q, a, b) /\ Before(t, q, b, c) => Before(t, q, a, c)
<1> DEFINE V(x) == SortValue(t[x], q)
<1>1. V(a) \in Nat /\ V(b) \in Nat /\ V(c) \in Nat
  BY SortValueType
<1>2. a \in Nat /\ b \in Nat /\ c \in Nat
  BY DEF IsTable
<1>3. \A x, y : Before(t, q, x, y) <=> Precedes(V(x), V(y), q) \/ (V(x) = V(y) /\ x < y)
  BY DEF Before
<1> HIDE DEF V
<1> QED
  BY <1>1, <1>2, <1>3 DEF Precedes

\* Sorted lists every id once, each before those that follow.
LEMMA SortedIsOrdered ==
  ASSUME NEW t, IsTable(t), NEW q, NEW ids \in SUBSET DOMAIN t, IsFiniteSet(ids)
  PROVE  /\ Cardinality(ids) \in Nat
         /\ Sorted(t, q, ids) \in [1..Cardinality(ids) -> ids]
         /\ \A i, j \in 1..Cardinality(ids) :
              i < j => Before(t, q, Sorted(t, q, ids)[i], Sorted(t, q, ids)[j])
         /\ \A id \in ids : \E i \in 1..Cardinality(ids) : Sorted(t, q, ids)[i] = id
<1> DEFINE n == Cardinality(ids)
           Earlier(id) == {other \in ids : Before(t, q, other, id)}
           rank == [id \in ids |-> Cardinality(Earlier(id))]
<1>1. n \in Nat
  BY FS_CardinalityType
<1>2. \A id \in ids : IsFiniteSet(Earlier(id)) /\ Cardinality(Earlier(id)) \in 0..(n - 1)
  <2>1. TAKE id \in ids
  <2>2. Earlier(id) \in SUBSET (ids \ {id})
    BY BeforeIsOrder
  <2>3. IsFiniteSet(ids \ {id}) /\ Cardinality(ids \ {id}) = n - 1
    BY FS_RemoveElement
  <2>4. IsFiniteSet(Earlier(id)) /\ Cardinality(Earlier(id)) <= n - 1
    <3> HIDE DEF Earlier, n
    <3> QED BY <2>2, <2>3, FS_Subset
  <2>5. Cardinality(Earlier(id)) \in Nat
    BY <2>4, FS_CardinalityType
  <2> QED
    BY <2>4, <2>5, <1>1
<1>3. \A a, b \in ids : Before(t, q, a, b) => rank[a] < rank[b]
  <2>1. SUFFICES ASSUME NEW a \in ids, NEW b \in ids, Before(t, q, a, b)
                 PROVE  Cardinality(Earlier(a)) < Cardinality(Earlier(b))
    OBVIOUS
  <2>2. Earlier(a) \in SUBSET (Earlier(b) \ {a})
    BY <2>1, BeforeIsOrder
  <2>3. a \in Earlier(b)
    BY <2>1
  <2>4. IsFiniteSet(Earlier(b)) /\ Cardinality(Earlier(a)) \in Nat /\ Cardinality(Earlier(b)) \in Nat
    <3> HIDE DEF n, Earlier
    <3> QED BY <1>1, <1>2
  <2> HIDE DEF Earlier
  <2>5. IsFiniteSet(Earlier(b) \ {a}) /\ Cardinality(Earlier(b) \ {a}) = Cardinality(Earlier(b)) - 1
    BY <2>3, <2>4, FS_RemoveElement
  <2>6. Cardinality(Earlier(a)) <= Cardinality(Earlier(b) \ {a})
    BY <2>2, <2>5, FS_Subset
  <2> QED
    BY <2>4, <2>5, <2>6
<1>4. \A id \in ids : rank[id] \in 0..(n - 1)
  BY <1>2
<1>5. \A a, b \in ids : rank[a] = rank[b] => a = b
  <2>1. \A a, b \in ids : a = b \/ Before(t, q, a, b) \/ Before(t, q, b, a)
    BY BeforeIsOrder
  <2> HIDE DEF rank
  <2> QED
    BY <1>3, <1>4, <2>1
<1>6. \A k \in 0..(n - 1) : \E id \in ids : rank[id] = k
  <2>1. rank \in Injection(ids, 0..(n - 1))
    <3>1. rank \in [ids -> 0..(n - 1)]
      BY <1>4
    <3> HIDE DEF rank
    <3> QED
      BY <1>5, <3>1 DEF Injection, IsInjective
  <2>2. IsFiniteSet(0..(n - 1)) /\ Cardinality(0..(n - 1)) = n
    BY <1>1, FS_Interval
  <2> HIDE DEF rank
  <2>3. rank \in Surjection(ids, 0..(n - 1))
    BY <2>1, <2>2, FS_Injection
  <2> QED
    BY <2>3 DEF Surjection
<1>7. ASSUME NEW i \in 1..n
      PROVE  Sorted(t, q, ids)[i] \in ids /\ rank[Sorted(t, q, ids)[i]] = i - 1
  <2>1. \E id \in ids : Cardinality(Earlier(id)) = i - 1
    <3>1. i - 1 \in 0..(n - 1)
      BY <1>1
    <3>2. PICK id \in ids : rank[id] = i - 1
      BY <1>6, <3>1
    <3> QED BY <3>2
  <2>2. Sorted(t, q, ids)[i] = CHOOSE id \in ids : Cardinality(Earlier(id)) = i - 1
    BY DEF Sorted
  <2> QED
    BY <2>1, <2>2
<1>8. Sorted(t, q, ids) \in [1..n -> ids]
  <2> DEFINE pick(i) == CHOOSE id \in ids : Cardinality(Earlier(id)) = i - 1
  <2>1. Sorted(t, q, ids) = [i \in 1..n |-> pick(i)]
    BY DEF Sorted
  <2>2. \A i \in 1..n : Sorted(t, q, ids)[i] = pick(i)
    BY <2>1
  <2> HIDE DEF pick
  <2> QED
    BY <1>7, <2>1, <2>2
<1>9. ASSUME NEW i \in 1..n, NEW j \in 1..n, i < j
      PROVE  Before(t, q, Sorted(t, q, ids)[i], Sorted(t, q, ids)[j])
  <2> DEFINE a == Sorted(t, q, ids)[i]
             b == Sorted(t, q, ids)[j]
  <2>1. a \in ids /\ b \in ids /\ rank[a] = i - 1 /\ rank[b] = j - 1
    BY <1>7
  <2> HIDE DEF a, b, rank
  <2>2. a # b /\ ~(rank[b] < rank[a])
    BY <1>1, <1>9, <2>1
  <2>3. Before(t, q, a, b) \/ Before(t, q, b, a)
    BY <2>1, <2>2, BeforeIsOrder
  <2> QED
    BY <1>3, <2>1, <2>2, <2>3 DEF a, b
<1>10. ASSUME NEW id \in ids
       PROVE  \E i \in 1..n : Sorted(t, q, ids)[i] = id
  <2>1. rank[id] + 1 \in 1..n
    BY <1>1, <1>4
  <2> DEFINE k == rank[id] + 1
  <2>2. Sorted(t, q, ids)[k] \in ids /\ rank[Sorted(t, q, ids)[k]] = k - 1
    BY <1>7, <2>1
  <2>3. k - 1 = rank[id]
    BY <1>4
  <2> HIDE DEF k, rank
  <2> QED
    BY <1>5, <2>1, <2>2, <2>3 DEF k
<1> QED
  BY <1>1, <1>8, <1>9, <1>10

-----------------------------------------------------------------------------
(* A page *)

IsQuery(q) ==
  /\ q.page \in Nat \ {0} /\ q.pageSize \in Nat \ {0}
  /\ q.sortOrder \in Orders /\ q.cursor \in Cursors \cup {NoCursor}

\* The producers a page is cut from.
Candidates(t, q) ==
  {id \in Listed(t, q.name) : q.cursor = NoCursor \/ BehindCursor(t[id], id, q.cursor, q)}

Offset(q) == IF q.cursor = NoCursor THEN (q.page - 1) * q.pageSize ELSE 0

\* A page is a stretch of the sorted candidates; without an offset what is not
\* on it comes after all of it, and then it is full.
LEMMA PageIsCut ==
  ASSUME NEW t, IsTable(t), IsFiniteSet(DOMAIN t), NEW q, IsQuery(q),
         NEW P, P = PageOf(t, q)
  PROVE  /\ P \in Seq(Candidates(t, q))
         /\ \A i, j \in 1..Len(P) : i < j => Before(t, q, P[i], P[j])
         /\ Len(P) <= q.pageSize
         /\ Offset(q) = 0 =>
              \A id \in Candidates(t, q) :
                \/ \E i \in 1..Len(P) : P[i] = id
                \/ Len(P) = q.pageSize /\ \A i \in 1..Len(P) : Before(t, q, P[i], id)
         /\ Offset(q) < Cardinality(Candidates(t, q)) => Len(P) > 0
<1> DEFINE ids == Candidates(t, q)
           n == Cardinality(ids)
           S == Sorted(t, q, ids)
           o == Offset(q)
           last == IF o + q.pageSize < n THEN o + q.pageSize ELSE n
<1>1. ids \in SUBSET DOMAIN t
  BY DEF Candidates, Listed
<1>2. IsFiniteSet(ids)
  BY <1>1, FS_Subset
<1>3. /\ n \in Nat /\ S \in [1..n -> ids]
      /\ \A i, j \in 1..n : i < j => Before(t, q, S[i], S[j])
      /\ \A id \in ids : \E i \in 1..n : S[i] = id
  BY <1>1, <1>2, SortedIsOrdered
<1>4. o \in Nat /\ q.pageSize \in Nat \ {0}
  BY DEF IsQuery, Offset
<1>5. last \in Nat /\ last <= n /\ last <= o + q.pageSize
  BY <1>3, <1>4
<1>6. P = SubSeq(S, o + 1, last)
  <2>1. Len(S) = n
    BY <1>3
  <2> QED
    BY <2>1 DEF PageOf, Candidates, Offset
<1> HIDE DEF ids, S, o, n
<1>7. /\ P \in Seq(ids)
      /\ Len(P) = IF o + 1 <= last THEN last - o ELSE 0
      /\ \A i \in 1..(last - o) : P[i] = S[o + i]
  <2>1. \A i \in (o + 1)..last : S[i] \in ids
    BY <1>3, <1>4, <1>5
  <2>2. o + 1 \in Int /\ last \in Int
    BY <1>4, <1>5
  <2> HIDE DEF last
  <2>3. /\ P \in Seq(ids)
        /\ Len(P) = IF o + 1 <= last THEN last - (o + 1) + 1 ELSE 0
        /\ \A i \in 1..(last - (o + 1) + 1) : P[i] = S[(o + 1) + i - 1]
    BY <1>6, <2>1, <2>2, SubSeqProperties
  <2> QED
    BY <1>4, <1>5, <2>3
<1>8. ASSUME NEW i \in 1..Len(P), NEW j \in 1..Len(P), i < j
      PROVE  Before(t, q, P[i], P[j])
  <2>1. o + i \in 1..n /\ o + j \in 1..n /\ o + i < o + j /\ i \in 1..(last - o) /\ j \in 1..(last - o)
    BY <1>3, <1>4, <1>5, <1>7, <1>8
  <2> QED
    BY <1>3, <1>7, <2>1
<1>9. Len(P) <= q.pageSize
  BY <1>4, <1>5, <1>7
<1>10. ASSUME o = 0, NEW id \in ids
       PROVE  \/ \E i \in 1..Len(P) : P[i] = id
              \/ Len(P) = q.pageSize /\ \A i \in 1..Len(P) : Before(t, q, P[i], id)
  <2>1. PICK k \in 1..n : S[k] = id
    BY <1>3
  <2>2. Len(P) = last /\ \A i \in 1..last : P[i] = S[i]
    BY <1>4, <1>5, <1>7, <1>10
  <2>3. CASE k <= last
    BY <1>5, <2>1, <2>2, <2>3
  <2>4. CASE k > last
    <3>1. last = q.pageSize
      BY <1>3, <1>4, <1>10, <2>1, <2>4
    <3>2. \A i \in 1..last : i \in 1..n /\ i < k
      BY <1>3, <1>5, <2>1, <2>4
    <3> HIDE DEF last
    <3> QED
      BY <1>3, <2>1, <2>2, <3>1, <3>2
  <2> QED
    BY <1>3, <1>5, <2>1, <2>3, <2>4
<1>11. o < n => Len(P) > 0
  BY <1>3, <1>4, <1>7
<1> QED
  BY <1>7, <1>8, <1>9, <1>10, <1>11 DEF ids, o, n

\* A full page has a next one, behind its last producer.
NextCursor(t, q) ==
  LET P == PageOf(t, q)
  IN IF Len(P) = q.pageSize THEN [value |-> SortValue(t[P[Len(P)]], q), id |-> P[Len(P)]]
     ELSE NoCursor

\* findMany finds the page, or fails at a producer on it that cannot be read.
LEMMA FindPageAnswers ==
  ASSUME NEW t, IsTable(t), IsFiniteSet(DOMAIN t), NEW q, IsQuery(q), NEW r,
         NEW P, P = PageOf(t, q), NEW answer, answer = FindPage(t, q, r)
  PROVE  /\ answer \in Pages \cup {Failed}
         /\ answer # Failed => answer.items = P /\ answer.next = NextCursor(t, q)
         /\ answer = Failed => \E i \in 1..Len(P) : ~Readable(t[P[i]], r)
<1> DEFINE next == IF P # <<>> /\ Len(P) = q.pageSize
                   THEN [value |-> SortValue(t[Last(P)], q), id |-> Last(P)]
                   ELSE NoCursor
           full == [items |-> P, next |-> next]
<1>1. P \in Seq(Candidates(t, q))
  BY PageIsCut
<1>2. Candidates(t, q) \subseteq DOMAIN t /\ DOMAIN t \subseteq Nat
  BY DEF Candidates, Listed, IsTable
<1>3. P \in Seq(Nat) /\ P \in Seq(DOMAIN t)
  <2>1. Candidates(t, q) \subseteq Nat
    BY <1>2
  <2> HIDE DEF full, next
  <2> QED
    BY <1>1, <1>2, <2>1, SeqMonotonic
<1>5. Len(P) = q.pageSize => P # <<>> /\ Len(P) \in 1..Len(P)
  BY <1>3 DEF IsQuery
<1>6. next \in Cursors \cup {NoCursor}
  <2>1. SUFFICES ASSUME P # <<>>
                 PROVE  [value |-> SortValue(t[Last(P)], q), id |-> Last(P)] \in Cursors
    OBVIOUS
  <2>2. Last(P) \in DOMAIN t
    BY <1>3, <2>1 DEF Last
  <2>3. SortValue(t[Last(P)], q) \in Nat
    BY <2>2, SortValueType
  <2> QED
    BY <1>2, <2>2, <2>3 DEF Cursors
<1>7. full \in Pages
  <2> HIDE DEF next
  <2> QED
    BY <1>3, <1>6 DEF Pages
<1>8. P # Failed /\ full # Failed
  BY <1>3, <1>7, ProducerListingAssumption
<1>9. DOMAIN P = 1..Len(P)
  BY <1>3
<1>10. next = NextCursor(t, q)
  <2>1. next = IF Len(P) = q.pageSize
               THEN [value |-> SortValue(t[P[Len(P)]], q), id |-> P[Len(P)]]
               ELSE NoCursor
    BY <1>5 DEF Last
  <2> HIDE DEF next
  <2> QED
    BY <2>1 DEF NextCursor
<1>11. answer = IF ToListItems(t, P, r) = Failed THEN Failed
                ELSE [items |-> ToListItems(t, P, r), next |-> next]
  BY DEF FindPage
<1>12. CASE \A i \in 1..Len(P) : Readable(t[P[i]], r)
  <2>1. ToListItems(t, P, r) = P
    BY <1>9, <1>12 DEF ToListItems
  <2>2. answer = full
    BY <1>8, <1>11, <2>1
  <2> HIDE DEF next
  <2> QED
    BY <1>7, <1>8, <1>10, <2>2
<1>13. CASE \E i \in 1..Len(P) : ~Readable(t[P[i]], r)
  <2>1. ToListItems(t, P, r) = Failed
    BY <1>9, <1>13 DEF ToListItems
  <2>2. answer = Failed
    BY <1>11, <2>1
  <2> QED
    BY <1>13, <2>2
<1> QED
  BY <1>12, <1>13

LEMMA FindPageContents ==
  ASSUME NEW t, IsTable(t), IsFiniteSet(DOMAIN t), NEW q, IsQuery(q), NEW r,
         FindPage(t, q, r) # Failed
  PROVE  /\ FindPage(t, q, r).items = PageOf(t, q)
         /\ FindPage(t, q, r).next = NextCursor(t, q)
<1> DEFINE P == PageOf(t, q)
           answer == FindPage(t, q, r)
<1>1. P = PageOf(t, q) /\ answer = FindPage(t, q, r)
  OBVIOUS
<1> HIDE DEF P, answer
<1>2. answer # Failed => answer.items = P /\ answer.next = NextCursor(t, q)
  BY <1>1, FindPageAnswers
<1> QED
  BY <1>1, <1>2

LEMMA FindPageFails ==
  ASSUME NEW t, IsTable(t), IsFiniteSet(DOMAIN t), NEW q, IsQuery(q), NEW r,
         FindPage(t, q, r) = Failed
  PROVE  \E i \in 1..Len(PageOf(t, q)) : ~Readable(t[PageOf(t, q)[i]], r)
<1> DEFINE P == PageOf(t, q)
           answer == FindPage(t, q, r)
<1>1. P = PageOf(t, q) /\ answer = FindPage(t, q, r)
  OBVIOUS
<1>2. answer = Failed
  OBVIOUS
<1> HIDE DEF P, answer
<1>3. answer = Failed => \E i \in 1..Len(P) : ~Readable(t[P[i]], r)
  BY <1>1, FindPageAnswers
<1> QED
  BY <1>1, <1>2, <1>3

\* What a full page does to a producer whose place is not shared with the last
\* one on it: behind the next cursor is exactly what was behind the cursor and
\* is not on the page.
LEMMA PageStep ==
  ASSUME NEW t, IsTable(t), IsFiniteSet(DOMAIN t), NEW q, IsQuery(q), Offset(q) = 0,
         NEW P, P = PageOf(t, q), Len(P) = q.pageSize,
         NEW last, last = P[Len(P)],
         NEW next, next = [value |-> SortValue(t[last], q), id |-> last],
         NEW id \in Listed(t, q.name),
         q.sortOrder = "desc" /\ SortValue(t[id], q) = SortValue(t[last], q) => id = last
  PROVE  BehindCursor(t[id], id, next, q) <=>
           id \in Candidates(t, q) /\ ~\E i \in 1..Len(P) : P[i] = id
<1> DEFINE V(x) == SortValue(t[x], q)
           C == Candidates(t, q)
<1>1. /\ P \in Seq(C)
      /\ \A i, j \in 1..Len(P) : i < j => Before(t, q, P[i], P[j])
      /\ \A x \in C :
           \/ \E i \in 1..Len(P) : P[i] = x
           \/ \A i \in 1..Len(P) : Before(t, q, P[i], x)
  BY PageIsCut
<1>2. Len(P) \in Nat \ {0} /\ Len(P) \in 1..Len(P)
  BY DEF IsQuery
<1>3. last \in C
  BY <1>1, <1>2
<1>4. C \subseteq DOMAIN t /\ id \in DOMAIN t /\ DOMAIN t \subseteq Nat
  BY DEF Candidates, Listed, IsTable
<1>5. V(last) \in Nat /\ V(id) \in Nat /\ last \in Nat /\ id \in Nat
  BY <1>3, <1>4, SortValueType
<1>6. q.sortOrder = "asc" \/ q.sortOrder = "desc"
  BY DEF IsQuery, Orders
<1>7. BehindCursor(t[id], id, next, q) <=>
        Precedes(V(last), V(id), q) \/ (V(id) = V(last) /\ Precedes(last, id, q))
  BY DEF BehindCursor
<1>8. \A x, y : Before(t, q, x, y) <=> Precedes(V(x), V(y), q) \/ (V(x) = V(y) /\ x < y)
  BY DEF Before
<1>9. \A x \in C : q.cursor # NoCursor => BehindCursor(t[x], x, q.cursor, q)
  BY DEF Candidates
<1>10. id \notin C => q.cursor # NoCursor /\ ~BehindCursor(t[id], id, q.cursor, q)
  BY DEF Candidates
<1>11. \A x : BehindCursor(t[x], x, q.cursor, q) <=>
                 \/ Precedes(q.cursor.value, V(x), q)
                 \/ V(x) = q.cursor.value /\ Precedes(q.cursor.id, x, q)
  BY DEF BehindCursor
<1> HIDE DEF V, C
<1>12. CASE id \notin C
  <2>1. q.cursor.value \in Nat /\ q.cursor.id \in Nat
    BY <1>10, <1>12 DEF IsQuery, Cursors
  <2>2. BehindCursor(t[last], last, q.cursor, q) /\ ~BehindCursor(t[id], id, q.cursor, q)
    BY <1>3, <1>9, <1>10, <1>12
  <2>3. ~(Precedes(V(last), V(id), q) \/ (V(id) = V(last) /\ Precedes(last, id, q)))
    BY <1>5, <1>6, <1>11, <2>1, <2>2 DEF Precedes
  <2> QED
    BY <1>7, <1>12, <2>3 DEF C
<1>13. CASE \E i \in 1..Len(P) : P[i] = id
  <2>1. id = last \/ Before(t, q, id, last)
    BY <1>1, <1>2, <1>13
  <2>2. ~(Precedes(V(last), V(id), q) \/ (V(id) = V(last) /\ Precedes(last, id, q)))
    BY <1>5, <1>6, <1>8, <2>1 DEF Precedes, V
  <2> QED
    BY <1>7, <1>13, <2>2
<1>14. CASE id \in C /\ ~\E i \in 1..Len(P) : P[i] = id
  <2>1. Before(t, q, last, id)
    BY <1>1, <1>2, <1>14
  <2>2. id # last
    BY <1>2, <1>14
  <2>3. Precedes(V(last), V(id), q) \/ (V(id) = V(last) /\ Precedes(last, id, q))
    BY <1>5, <1>6, <1>8, <2>1, <2>2 DEF Precedes, V
  <2> QED
    BY <1>7, <1>14, <2>3 DEF C
<1> QED
  BY <1>12, <1>13, <1>14

-----------------------------------------------------------------------------
(* Types *)

EntryRecords ==
  [status : {"pending", "answered", "rejected"}, value : Answers \cup {NoData},
   total : Nat \cup {NoData}, found : Pages \cup {NoData, Failed}]
Entries ==
  {e \in EntryRecords : /\ e.status = "answered" => e.value \in Answers
                        /\ e.status # "pending" => e.found = NoData}
EntryMaps == UNION {[A -> Entries] : A \in SUBSET Args}

QueriesAsked == UNION {b.queries : b \in Behaviours}
Walks ==
  [on : BOOLEAN, done : BOOLEAN, cursor : Cursors \cup {NoCursor}, seen : Seq(Nat),
   steady : SUBSET Ids, split : SUBSET Nat, query : QueriesAsked \cup {NoId}]
Lists ==
  [args : Args, entries : EntryMaps, data : Answers \cup {NoData}, invalid : BOOLEAN]
Searches ==
  [timers : SUBSET Documents, flight : SUBSET Documents, found : SUBSET Ids,
   hit : Ids \cup {NoId}, overtaken : BOOLEAN]

Types ==
  /\ behaviour \in Behaviours
  /\ IsTable(table) /\ DOMAIN table \subseteq Ids
  /\ ring \in [active : 0..MaxKey, previous : 0..MaxKey]
  /\ writes \in 0..behaviour.writes
  /\ walk \in Walks /\ (walk.on => walk.query # NoId)
  /\ list \in Lists
  /\ list.args \in DOMAIN list.entries
  /\ boxes \in [typed : Filters, document : Documents \cup {NoDocument}, changes : 0..behaviour.typed]
  /\ search \in Searches
  /\ dialog \in [id : Ids \cup {NoId}, busy : BOOLEAN]
  /\ deleted \subseteq Ids

LEMMA EntryMapsIs ==
  ASSUME NEW e
  PROVE  e \in EntryMaps <=> DOMAIN e \subseteq Args /\ e \in [DOMAIN e -> Entries]
<1>1. ASSUME e \in EntryMaps
      PROVE  DOMAIN e \subseteq Args /\ e \in [DOMAIN e -> Entries]
  <2>1. PICK A \in SUBSET Args : e \in [A -> Entries]
    BY <1>1 DEF EntryMaps
  <2> QED
    BY <2>1
<1>2. ASSUME DOMAIN e \subseteq Args, e \in [DOMAIN e -> Entries]
      PROVE  e \in EntryMaps
  BY <1>2 DEF EntryMaps
<1> QED
  BY <1>1, <1>2

LEMMA EntryFacts ==
  ASSUME NEW e \in Entries
  PROVE  /\ e \in EntryRecords
         /\ e.value \in Answers \cup {NoData}
         /\ e.status = "answered" => e.value \in Answers
         /\ e.status # "pending" => e.found = NoData
<1>1. e \in EntryRecords
  BY DEF Entries
<1>2. e.value \in Answers \cup {NoData}
  BY <1>1 DEF EntryRecords
<1>3. e.status = "answered" => e.value \in Answers
  BY DEF Entries
<1>4. e.status # "pending" => e.found = NoData
  BY DEF Entries
<1> QED
  BY <1>1, <1>2, <1>3, <1>4

\* An entry that is asked for again is an entry.
LEMMA EntryStatus ==
  ASSUME NEW e \in Entries
  PROVE  /\ e \in EntryRecords
         /\ [e EXCEPT !.status = "pending"] \in Entries
         /\ [e EXCEPT !.status = "pending"].status = "pending"
         /\ [e EXCEPT !.status = "pending"].value = e.value
         /\ [e EXCEPT !.status = "pending"].total = e.total
         /\ [e EXCEPT !.status = "pending"].found = e.found
BY DEF Entries, EntryRecords

PendingEntry == [NoEntry EXCEPT !.status = "pending"]

LEMMA NewEntry ==
  /\ PendingEntry \in Entries /\ PendingEntry.status = "pending" /\ PendingEntry.value = NoData
  /\ PendingEntry.total = NoData /\ PendingEntry.found = NoData
BY DEF PendingEntry, NoEntry, Entries, EntryRecords

LEMMA RequestedType ==
  ASSUME NEW e \in EntryMaps, NEW a \in Args, NEW r, r = Requested(e, a)
  PROVE  /\ r \in EntryMaps
         /\ DOMAIN r = DOMAIN e \cup {a}
         /\ \A b \in DOMAIN r : \/ r[b] = PendingEntry
                                \/ b \in DOMAIN e /\ r[b] = e[b]
<1>1. DOMAIN e \subseteq Args /\ e \in [DOMAIN e -> Entries]
  BY EntryMapsIs
<1>2. CASE a \in DOMAIN e /\ e[a].status # "rejected"
  BY <1>1, <1>2, EntryMapsIs DEF Requested
<1>3. CASE ~(a \in DOMAIN e /\ e[a].status # "rejected")
  <2>1. r = [b \in DOMAIN e \cup {a} |-> IF b = a THEN PendingEntry ELSE e[b]]
    BY <1>3 DEF Requested, PendingEntry
  <2>2. DOMAIN r \subseteq Args /\ r \in [DOMAIN r -> Entries]
    BY <1>1, <2>1, NewEntry
  <2> QED
    BY <2>1, <2>2, EntryMapsIs
<1> QED
  BY <1>2, <1>3

LEMMA RefetchedType ==
  ASSUME NEW e \in EntryMaps, NEW a \in DOMAIN e, NEW r, r = Refetched(e, a)
  PROVE  /\ r \in EntryMaps /\ DOMAIN r = DOMAIN e
         /\ r[a].status = "pending" /\ r[a].value = e[a].value
         /\ r[a].total = e[a].total /\ r[a].found = e[a].found
         /\ \A b \in DOMAIN r \ {a} : r[b] = e[b]
<1>1. DOMAIN e \subseteq Args /\ e \in [DOMAIN e -> Entries]
  BY EntryMapsIs
<1>2. r = [e EXCEPT ![a] = [e[a] EXCEPT !.status = "pending"]]
  BY DEF Refetched
<1>3. [e[a] EXCEPT !.status = "pending"] \in Entries
  BY <1>1, EntryStatus
<1>4. /\ [e[a] EXCEPT !.status = "pending"].status = "pending"
      /\ [e[a] EXCEPT !.status = "pending"].value = e[a].value
      /\ [e[a] EXCEPT !.status = "pending"].total = e[a].total
      /\ [e[a] EXCEPT !.status = "pending"].found = e[a].found
  BY <1>1, EntryStatus
<1>5. DOMAIN r = DOMAIN e /\ r \in [DOMAIN r -> Entries]
  BY <1>1, <1>2, <1>3
<1> QED
  BY <1>1, <1>2, <1>4, <1>5, EntryMapsIs

LEMMA RestrictedType ==
  ASSUME NEW e \in EntryMaps, NEW A \in SUBSET DOMAIN e, NEW r, r = Restrict(e, A)
  PROVE  r \in EntryMaps /\ DOMAIN r = A /\ \A b \in A : r[b] = e[b]
<1>1. DOMAIN e \subseteq Args /\ e \in [DOMAIN e -> Entries]
  BY EntryMapsIs
<1>2. r = [b \in A |-> e[b]]
  BY DEF Restrict
<1>3. DOMAIN r \subseteq Args /\ r \in [DOMAIN r -> Entries]
  BY <1>1, <1>2
<1> QED
  BY <1>2, <1>3, EntryMapsIs

\* The entry in use.
LEMMA CurrentType ==
  ASSUME Types
  PROVE  /\ Current \in Entries /\ Data \in Answers \cup {NoData}
         /\ Current.status = "answered" => Data = Current.value /\ Data \in Answers
<1>1. list.entries \in [DOMAIN list.entries -> Entries]
  BY EntryMapsIs DEF Types, Lists
<1>2. Current \in Entries
  BY <1>1 DEF Current, Types
<1>3. /\ Current.value \in Answers \cup {NoData}
      /\ Current.status = "answered" => Current.value \in Answers
  BY <1>2 DEF Entries, EntryRecords
<1>4. list.data \in Answers \cup {NoData} /\ NoData \notin Answers
  BY ProducersListAssumption DEF Types, Lists
<1> QED
  BY <1>2, <1>3, <1>4 DEF Data

LEMMA ListQueryType ==
  ASSUME NEW a \in Args
  PROVE  IsQuery(ListQuery(a))
BY ProducersListAssumption DEF Args, ListQuery, IsQuery, Orders

LEMMA TableFinite ==
  ASSUME Types
  PROVE  IsTable(table) /\ IsFiniteSet(DOMAIN table)
BY FS_Subset, ProducersListAssumption DEF Types

\* The request of the walk for its next page.
WalkQuery == [walk.query EXCEPT !.cursor = walk.cursor]

LEMMA WalkQueryType ==
  ASSUME Types, walk.query # NoId
  PROVE  /\ walk.query \in [page : {1}, pageSize : Nat \ {0}, sortBy : {"createdAt", "name"},
                            sortOrder : {"asc", "desc"}, name : Filters, cursor : {NoCursor}]
         /\ WalkQuery.cursor = walk.cursor
         /\ WalkQuery.name = walk.query.name /\ WalkQuery.sortBy = walk.query.sortBy
         /\ WalkQuery.sortOrder = walk.query.sortOrder
         /\ IsQuery(WalkQuery) /\ Offset(WalkQuery) = 0
<1>1. walk.query \in QueriesAsked /\ walk.cursor \in Cursors \cup {NoCursor}
  BY DEF Types, Walks
<1>2. walk.query \in [page : {1}, pageSize : Nat \ {0}, sortBy : {"createdAt", "name"},
                     sortOrder : {"asc", "desc"}, name : Filters, cursor : {NoCursor}]
  BY <1>1, ProducersListBehaviours DEF QueriesAsked
<1>3. /\ WalkQuery.cursor = walk.cursor
      /\ WalkQuery.name = walk.query.name /\ WalkQuery.sortBy = walk.query.sortBy
      /\ WalkQuery.sortOrder = walk.query.sortOrder
      /\ WalkQuery.page = 1 /\ WalkQuery.pageSize \in Nat \ {0}
  BY <1>2 DEF WalkQuery
<1>4. IsQuery(WalkQuery)
  BY <1>1, <1>2, <1>3 DEF IsQuery, Orders
<1>5. Offset(WalkQuery) = 0
  BY <1>3 DEF Offset
<1> QED
  BY <1>2, <1>3, <1>4, <1>5

-----------------------------------------------------------------------------
(* The inductive invariant *)

\* The previous key is the one before the active one; no row has a later key.
KeysKept ==
  /\ ring.previous = IF ring.active = 0 THEN 0 ELSE ring.active - 1
  /\ \A id \in DOMAIN table : table[id].key <= ring.active

\* A search that was not overtaken is for the box, and a hit that is not for
\* the box is about to be replaced.
SearchFollowsBox ==
  /\ search.timers \subseteq {boxes.document}
  /\ ~search.overtaken =>
       /\ search.flight \subseteq {boxes.document}
       /\ search.hit # NoId /\ DocumentOf[search.hit] # boxes.document =>
            boxes.document \in search.timers \cup search.flight

\* A producer whose deletion was reported is gone for good; the list is invalid
\* as long as an entry, or what the server has read for one, may hold it.
DeletedGone ==
  /\ deleted \cap Live = {} /\ deleted \subseteq DOMAIN table
  /\ ~list.invalid =>
       \A a \in DOMAIN list.entries :
         /\ list.entries[a].status = "answered" =>
              Range(list.entries[a].value.items) \cap deleted = {}
         /\ list.entries[a].found \notin {NoData, Failed} =>
              Range(list.entries[a].found.items) \cap deleted = {}

\* Nothing was written, by other clients or by the page.
Untouched == writes = 0 /\ table = behaviour.table

\* What an entry holds, and what the server has read for it, is what a table
\* gives.
HoldsTable(t, e, a) ==
  /\ e.value # NoData => /\ e.value.items = PageOf(t, ListQuery(a))
                         /\ e.value.total = Total(t, a.name)
  /\ e.total # NoData => e.total = Total(t, a.name)
  /\ e.found \notin {NoData, Failed} => e.found.items = PageOf(t, ListQuery(a))

\* As long as nothing is written, entries hold what the table gives, and the
\* page has a row.
PagesKept ==
  /\ writes = 0 => \A id \in Live : id \in DOMAIN behaviour.table /\ behaviour.table[id].live
  /\ Untouched =>
       /\ \A a \in DOMAIN list.entries : HoldsTable(table, list.entries[a], a)
       /\ \/ list.args.page = 1
          \/ (list.args.page - 1) * list.args.size < Total(table, list.args.name)

Once(seen, id) == \E i \in DOMAIN seen : \A j \in DOMAIN seen : seen[j] = id <=> j = i
Never(seen, id) == \A j \in DOMAIN seen : seen[j] # id

Unsplit(id) == walk.query.sortOrder = "desc" => SortValue(table[id], walk.query) \notin walk.split

Passed(id) ==
  \/ walk.done
  \/ walk.cursor # NoCursor /\ ~BehindCursor(table[id], id, walk.cursor, walk.query)

\* Producers that were there all along are still listed; those the walk has
\* passed were seen once, the others not yet.
WalkKept ==
  /\ walk.done => walk.on
  /\ walk.on => behaviour.role = "walk"
  /\ behaviour.role = "walk" => ~dialog.busy
  /\ walk.on => walk.steady \subseteq Listed(table, walk.query.name)
  /\ walk.on => \A id \in walk.steady :
       Unsplit(id) => (Passed(id) => Once(walk.seen, id)) /\ (~Passed(id) => Never(walk.seen, id))

ListInv == Types /\ KeysKept /\ SearchFollowsBox /\ DeletedGone /\ PagesKept /\ WalkKept

-----------------------------------------------------------------------------
(* Every step keeps the types *)

LEMMA RowsKept ==
  ASSUME NEW t, IsTable(t), NEW id \in DOMAIN t, NEW row \in Rows
  PROVE  IsTable([t EXCEPT ![id] = row]) /\ DOMAIN [t EXCEPT ![id] = row] = DOMAIN t
BY DEF IsTable

LEMMA EncryptedType ==
  ASSUME NEW row \in Rows, NEW r, r.active \in Nat
  PROVE  /\ Encrypted(row, r) \in Rows
         /\ Encrypted(row, r).live = row.live /\ Encrypted(row, r).name = row.name
         /\ Encrypted(row, r).created = row.created /\ Encrypted(row, r).key = r.active
BY DEF Encrypted, Rows

\* The table after an update, a deletion and a creation.
LEMMA UpdatedTable ==
  ASSUME Types, NEW id \in DOMAIN table, NEW n \in Nat, NEW t,
         t = [table EXCEPT ![id] = Encrypted([@ EXCEPT !.name = n], ring)]
  PROVE  /\ IsTable(t) /\ DOMAIN t = DOMAIN table
         /\ \A i \in DOMAIN table \ {id} : t[i] = table[i]
         /\ t[id].live = table[id].live /\ t[id].name = n
         /\ t[id].created = table[id].created /\ t[id].key = ring.active
<1> DEFINE row == [table[id] EXCEPT !.name = n]
<1>1. table[id] \in Rows /\ ring.active \in Nat
  BY ProducersListAssumption DEF Types, IsTable
<1>2. row \in Rows /\ row.live = table[id].live /\ row.name = n /\ row.created = table[id].created
  BY <1>1 DEF Rows
<1>3. t = [table EXCEPT ![id] = Encrypted(row, ring)]
  OBVIOUS
<1> HIDE DEF row
<1>4. t[id] = Encrypted(row, ring) /\ \A i \in DOMAIN table \ {id} : t[i] = table[i]
  BY <1>3 DEF Types, IsTable
<1> DEFINE new == Encrypted(row, ring)
<1>5. /\ new \in Rows /\ new.live = row.live /\ new.name = n
      /\ new.created = row.created /\ new.key = ring.active
  BY <1>1, <1>2, EncryptedType
<1> HIDE DEF new
<1>6. IsTable([table EXCEPT ![id] = new]) /\ DOMAIN [table EXCEPT ![id] = new] = DOMAIN table
  BY <1>5, RowsKept DEF Types
<1> QED
  BY <1>2, <1>3, <1>4, <1>5, <1>6 DEF new

LEMMA DeletedTable ==
  ASSUME Types, NEW id \in DOMAIN table, NEW t, t = [table EXCEPT ![id].live = FALSE]
  PROVE  /\ IsTable(t) /\ DOMAIN t = DOMAIN table
         /\ \A i \in DOMAIN table \ {id} : t[i] = table[i]
         /\ ~t[id].live /\ t[id].key = table[id].key
<1> DEFINE row == [table[id] EXCEPT !.live = FALSE]
<1>1. table[id] \in Rows
  BY DEF Types, IsTable
<1>2. row \in Rows /\ ~row.live /\ row.key = table[id].key
  BY <1>1 DEF Rows
<1>3. t = [table EXCEPT ![id] = row]
  OBVIOUS
<1> HIDE DEF row
<1>4. t[id] = row /\ \A i \in DOMAIN table \ {id} : t[i] = table[i]
  BY <1>3 DEF Types, IsTable
<1>5. IsTable([table EXCEPT ![id] = row]) /\ DOMAIN [table EXCEPT ![id] = row] = DOMAIN table
  BY <1>2, RowsKept DEF Types
<1> QED
  BY <1>2, <1>3, <1>4, <1>5

LEMMA CreatedTable ==
  ASSUME Types, NEW id \in Ids, id \notin DOMAIN table, NEW row \in Rows, NEW t,
         t = [i \in DOMAIN table \cup {id} |-> IF i = id THEN Encrypted(row, ring) ELSE table[i]]
  PROVE  /\ IsTable(t) /\ DOMAIN t = DOMAIN table \cup {id}
         /\ \A i \in DOMAIN table : t[i] = table[i]
         /\ t[id].key = ring.active
<1>1. ring.active \in Nat /\ id \in Nat
  BY ProducersListAssumption DEF Types
<1>2. Encrypted(row, ring) \in Rows /\ Encrypted(row, ring).key = ring.active
  BY <1>1, EncryptedType
<1> QED
  BY <1>1, <1>2 DEF Types, IsTable

LEMMA NamesAreNumbers == Names \subseteq Nat
BY ProducerListingAssumption DEF Names

LEMMA CreatedRow ==
  ASSUME NEW id \in Ids, Create(id)
  PROVE  \E row \in Rows :
           table' = [i \in DOMAIN table \cup {id} |->
                       IF i = id THEN Encrypted(row, ring) ELSE table[i]]
<1>1. PICK n \in Names, c \in 1..3 :
        table' = [i \in DOMAIN table \cup {id} |->
                    IF i = id THEN Encrypted([NoRow EXCEPT !.live = TRUE, !.name = n,
                                                           !.created = c], ring)
                              ELSE table[i]]
  BY DEF Create
<1> DEFINE row == [NoRow EXCEPT !.live = TRUE, !.name = n, !.created = c]
<1>2. NoRow \in Rows
  BY DEF NoRow, Rows
<1>3. row \in Rows
  <2>1. n \in Nat /\ c \in Nat
    BY NamesAreNumbers
  <2> QED
    BY <1>2, <2>1 DEF Rows
<1>4. table' = [i \in DOMAIN table \cup {id} |-> IF i = id THEN Encrypted(row, ring) ELSE table[i]]
  BY <1>1
<1> HIDE DEF row
<1> QED
  BY <1>3, <1>4

LEMMA TypesInit == Init => Types
<1> SUFFICES ASSUME Init PROVE Types
  OBVIOUS
<1>1. behaviour \in Behaviours /\ behaviour.writes \in Nat
  BY ProducersListBehaviours DEF Init
<1>2. IsTable(table) /\ DOMAIN table \subseteq Ids
  BY <1>1, ProducersListBehaviours, ProducersListAssumption DEF Init, IsTable
<1>3. walk \in Walks
  BY EmptySeq DEF Init, NoWalk, Walks
<1>4. FirstArgs \in Args
  BY ProducersListAssumption DEF FirstArgs, Args, Filters
<1>5. Requested(<<>>, FirstArgs) \in EntryMaps /\ FirstArgs \in DOMAIN Requested(<<>>, FirstArgs)
  <2> DEFINE none == <<>>
  <2>1. none \in [1..0 -> Entries] /\ DOMAIN none = {}
    BY EmptySeq, LenProperties
  <2> HIDE DEF none
  <2>2. none \in EntryMaps
    BY <2>1, EntryMapsIs
  <2>3. Requested(none, FirstArgs) \in EntryMaps
        /\ DOMAIN Requested(none, FirstArgs) = DOMAIN none \cup {FirstArgs}
    BY <2>2, <1>4, RequestedType
  <2> QED
    BY <2>3 DEF none
<1>6. /\ ring \in [active : 0..MaxKey, previous : 0..MaxKey] /\ writes \in 0..behaviour.writes
      /\ boxes \in [typed : Filters, document : Documents \cup {NoDocument}, changes : 0..behaviour.typed]
  BY <1>1, ProducersListBehaviours, ProducersListAssumption DEF Init, Filters
<1>7. search \in Searches /\ dialog \in [id : Ids \cup {NoId}, busy : BOOLEAN] /\ deleted \subseteq Ids
  BY DEF Init, Searches
<1>8. /\ list \in Lists
      /\ list.args \in DOMAIN list.entries
  BY <1>4, <1>5 DEF Init, Lists
<1>9. walk.on => walk.query # NoId
  BY DEF Init, NoWalk
<1> QED
  BY <1>1, <1>2, <1>3, <1>6, <1>7, <1>8, <1>9 DEF Types

\* Other clients, and restarts.
LEMMA TypesTable ==
  ASSUME Types, Rotate \/ \E id \in Ids : Create(id) \/ Update(id) \/ Delete(id)
  PROVE  Types'
<1>0. behaviour.writes \in Nat /\ writes \in 0..behaviour.writes
  BY ProducersListBehaviours DEF Types
<1>1. ASSUME NEW id \in Ids, Create(id)
      PROVE  Types'
  <2>1. PICK row \in Rows :
          table' = [i \in DOMAIN table \cup {id} |->
                      IF i = id THEN Encrypted(row, ring) ELSE table[i]]
    BY <1>1, CreatedRow
  <2>2. id \notin DOMAIN table
    BY <1>1 DEF Create
  <2>3. IsTable(table') /\ DOMAIN table' = DOMAIN table \cup {id}
    BY <2>1, <2>2, CreatedTable
  <2>4. writes < behaviour.writes /\ writes' = writes + 1 /\ UNCHANGED <<behaviour, ring, walk, page>>
    BY <1>1 DEF Create
  <2> QED
    BY <1>0, <2>3, <2>4 DEF page, Types
<1>2. ASSUME NEW id \in Ids, Update(id)
      PROVE  Types'
  <2>1. PICK n \in Names :
          /\ table' = [table EXCEPT ![id] = Encrypted([@ EXCEPT !.name = n], ring)]
          /\ Steady({i \in Ids : i # id \/ table[id].name = n})
    BY <1>2 DEF Update
  <2>2. n \in Nat /\ id \in DOMAIN table
    BY <1>2, NamesAreNumbers DEF Update, Loadable, Live
  <2>3. walk' \in Walks /\ walk'.on = walk.on /\ walk'.query = walk.query
    BY <2>1 DEF Steady, Walks, Types
  <2>4. IsTable(table') /\ DOMAIN table' = DOMAIN table
    BY <2>1, <2>2, UpdatedTable
  <2>5. writes' \in 0..behaviour.writes /\ UNCHANGED <<behaviour, ring, page>>
    BY <1>2, <1>0 DEF Update
  <2> QED
    BY <2>3, <2>4, <2>5 DEF page, Types
<1>3. ASSUME NEW id \in Ids, Delete(id)
      PROVE  Types'
  <2>1. table' = [table EXCEPT ![id].live = FALSE] /\ Steady(Ids \ {id}) /\ id \in DOMAIN table
    BY <1>3 DEF Delete, Loadable, Live
  <2>2. walk' \in Walks /\ walk'.on = walk.on /\ walk'.query = walk.query
    BY <2>1 DEF Steady, Walks, Types
  <2>3. IsTable(table') /\ DOMAIN table' = DOMAIN table
    BY <2>1, DeletedTable
  <2>4. writes' \in 0..behaviour.writes /\ UNCHANGED <<behaviour, ring, page>>
    BY <1>3, <1>0 DEF Delete
  <2> QED
    BY <2>2, <2>3, <2>4 DEF page, Types
<1>4. CASE Rotate
  <2>1. ring' \in [active : 0..MaxKey, previous : 0..MaxKey]
    BY <1>4, ProducersListAssumption DEF Rotate, Types
  <2> QED
    BY <1>4, <2>1 DEF Rotate, page, Types
<1> QED
  BY <1>1, <1>2, <1>3, <1>4

LEMMA TypesWalk ==
  ASSUME Types, StartWalk \/ NextPage
  PROVE  Types'
<1>1. CASE StartWalk
  <2>1. PICK q \in behaviour.queries :
          walk' = [NoWalk EXCEPT !.on = TRUE, !.query = q, !.steady = Listed(table, q.name)]
    BY <1>1 DEF StartWalk
  <2>2. q \in QueriesAsked /\ q # NoId /\ Listed(table, q.name) \in SUBSET Ids
    BY ProducersListBehaviours DEF QueriesAsked, Types, Listed
  <2>3. walk' = [on |-> TRUE, done |-> FALSE, cursor |-> NoCursor, seen |-> <<>>,
                 steady |-> Listed(table, q.name), split |-> {}, query |-> q]
    BY <2>1 DEF NoWalk
  <2>4. walk' \in Walks /\ walk'.query # NoId
    BY <2>2, <2>3, EmptySeq DEF Walks
  <2> QED
    BY <1>1, <2>4 DEF StartWalk, page, Types
<1>2. CASE NextPage
  <2> DEFINE answer == FindPage(table, WalkQuery, ring)
             split == SplitBy(WalkQuery, answer.next)
  <2>1. /\ walk' = [walk EXCEPT !.seen = @ \o answer.items, !.cursor = answer.next,
                                !.done = answer.next = NoCursor, !.split = @ \cup split]
        /\ answer # Failed /\ walk.on
    BY <1>2 DEF NextPage, WalkQuery
  <2>2. walk.query # NoId /\ walk \in Walks
    BY <2>1 DEF Types
  <2>3. IsQuery(WalkQuery)
    BY <2>2, WalkQueryType
  <2>4. answer \in Pages
    <3> DEFINE P == PageOf(table, WalkQuery)
    <3>1. P = PageOf(table, WalkQuery) /\ answer = FindPage(table, WalkQuery, ring)
      OBVIOUS
    <3>2. IsTable(table) /\ IsFiniteSet(DOMAIN table)
      BY TableFinite
    <3> HIDE DEF P, answer
    <3>3. answer \in Pages \cup {Failed}
      BY <2>3, <3>1, <3>2, FindPageAnswers
    <3> QED
      BY <2>1, <3>3
  <2>5. split \subseteq Nat
    <3>1. \A id \in Listed(table, WalkQuery.name) : SortValue(table[id], WalkQuery) \in Nat
      BY SortValueType DEF Listed, Types
    <3> QED
      BY <3>1 DEF SplitBy
  <2> HIDE DEF answer, split
  <2>6. answer.items \in Seq(Nat) /\ answer.next \in Cursors \cup {NoCursor}
    BY <2>4 DEF Pages
  <2>7. walk.seen \o answer.items \in Seq(Nat)
    BY <2>2, <2>6, ConcatProperties DEF Walks
  <2>8. walk' \in Walks /\ walk'.query # NoId
    BY <2>1, <2>2, <2>5, <2>6, <2>7 DEF Walks
  <2> QED
    BY <1>2, <2>8 DEF NextPage, page, Types
<1> QED
  BY <1>1, <1>2

LEMMA ListFields ==
  ASSUME Types
  PROVE  /\ list.args \in Args /\ list.entries \in EntryMaps /\ list.args \in DOMAIN list.entries
         /\ DOMAIN list.entries \subseteq Args /\ list.entries \in [DOMAIN list.entries -> Entries]
         /\ list.data \in Answers \cup {NoData} /\ list.invalid \in BOOLEAN
BY EntryMapsIs DEF Types, Lists

LEMMA ShowType ==
  ASSUME Types, NEW a \in Args, Show(a)
  PROVE  /\ list' \in Lists /\ list'.args \in DOMAIN list'.entries
         /\ list'.args = a /\ list'.entries = Requested(list.entries, a)
         /\ list'.invalid = list.invalid
<1> DEFINE r == Requested(list.entries, a)
           d == Data
<1>1. list' = [list EXCEPT !.args = a, !.entries = r, !.data = d]
  BY DEF Show
<1>2. r \in EntryMaps /\ a \in DOMAIN r
  <2>1. r = Requested(list.entries, a) /\ list.entries \in EntryMaps
    BY ListFields
  <2> HIDE DEF r
  <2>2. r \in EntryMaps /\ DOMAIN r = DOMAIN list.entries \cup {a}
    BY <2>1, RequestedType
  <2> QED
    BY <2>2
<1>3. d \in Answers \cup {NoData}
  BY CurrentType
<1> HIDE DEF r, d
<1> QED
  BY <1>1, <1>2, <1>3 DEF Types, Lists, r

\* What the page asks for next.
LEMMA GoToPageShows ==
  ASSUME Types, NEW p \in 1..Cardinality(Ids), GoToPage(p)
  PROVE  [list.args EXCEPT !.page = p] \in Args /\ Show([list.args EXCEPT !.page = p])
BY ListFields DEF GoToPage, Args

LEMMA ResizedShows ==
  ASSUME Types, NEW size \in PageSizes, ChangePageSize(size)
  PROVE  Resized(list.args, size) \in Args /\ Show(Resized(list.args, size))
<1>0. list.args \in Args
  BY ListFields
<1>1. Resized(list.args, size) \in Args
  <2>1. ASSUME NEW args \in Args
        PROVE  [args EXCEPT !.size = size, !.page = 1] \in Args
    <3> DEFINE sized == [args EXCEPT !.size = size]
    <3>1. sized \in Args
      BY DEF Args
    <3>2. [args EXCEPT !.size = size, !.page = 1] = [sized EXCEPT !.page = 1]
      OBVIOUS
    <3> HIDE DEF sized
    <3>3. [sized EXCEPT !.page = 1] \in Args
      BY <3>1 DEF Args
    <3> QED
      BY <3>2, <3>3
  <2> QED
    BY <1>0, <2>1 DEF Resized
<1>2. Show(Resized(list.args, size))
  BY DEF ChangePageSize
<1> QED
  BY <1>1, <1>2

\* The two requests after a name was typed.
LateArgs == [list.args EXCEPT !.name = boxes.typed]
TypedArgs == [LateArgs EXCEPT !.page = 1]

LEMMA DeferredQueryType ==
  ASSUME Types, DeferredQuery
  PROVE  /\ list' \in Lists /\ list'.args \in DOMAIN list'.entries
         /\ LateArgs \in Args /\ TypedArgs \in Args /\ list'.args = TypedArgs /\ TypedArgs.page = 1
         /\ list'.entries = Requested(Requested(list.entries, LateArgs), TypedArgs)
         /\ list'.invalid = list.invalid
<1> DEFINE r == Requested(list.entries, LateArgs)
           rr == Requested(r, TypedArgs)
           d == Data
<1>1. list' = [list EXCEPT !.args = TypedArgs, !.data = d, !.entries = rr]
  BY DEF DeferredQuery, LateArgs, TypedArgs
<1>2. LateArgs \in Args
  BY ListFields DEF LateArgs, Args, Types
<1>3. TypedArgs \in Args /\ TypedArgs.page = 1
  BY <1>2 DEF TypedArgs, Args
<1>4. r = Requested(list.entries, LateArgs) /\ rr = Requested(r, TypedArgs)
  OBVIOUS
<1>5. d \in Answers \cup {NoData}
  BY CurrentType
<1> HIDE DEF r, rr, d
<1>6. r \in EntryMaps
  BY <1>2, <1>4, ListFields, RequestedType
<1>7. rr \in EntryMaps /\ DOMAIN rr = DOMAIN r \cup {TypedArgs}
  BY <1>3, <1>4, <1>6, RequestedType
<1> QED
  BY <1>1, <1>2, <1>3, <1>4, <1>5, <1>7 DEF Types, Lists

\* One entry changes.
LEMMA EntryChanges ==
  ASSUME Types, NEW a \in DOMAIN list.entries, NEW e \in Entries,
         list' = [list EXCEPT !.entries[a] = e]
  PROVE  /\ list' \in Lists /\ list'.args = list.args /\ list'.invalid = list.invalid
         /\ list'.args \in DOMAIN list'.entries
         /\ DOMAIN list'.entries = DOMAIN list.entries /\ list'.entries[a] = e
         /\ \A b \in DOMAIN list.entries \ {a} : list'.entries[b] = list.entries[b]
<1> DEFINE r == [list.entries EXCEPT ![a] = e]
<1>1. list' = [list EXCEPT !.entries = r]
  OBVIOUS
<1>2. DOMAIN r = DOMAIN list.entries /\ r \in [DOMAIN r -> Entries] /\ DOMAIN r \subseteq Args
      /\ r[a] = e /\ \A b \in DOMAIN r \ {a} : r[b] = list.entries[b]
  BY ListFields
<1> HIDE DEF r
<1>3. r \in EntryMaps
  BY <1>2, EntryMapsIs
<1>4. list' \in Lists /\ list'.entries = r /\ list'.args = list.args /\ list'.invalid = list.invalid
  BY <1>1, <1>3 DEF Types, Lists
<1> QED
  BY <1>2, <1>4, ListFields

\* The server counts: the entry has the total of the table.
LEMMA CountedEntry ==
  ASSUME Types, NEW a \in DOMAIN list.entries, ServerCounts(a)
  PROVE  \E e \in Entries :
           /\ list' = [list EXCEPT !.entries[a] = e]
           /\ e.status = "pending" /\ e.value = list.entries[a].value
           /\ e.total = Total(table, a.name) /\ e.found = list.entries[a].found
<1> DEFINE total == Total(table, a.name)
           e == [list.entries[a] EXCEPT !.total = total]
<1>1. list' = [list EXCEPT !.entries[a] = e] /\ list.entries[a].status = "pending"
  BY DEF ServerCounts
<1>2. total \in Nat
  <2>1. Listed(table, a.name) \in SUBSET DOMAIN table /\ IsFiniteSet(DOMAIN table)
    BY TableFinite DEF Listed
  <2> QED
    BY <2>1, FS_Subset, FS_CardinalityType DEF Total
<1>3. list.entries[a] \in Entries
  BY ListFields
<1> HIDE DEF total
<1>4. e \in Entries /\ e.status = "pending" /\ e.value = list.entries[a].value
      /\ e.total = total /\ e.found = list.entries[a].found
  BY <1>1, <1>2, <1>3 DEF Entries, EntryRecords
<1> HIDE DEF e
<1> QED
  BY <1>1, <1>4 DEF total

\* The server selects: the entry has the page of the table, if it can be read.
LEMMA SelectedEntry ==
  ASSUME Types, NEW a \in DOMAIN list.entries, ServerSelects(a)
  PROVE  \E e \in Entries :
           /\ list' = [list EXCEPT !.entries[a] = e]
           /\ e.status = "pending" /\ e.value = list.entries[a].value
           /\ e.total = list.entries[a].total
           /\ e.found # Failed => e.found.items = PageOf(table, ListQuery(a))
<1> DEFINE q == ListQuery(a)
           P == PageOf(table, q)
           found == FindPage(table, q, ring)
           e == [list.entries[a] EXCEPT !.found = found]
<1>1. list' = [list EXCEPT !.entries[a] = e] /\ list.entries[a].status = "pending"
  BY DEF ServerSelects
<1>2. a \in Args /\ list.entries[a] \in Entries
  BY ListFields
<1>3. IsTable(table) /\ IsFiniteSet(DOMAIN table) /\ IsQuery(q)
      /\ P = PageOf(table, q) /\ found = FindPage(table, q, ring)
  BY <1>2, TableFinite, ListQueryType
<1> HIDE DEF q, P, found
<1>4. found \in Pages \cup {Failed} /\ (found # Failed => found.items = P)
  BY <1>3, FindPageAnswers
<1>5. e \in Entries /\ e.status = "pending" /\ e.value = list.entries[a].value
      /\ e.total = list.entries[a].total /\ e.found = found
  BY <1>1, <1>2, <1>4 DEF Entries, EntryRecords
<1> HIDE DEF e
<1> QED
  BY <1>1, <1>4, <1>5 DEF P, q

\* The answer arrives: the entry holds what had been read, or is rejected.
LEMMA AnsweredEntry ==
  ASSUME Types, NEW a \in DOMAIN list.entries, ListAnswers(a)
  PROVE  \E e \in Entries :
           /\ list' = [list EXCEPT !.entries[a] = e]
           /\ e.total = NoData /\ e.found = NoData
           /\ \/ e.status = "rejected" /\ e.value = list.entries[a].value
              \/ /\ e.status = "answered" /\ e.value \in Answers
                 /\ list.entries[a].total # NoData
                 /\ list.entries[a].found \notin {NoData, Failed}
                 /\ e.value.items = list.entries[a].found.items
                 /\ e.value.total = list.entries[a].total
<1> DEFINE old == list.entries[a]
           rejected == [NoEntry EXCEPT !.status = "rejected", !.value = old.value]
           value == [items |-> old.found.items, total |-> old.total]
           answered == [NoEntry EXCEPT !.status = "answered", !.value = value]
<1>1. \/ list' = [list EXCEPT !.entries[a] = rejected]
      \/ /\ old.total # NoData /\ old.found \notin {NoData, Failed}
         /\ list' = [list EXCEPT !.entries[a] = answered]
  BY DEF ListAnswers
<1>2. old \in Entries
  BY ListFields
<1> HIDE DEF old
<1>3. CASE list' = [list EXCEPT !.entries[a] = rejected]
  <2>1. rejected \in Entries /\ rejected.status = "rejected" /\ rejected.value = old.value
        /\ rejected.total = NoData /\ rejected.found = NoData
    BY <1>2 DEF NoEntry, Entries, EntryRecords
  <2> HIDE DEF rejected
  <2> QED
    BY <1>3, <2>1 DEF old
<1>4. CASE /\ old.total # NoData /\ old.found \notin {NoData, Failed}
           /\ list' = [list EXCEPT !.entries[a] = answered]
  <2>1. value \in Answers /\ value.items = old.found.items /\ value.total = old.total
    BY <1>2, <1>4 DEF Entries, EntryRecords, Pages, Answers
  <2> HIDE DEF value
  <2>2. answered \in Entries /\ answered.status = "answered" /\ answered.value = value
        /\ answered.total = NoData /\ answered.found = NoData
    BY <2>1 DEF NoEntry, Entries, EntryRecords
  <2> HIDE DEF answered
  <2> QED
    BY <1>4, <2>1, <2>2 DEF old
<1> QED
  BY <1>1, <1>3, <1>4

-----------------------------------------------------------------------------
(* What a step does to the list *)

EntryKept(b) ==
  /\ b \in DOMAIN list.entries /\ list'.entries[b].value = list.entries[b].value
  /\ list'.entries[b].status = "answered" => list.entries[b].status = "answered"
  /\ list'.entries[b].total \in {list.entries[b].total, NoData}
  /\ list'.entries[b].found \in {list.entries[b].found, NoData}
EntryNew(b) ==
  /\ list'.entries[b].status = "pending" /\ list'.entries[b].value = NoData
  /\ list'.entries[b].total = NoData /\ list'.entries[b].found = NoData
EntryRead(b) ==
  /\ UNCHANGED table
  /\ b \in DOMAIN list.entries /\ list'.entries[b].value = list.entries[b].value
  /\ list'.entries[b].status = "pending"
  /\ list'.entries[b].total \in {list.entries[b].total, Total(table, b.name)}
  /\ \/ list'.entries[b].found \in {list.entries[b].found, Failed}
     \/ list'.entries[b].found.items = PageOf(table, ListQuery(b))
EntryAnswered(b) ==
  /\ b \in DOMAIN list.entries
  /\ list.entries[b].total # NoData /\ list.entries[b].found \notin {NoData, Failed}
  /\ list'.entries[b].value.items = list.entries[b].found.items
  /\ list'.entries[b].value.total = list.entries[b].total
  /\ list'.entries[b].total = NoData /\ list'.entries[b].found = NoData

\* An entry is kept, new, read for, or holds what was read for it; after an
\* invalidation nothing is answered and nothing has been read.
ListStep ==
  /\ list' \in Lists /\ list'.args \in DOMAIN list'.entries
  /\ \A b \in DOMAIN list'.entries :
       EntryKept(b) \/ EntryNew(b) \/ EntryRead(b) \/ EntryAnswered(b)
  /\ list.invalid /\ ~list'.invalid =>
       \A b \in DOMAIN list'.entries :
         list'.entries[b].status # "answered" /\ list'.entries[b].found = NoData

LEMMA SameEntries ==
  ASSUME Types, list' \in Lists, list'.entries = list.entries, list'.args = list.args,
         list.invalid => list'.invalid
  PROVE  ListStep
<1>1. \A b \in DOMAIN list'.entries : EntryKept(b)
  BY DEF EntryKept
<1> QED
  BY <1>1, ListFields DEF ListStep

LEMMA ShowStep ==
  ASSUME Types, NEW a \in Args, Show(a)
  PROVE  ListStep
<1> DEFINE entries == list.entries
           r == Requested(entries, a)
<1>1. /\ list' \in Lists /\ list'.args \in DOMAIN list'.entries
      /\ list'.entries = r /\ list'.invalid = list.invalid
  BY ShowType
<1>2. r = Requested(entries, a) /\ entries \in EntryMaps
  BY ListFields
<1> HIDE DEF entries, r
<1>3. \A b \in DOMAIN r : \/ r[b] = PendingEntry
                          \/ b \in DOMAIN entries /\ r[b] = entries[b]
  BY <1>2, RequestedType
<1>4. \A b \in DOMAIN list'.entries : EntryKept(b) \/ EntryNew(b)
  BY <1>1, <1>3, NewEntry DEF EntryKept, EntryNew, entries
<1> QED
  BY <1>1, <1>4 DEF ListStep

LEMMA DeferredQueryStep ==
  ASSUME Types, DeferredQuery
  PROVE  ListStep
<1> DEFINE entries == list.entries
           r == Requested(entries, LateArgs)
           rr == Requested(r, TypedArgs)
<1>1. /\ list' \in Lists /\ list'.args \in DOMAIN list'.entries
      /\ list'.entries = rr /\ list'.invalid = list.invalid
      /\ LateArgs \in Args /\ TypedArgs \in Args
  BY DeferredQueryType
<1>2. r = Requested(entries, LateArgs) /\ rr = Requested(r, TypedArgs)
      /\ entries \in EntryMaps
  BY ListFields
<1> HIDE DEF entries, r, rr
<1>3. r \in EntryMaps
      /\ \A b \in DOMAIN r : \/ r[b] = PendingEntry
                             \/ b \in DOMAIN entries /\ r[b] = entries[b]
  BY <1>1, <1>2, RequestedType
<1>4. \A b \in DOMAIN rr : \/ rr[b] = PendingEntry
                           \/ b \in DOMAIN r /\ rr[b] = r[b]
  <2>1. r \in EntryMaps /\ TypedArgs \in Args /\ rr = Requested(r, TypedArgs)
    BY <1>1, <1>2, <1>3
  <2> QED
    BY <2>1, RequestedType
<1>5. \A b \in DOMAIN list'.entries : EntryKept(b) \/ EntryNew(b)
  BY <1>1, <1>3, <1>4, NewEntry DEF EntryKept, EntryNew, entries
<1> QED
  BY <1>1, <1>5 DEF ListStep

LEMMA RequestStep ==
  ASSUME Types, NEW a \in DOMAIN list.entries,
         ServerCounts(a) \/ ServerSelects(a) \/ ListAnswers(a)
  PROVE  ListStep /\ list'.args = list.args
<1>0. UNCHANGED table
  BY DEF ServerCounts, ServerSelects, ListAnswers
<1>1. ASSUME NEW e \in Entries, list' = [list EXCEPT !.entries[a] = e],
             list'.entries[a] = e => EntryKept(a) \/ EntryRead(a) \/ EntryAnswered(a)
      PROVE  ListStep /\ list'.args = list.args
  <2>1. /\ list' \in Lists /\ list'.args = list.args /\ list'.invalid = list.invalid
        /\ list'.args \in DOMAIN list'.entries
        /\ DOMAIN list'.entries = DOMAIN list.entries /\ list'.entries[a] = e
        /\ \A b \in DOMAIN list.entries \ {a} : list'.entries[b] = list.entries[b]
    BY <1>1, EntryChanges
  <2>2. \A b \in DOMAIN list'.entries \ {a} : EntryKept(b)
    BY <2>1 DEF EntryKept
  <2> QED
    BY <1>1, <2>1, <2>2 DEF ListStep
<1>2. CASE ServerCounts(a)
  <2>1. PICK e \in Entries :
          /\ list' = [list EXCEPT !.entries[a] = e]
          /\ e.status = "pending" /\ e.value = list.entries[a].value
          /\ e.total = Total(table, a.name) /\ e.found = list.entries[a].found
    BY <1>2, CountedEntry
  <2>2. list'.entries[a] = e => EntryRead(a)
    BY <1>0, <2>1 DEF EntryRead
  <2> QED
    BY <1>1, <2>1, <2>2
<1>3. CASE ServerSelects(a)
  <2>1. PICK e \in Entries :
          /\ list' = [list EXCEPT !.entries[a] = e]
          /\ e.status = "pending" /\ e.value = list.entries[a].value
          /\ e.total = list.entries[a].total
          /\ e.found # Failed => e.found.items = PageOf(table, ListQuery(a))
    BY <1>3, SelectedEntry
  <2>2. list'.entries[a] = e => EntryRead(a)
    BY <1>0, <2>1 DEF EntryRead
  <2> QED
    BY <1>1, <2>1, <2>2
<1>4. CASE ListAnswers(a)
  <2>1. PICK e \in Entries :
          /\ list' = [list EXCEPT !.entries[a] = e]
          /\ e.total = NoData /\ e.found = NoData
          /\ \/ e.status = "rejected" /\ e.value = list.entries[a].value
             \/ /\ e.status = "answered" /\ e.value \in Answers
                /\ list.entries[a].total # NoData
                /\ list.entries[a].found \notin {NoData, Failed}
                /\ e.value.items = list.entries[a].found.items
                /\ e.value.total = list.entries[a].total
    BY <1>4, AnsweredEntry
  <2>2. list'.entries[a] = e => EntryKept(a) \/ EntryAnswered(a)
    BY <2>1 DEF EntryKept, EntryAnswered
  <2> QED
    BY <1>1, <2>1, <2>2
<1> QED
  BY <1>2, <1>3, <1>4

LEMMA RetryStep ==
  ASSUME Types, Retry
  PROVE  ListStep /\ list'.args = list.args
<1> DEFINE r == Refetched(list.entries, list.args)
<1>1. list' = [list EXCEPT !.entries = r]
  BY DEF Retry
<1>2. r = Refetched(list.entries, list.args) /\ list.entries \in EntryMaps
      /\ list.args \in DOMAIN list.entries
  BY ListFields
<1> HIDE DEF r
<1>3. r \in EntryMaps /\ DOMAIN r = DOMAIN list.entries
      /\ r[list.args].status = "pending" /\ r[list.args].value = list.entries[list.args].value
      /\ r[list.args].total = list.entries[list.args].total
      /\ r[list.args].found = list.entries[list.args].found
      /\ \A b \in DOMAIN r \ {list.args} : r[b] = list.entries[b]
  BY <1>2, RefetchedType
<1>4. list' \in Lists /\ list'.entries = r /\ list'.args = list.args /\ list'.invalid = list.invalid
  BY <1>1, <1>3 DEF Types, Lists
<1>5. \A b \in DOMAIN list'.entries : EntryKept(b)
  BY <1>3, <1>4 DEF EntryKept
<1> QED
  BY <1>2, <1>3, <1>4, <1>5 DEF ListStep

LEMMA ExpireStep ==
  ASSUME Types, Expire
  PROVE  ListStep /\ list'.args = list.args
<1> DEFINE r == Restrict(list.entries, InUse)
<1>1. list' = [list EXCEPT !.entries = r]
  BY DEF Expire
<1>2. r = Restrict(list.entries, InUse) /\ list.entries \in EntryMaps
      /\ list.args \in InUse /\ InUse \in SUBSET DOMAIN list.entries
  BY ListFields DEF InUse
<1> HIDE DEF r
<1>3. r \in EntryMaps /\ DOMAIN r = InUse /\ \A b \in InUse : r[b] = list.entries[b]
  BY <1>2, RestrictedType
<1>4. list' \in Lists /\ list'.entries = r /\ list'.args = list.args /\ list'.invalid = list.invalid
  BY <1>1, <1>3 DEF Types, Lists
<1>5. \A b \in DOMAIN list'.entries : EntryKept(b)
  BY <1>2, <1>3, <1>4 DEF EntryKept
<1> QED
  BY <1>2, <1>3, <1>4, <1>5 DEF ListStep

LEMMA InvalidateStep ==
  ASSUME Types, Invalidate
  PROVE  ListStep /\ list'.args = list.args
<1> DEFINE only == Restrict(list.entries, {list.args})
           r == Refetched(only, list.args)
<1>1. list' = [list EXCEPT !.invalid = FALSE, !.entries = r]
  BY DEF Invalidate
<1>2. /\ only = Restrict(list.entries, {list.args}) /\ list.entries \in EntryMaps
      /\ {list.args} \in SUBSET DOMAIN list.entries /\ r = Refetched(only, list.args)
  BY ListFields
<1> HIDE DEF only, r
<1>3. only \in EntryMaps /\ DOMAIN only = {list.args} /\ only[list.args] = list.entries[list.args]
  BY <1>2, RestrictedType
<1>4. r \in EntryMaps /\ DOMAIN r = {list.args}
      /\ r[list.args].status = "pending" /\ r[list.args].value = list.entries[list.args].value
      /\ r[list.args].total = list.entries[list.args].total
      /\ r[list.args].found = list.entries[list.args].found
  <2>1. r \in EntryMaps /\ DOMAIN r = DOMAIN only
        /\ r[list.args].status = "pending" /\ r[list.args].value = only[list.args].value
        /\ r[list.args].total = only[list.args].total /\ r[list.args].found = only[list.args].found
    <3>1. r = Refetched(only, list.args) /\ only \in EntryMaps /\ list.args \in DOMAIN only
      BY <1>2, <1>3
    <3> QED
      BY <3>1, RefetchedType
  <2> QED
    BY <1>3, <2>1
<1>5. list' \in Lists /\ list'.entries = r /\ list'.args = list.args
  BY <1>1, <1>4 DEF Types, Lists
<1>6. list.entries[list.args].found = NoData
  <2>1. list.args \in DOMAIN list.entries /\ list.entries[list.args] \in Entries
    BY ListFields
  <2>2. list.entries[list.args].status # "pending"
    BY <2>1 DEF Invalidate, Delayed
  <2> QED
    BY <2>1, <2>2 DEF Entries
<1>7. \A b \in DOMAIN list'.entries :
        EntryKept(b) /\ list'.entries[b].status # "answered" /\ list'.entries[b].found = NoData
  BY <1>2, <1>4, <1>5, <1>6 DEF EntryKept
<1> QED
  BY <1>4, <1>5, <1>7 DEF ListStep

LEMMA ListNext ==
  ASSUME Types, [Next]_vars
  PROVE  ListStep
<1>1. ASSUME UNCHANGED list
      PROVE  ListStep
  BY <1>1, SameEntries DEF Types
<1>2. ASSUME NEW id \in Ids, Create(id) \/ Update(id) \/ Delete(id) \/ AskDelete(id)
      PROVE  ListStep
  BY <1>1, <1>2 DEF Create, Update, Delete, AskDelete, page
<1>3. CASE Rotate \/ StartWalk \/ NextPage
  BY <1>1, <1>3 DEF Rotate, StartWalk, NextPage, page
<1>4. ASSUME NEW p \in 1..Cardinality(Ids), GoToPage(p)
      PROVE  ListStep
  BY <1>4, GoToPageShows, ShowStep
<1>5. ASSUME NEW size \in PageSizes, ChangePageSize(size)
      PROVE  ListStep
  BY <1>5, ResizedShows, ShowStep
<1>6. ASSUME NEW n \in Filters, TypeName(n)
      PROVE  ListStep
  BY <1>1, <1>6 DEF TypeName
<1>7. ASSUME NEW a \in DOMAIN list.entries, ServerCounts(a) \/ ServerSelects(a) \/ ListAnswers(a)
      PROVE  ListStep
  BY <1>7, RequestStep
<1>8. ASSUME NEW d, TypeDocument(d) \/ ServerFinds(d) \/ TimerFires(d) \/ SearchAnswers(d)
      PROVE  ListStep
  BY <1>1, <1>8 DEF TypeDocument, ServerFinds, TimerFires, SearchAnswers
<1>9. CASE Cancel \/ ConfirmDelete
  BY <1>1, <1>9 DEF Cancel, ConfirmDelete
<1>10. CASE DeleteAnswers \/ DeleteFails
  <2>1. list' = [list EXCEPT !.invalid = TRUE]
    BY <1>10 DEF DeleteAnswers, DeleteFails, DeleteInvalidates
  <2>2. /\ list' \in Lists /\ list'.entries = list.entries /\ list'.args = list.args
        /\ list'.invalid
    BY <2>1 DEF Types, Lists
  <2> QED
    BY <2>2, SameEntries
<1>11. CASE UNCHANGED vars
  BY <1>1, <1>11 DEF vars, page
<1> QED
  BY <1>2, <1>3, <1>4, <1>5, <1>6, <1>7, <1>8, <1>9, <1>10, <1>11,
     DeferredQueryStep, RetryStep, ExpireStep, InvalidateStep DEF Next

LEMMA TypesPage ==
  ASSUME Types,
         \/ \E id \in Ids : AskDelete(id)
         \/ \E p \in 1..Cardinality(Ids) : GoToPage(p)
         \/ \E size \in PageSizes : ChangePageSize(size)
         \/ \E n \in Filters : TypeName(n)
         \/ DeferredQuery
         \/ \E a \in DOMAIN list.entries : ServerCounts(a) \/ ServerSelects(a) \/ ListAnswers(a)
         \/ Expire \/ Retry \/ Invalidate
         \/ \E d \in Documents \cup {NoDocument} : TypeDocument(d)
         \/ \E id \in Ids : ServerFinds(id)
         \/ \E d \in Documents : TimerFires(d) \/ SearchAnswers(d)
         \/ Cancel \/ ConfirmDelete \/ DeleteAnswers \/ DeleteFails
  PROVE  Types'
<1> DEFINE Rest == UNCHANGED <<behaviour, ring, writes, walk>>
<1>0. list' \in Lists /\ list'.args \in DOMAIN list'.entries
  BY ListNext DEF ListStep, Next
<1>1. CASE \/ \E p \in 1..Cardinality(Ids) : GoToPage(p)
           \/ \E size \in PageSizes : ChangePageSize(size)
           \/ DeferredQuery
           \/ \E a \in DOMAIN list.entries : ServerCounts(a) \/ ServerSelects(a) \/ ListAnswers(a)
           \/ Expire \/ Retry \/ Invalidate
  <2>1. UNCHANGED <<behaviour, table, ring, writes, walk, boxes, search, dialog, deleted>>
    BY <1>1 DEF GoToPage, ChangePageSize, DeferredQuery, ServerCounts, ServerSelects, ListAnswers, Expire, Retry, Invalidate
  <2> QED
    BY <1>0, <2>1 DEF Types
<1>2. ASSUME NEW n \in Filters, TypeName(n)
      PROVE  Types'
  <2>1. boxes' = [boxes EXCEPT !.typed = n, !.changes = @ + 1] /\ boxes.changes < behaviour.typed
        /\ UNCHANGED <<behaviour, table, ring, writes, walk, list, search, dialog, deleted>>
    BY <1>2 DEF TypeName
  <2>2. boxes' \in [typed : Filters, document : Documents \cup {NoDocument}, changes : 0..behaviour.typed]
    <3>1. behaviour.typed \in Nat
      BY ProducersListBehaviours DEF Types
    <3>2. boxes \in [typed : Filters, document : Documents \cup {NoDocument}, changes : 0..behaviour.typed]
      BY DEF Types
    <3>3. boxes.changes + 1 \in 0..behaviour.typed
      BY <2>1, <3>1, <3>2
    <3> QED
      BY <2>1, <3>2, <3>3
  <2> QED
    BY <2>1, <2>2 DEF Types
<1>3. ASSUME NEW d \in Documents \cup {NoDocument}, TypeDocument(d)
      PROVE  Types'
  <2>1. boxes' = [boxes EXCEPT !.document = d, !.changes = @ + 1] /\ boxes.changes < behaviour.typed
        /\ search' = RestartTimer(d)
        /\ UNCHANGED <<behaviour, table, ring, writes, walk, list, dialog, deleted>>
    BY <1>3 DEF TypeDocument
  <2>2. boxes' \in [typed : Filters, document : Documents \cup {NoDocument}, changes : 0..behaviour.typed]
    <3>1. behaviour.typed \in Nat
      BY ProducersListBehaviours DEF Types
    <3>2. boxes \in [typed : Filters, document : Documents \cup {NoDocument}, changes : 0..behaviour.typed]
      BY DEF Types
    <3>3. boxes.changes + 1 \in 0..behaviour.typed
      BY <2>1, <3>1, <3>2
    <3> QED
      BY <2>1, <3>2, <3>3
  <2>3. search' \in Searches
    BY <2>1 DEF RestartTimer, Searches, Types
  <2> QED
    BY <2>1, <2>2, <2>3 DEF Types
<1>9. ASSUME NEW id \in Ids, ServerFinds(id)
      PROVE  Types'
  <2>1. search' \in Searches
    BY <1>9 DEF ServerFinds, Searches, Types
  <2> QED
    BY <1>9, <2>1 DEF ServerFinds, Types
<1>4. ASSUME NEW d \in Documents, TimerFires(d)
      PROVE  Types'
  <2>1. search' \in Searches
    BY <1>4 DEF TimerFires, Searches, Types
  <2> QED
    BY <1>4, <2>1 DEF TimerFires, Types
<1>5. ASSUME NEW d \in Documents, SearchAnswers(d)
      PROVE  Types'
  <2>1. PICK hit \in {NoId} \cup Found(d) :
               search' = [search EXCEPT !.flight = @ \ {d}, !.found = @ \ Found(d), !.hit = hit]
    BY <1>5 DEF SearchAnswers
  <2>2. search.found \in SUBSET Ids /\ hit \in Ids \cup {NoId}
    BY DEF Found, Searches, Types
  <2> HIDE DEF Found
  <2>3. search' \in Searches
    BY <2>1, <2>2 DEF Searches, Types
  <2> QED
    BY <1>5, <2>3 DEF SearchAnswers, Types
<1>6. ASSUME NEW id \in Ids, AskDelete(id)
      PROVE  Types'
  BY <1>6 DEF AskDelete, Types
<1>7. CASE Cancel \/ ConfirmDelete
  <2>1. dialog' \in [id : Ids \cup {NoId}, busy : BOOLEAN]
    <3>1. dialog' = [id |-> NoId, busy |-> FALSE] \/ dialog' = [dialog EXCEPT !.busy = TRUE]
      BY <1>7 DEF Cancel, ConfirmDelete
    <3>2. dialog \in [id : Ids \cup {NoId}, busy : BOOLEAN]
      BY DEF Types
    <3>3. CASE dialog' = [id |-> NoId, busy |-> FALSE]
      BY <3>3
    <3>4. CASE dialog' = [dialog EXCEPT !.busy = TRUE]
      BY <3>2, <3>4
    <3> QED
      BY <3>1, <3>3, <3>4
  <2> QED
    BY <1>7, <2>1 DEF Cancel, ConfirmDelete, Types
<1>8. CASE DeleteAnswers \/ DeleteFails
  <2>1. dialog' \in [id : Ids \cup {NoId}, busy : BOOLEAN]
    <3>1. dialog' = [id |-> NoId, busy |-> FALSE] \/ dialog' = [dialog EXCEPT !.busy = FALSE]
      BY <1>8 DEF DeleteAnswers, DeleteFails
    <3>2. dialog \in [id : Ids \cup {NoId}, busy : BOOLEAN]
      BY DEF Types
    <3>3. CASE dialog' = [id |-> NoId, busy |-> FALSE]
      BY <3>3
    <3>4. CASE dialog' = [dialog EXCEPT !.busy = FALSE]
      BY <3>2, <3>4
    <3> QED
      BY <3>1, <3>3, <3>4
  <2>2. \/ UNCHANGED table
        \/ Loadable(dialog.id) /\ table' = [table EXCEPT ![dialog.id].live = FALSE]
    BY <1>8 DEF DeleteAnswers, DeleteFails
  <2>3. IsTable(table') /\ DOMAIN table' = DOMAIN table
    BY <2>2, DeletedTable DEF Loadable, Live, Types
  <2>4. deleted' \subseteq Ids
    BY <1>8 DEF DeleteAnswers, DeleteFails, Loadable, Live, Types
  <2>5. UNCHANGED <<behaviour, ring, writes, walk, boxes, search>>
    BY <1>8 DEF DeleteAnswers, DeleteFails
  <2> QED
    BY <1>0, <2>1, <2>3, <2>4, <2>5 DEF Types
<1> QED
  BY <1>1, <1>2, <1>3, <1>4, <1>5, <1>6, <1>7, <1>8, <1>9

LEMMA TypesNext ==
  ASSUME Types, [Next]_vars
  PROVE  Types'
<1>1. CASE UNCHANGED vars
  BY <1>1 DEF vars, page, Types
<1> QED
  BY <1>1, TypesTable, TypesWalk, TypesPage DEF Next

\* The types of the model hold in every state.
THEOREM ListTyped == Spec => []TypeOK
<1>1. Types => TypeOK
  BY ListFields, ProducersListAssumption DEF Types, TypeOK, Walks, Searches, Entries, EntryRecords
<1>2. Init => Types
  BY TypesInit
<1>3. Types /\ [Next]_vars => Types'
  BY TypesNext
<1> QED
  BY <1>1, <1>2, <1>3, PTL DEF Spec

-----------------------------------------------------------------------------
(* What a step does to the table *)

\* Producers only come by a write of another client, and never come back; what
\* is reported deleted is gone, and the list invalid.
TableStep ==
  /\ UNCHANGED behaviour
  /\ DOMAIN table \subseteq DOMAIN table'
  /\ \A i \in DOMAIN table : table'[i].live => table[i].live
  /\ writes' = 0 =>
       /\ writes = 0 /\ DOMAIN table' = DOMAIN table
       /\ UNCHANGED table \/ \E id \in Live : ~table'[id].live
  /\ \/ UNCHANGED deleted
     \/ \E id \in DOMAIN table : deleted' = deleted \cup {id} /\ ~table'[id].live /\ list'.invalid
  /\ ring.active <= ring'.active
  /\ \A i \in DOMAIN table' : \/ i \in DOMAIN table /\ table'[i].key = table[i].key
                              \/ table'[i].key = ring.active

LEMMA SameTable ==
  ASSUME Types, UNCHANGED <<behaviour, table, writes, deleted>>, ring.active <= ring'.active
  PROVE  TableStep
BY DEF TableStep

\* A producer is deleted, by another client or by the page.
LEMMA DeletionStep ==
  ASSUME Types, NEW id, Loadable(id), table' = [table EXCEPT ![id].live = FALSE],
         UNCHANGED <<behaviour, ring>>, writes' = writes \/ writes' = writes + 1,
         UNCHANGED deleted \/ (deleted' = deleted \cup {id} /\ list'.invalid)
  PROVE  TableStep
<1>1. id \in DOMAIN table /\ id \in Live
  BY DEF Loadable, Live
<1>2. DOMAIN table' = DOMAIN table /\ ~table'[id].live /\ table'[id].key = table[id].key
      /\ \A i \in DOMAIN table \ {id} : table'[i] = table[i]
  BY <1>1, DeletedTable
<1>3. writes \in Nat /\ ring.active \in Nat
  BY ProducersListBehaviours, ProducersListAssumption DEF Types
<1>4. \A i \in DOMAIN table : table'[i].key = table[i].key /\ (table'[i].live => table[i].live)
  BY <1>2
<1>5. writes' = 0 => writes = 0
  BY <1>3
<1>6. \/ UNCHANGED deleted
      \/ \E i \in DOMAIN table : deleted' = deleted \cup {i} /\ ~table'[i].live /\ list'.invalid
  BY <1>1, <1>2
<1> QED
  BY <1>1, <1>2, <1>3, <1>4, <1>5, <1>6 DEF TableStep

LEMMA TableNext ==
  ASSUME Types, [Next]_vars
  PROVE  TableStep
<1>0. writes \in Nat /\ ring.active \in Nat
  BY ProducersListBehaviours, ProducersListAssumption DEF Types
<1>1. ASSUME NEW id \in Ids, Create(id)
      PROVE  TableStep
  <2>1. PICK row \in Rows :
          table' = [i \in DOMAIN table \cup {id} |->
                      IF i = id THEN Encrypted(row, ring) ELSE table[i]]
    BY <1>1, CreatedRow
  <2>2. id \notin DOMAIN table
    BY <1>1 DEF Create
  <2>3. DOMAIN table' = DOMAIN table \cup {id} /\ table'[id].key = ring.active
        /\ \A i \in DOMAIN table : table'[i] = table[i]
    BY <2>1, <2>2, CreatedTable
  <2>4. writes' = writes + 1 /\ UNCHANGED <<behaviour, ring, walk, page>>
    BY <1>1 DEF Create
  <2> QED
    BY <1>0, <2>3, <2>4 DEF page, TableStep
<1>2. ASSUME NEW id \in Ids, Update(id)
      PROVE  TableStep
  <2>1. PICK n \in Names : table' = [table EXCEPT ![id] = Encrypted([@ EXCEPT !.name = n], ring)]
    BY <1>2 DEF Update
  <2>2. n \in Nat /\ id \in DOMAIN table
    BY <1>2, NamesAreNumbers DEF Update, Loadable, Live
  <2>3. DOMAIN table' = DOMAIN table /\ table'[id].key = ring.active /\ table'[id].live = table[id].live
        /\ \A i \in DOMAIN table \ {id} : table'[i] = table[i]
    BY <2>1, <2>2, UpdatedTable
  <2>4. writes' = writes + 1 /\ UNCHANGED <<behaviour, ring, page>>
    BY <1>2 DEF Update
  <2>5. \A i \in DOMAIN table' : table'[i].live = table[i].live
                              /\ (table'[i].key = table[i].key \/ table'[i].key = ring.active)
    BY <2>3
  <2> QED
    BY <1>0, <2>3, <2>4, <2>5 DEF page, TableStep
<1>3. ASSUME NEW id \in Ids, Delete(id)
      PROVE  TableStep
  BY <1>3, DeletionStep DEF Delete, page
<1>4. CASE Rotate
  <2>1. ring.active <= ring'.active
    BY <1>0, <1>4 DEF Rotate
  <2> QED
    BY <1>4, <2>1, SameTable DEF Rotate, page
<1>5. ASSUME UNCHANGED <<behaviour, table, ring, writes, deleted>>
      PROVE  TableStep
  BY <1>0, <1>5, SameTable
<1>6. CASE StartWalk \/ NextPage
  <2>1. UNCHANGED <<behaviour, table, ring, writes, deleted>>
    BY <1>6 DEF StartWalk, NextPage, page
  <2> QED
    BY <1>5, <2>1
<1>7. CASE \/ \E id \in Ids : AskDelete(id)
           \/ \E p \in 1..Cardinality(Ids) : GoToPage(p)
           \/ \E size \in PageSizes : ChangePageSize(size)
           \/ \E n \in Filters : TypeName(n)
           \/ DeferredQuery
           \/ \E a \in DOMAIN list.entries : ServerCounts(a) \/ ServerSelects(a) \/ ListAnswers(a)
           \/ Expire \/ Retry \/ Invalidate
           \/ \E d \in Documents \cup {NoDocument} : TypeDocument(d)
           \/ \E id \in Ids : ServerFinds(id)
           \/ \E d \in Documents : TimerFires(d) \/ SearchAnswers(d)
           \/ Cancel \/ ConfirmDelete
  BY <1>5, <1>7 DEF AskDelete, GoToPage, ChangePageSize, TypeName, DeferredQuery, ServerCounts, ServerSelects, ListAnswers,
                    Expire, Retry, Invalidate, TypeDocument, ServerFinds, TimerFires, SearchAnswers, Cancel,
                    ConfirmDelete
<1>8. CASE DeleteAnswers
  <2>1. list' = [list EXCEPT !.invalid = TRUE]
    BY <1>8 DEF DeleteAnswers, DeleteInvalidates
  <2>2. list'.invalid
    BY <2>1 DEF Types, Lists
  <2> QED
    BY <1>8, <2>2, DeletionStep DEF DeleteAnswers
<1>9. CASE DeleteFails
  BY <1>5, <1>9, DeletionStep DEF DeleteFails
<1>10. CASE UNCHANGED vars
  BY <1>5, <1>10 DEF vars, page
<1> QED
  BY <1>1, <1>2, <1>3, <1>4, <1>6, <1>7, <1>8, <1>9, <1>10 DEF Next

-----------------------------------------------------------------------------
(* Every step keeps the invariant *)

LEMMA KeysKeptNext ==
  ASSUME Types, KeysKept, [Next]_vars
  PROVE  KeysKept'
<1>1. TableStep /\ ring.active \in Nat /\ ring \in [active : 0..MaxKey, previous : 0..MaxKey]
  BY TableNext, ProducersListAssumption DEF Types
<1>2. \A i \in DOMAIN table' : table'[i].key \in Nat
  BY TypesNext DEF Types, IsTable, Rows
<1>3. \/ UNCHANGED ring
      \/ ring' = [active |-> ring.active + 1, previous |-> ring.active]
  BY DEF Next, vars, page, Create, Update, Delete, AskDelete, Rotate, StartWalk, NextPage, GoToPage,
         ChangePageSize, TypeName, DeferredQuery, ServerCounts, ServerSelects, ListAnswers, Expire, Retry, Invalidate,
         TypeDocument, ServerFinds, TimerFires, SearchAnswers, Cancel, ConfirmDelete, DeleteAnswers, DeleteFails
<1>4. ring'.active \in Nat
  BY <1>1, <1>3
<1>5. \A i \in DOMAIN table' : table'[i].key <= ring.active
  BY <1>1, <1>2 DEF TableStep, KeysKept
<1>6. \A i \in DOMAIN table' : table'[i].key <= ring'.active
  BY <1>1, <1>2, <1>4, <1>5 DEF TableStep
<1>7. ring'.previous = IF ring'.active = 0 THEN 0 ELSE ring'.active - 1
  BY <1>1, <1>3 DEF KeysKept
<1> QED
  BY <1>6, <1>7 DEF KeysKept

LEMMA SearchFollowsBoxNext ==
  ASSUME Types, SearchFollowsBox, [Next]_vars
  PROVE  SearchFollowsBox'
<1> DEFINE doc == boxes.document
<1>0. /\ search \in Searches
      /\ boxes \in [typed : Filters, document : Documents \cup {NoDocument}, changes : 0..behaviour.typed]
  BY DEF Types
<1>1. ASSUME UNCHANGED search, boxes'.document = doc
      PROVE  SearchFollowsBox'
  BY <1>1 DEF SearchFollowsBox
<1>2. ASSUME NEW d \in Documents \cup {NoDocument}, TypeDocument(d)
      PROVE  SearchFollowsBox'
  <2>1. boxes' = [boxes EXCEPT !.document = d, !.changes = @ + 1] /\ search' = RestartTimer(d)
    BY <1>2 DEF TypeDocument
  <2>2. boxes'.document = d
    BY <1>0, <2>1
  <2>3. /\ search'.timers = {d} \ {NoDocument} /\ search'.flight = search.flight
        /\ search'.overtaken = (search.flight # {})
        /\ search'.hit = IF d = NoDocument THEN NoId ELSE search.hit
    BY <1>0, <2>1 DEF RestartTimer, Searches
  <2>4. d # NoDocument => d \in search'.timers
    BY <2>3
  <2> QED
    BY <2>2, <2>3, <2>4 DEF SearchFollowsBox
<1>3. ASSUME NEW d \in Documents, TimerFires(d)
      PROVE  SearchFollowsBox'
  <2>1. /\ search'.timers = search.timers \ {d} /\ search'.flight = search.flight \cup {d}
        /\ search'.overtaken = search.overtaken /\ search'.hit = search.hit
        /\ d \in search.timers /\ UNCHANGED boxes
    BY <1>0, <1>3 DEF TimerFires, Searches
  <2>2. d = doc
    BY <2>1 DEF SearchFollowsBox
  <2> QED
    BY <2>1, <2>2 DEF SearchFollowsBox
<1>4. ASSUME NEW d \in Documents, SearchAnswers(d)
      PROVE  SearchFollowsBox'
  <2>1. PICK hit \in {NoId} \cup Found(d) :
          search' = [search EXCEPT !.flight = @ \ {d}, !.found = @ \ Found(d), !.hit = hit]
    BY <1>4 DEF SearchAnswers
  <2>2. /\ search'.timers = search.timers /\ search'.flight = search.flight \ {d}
        /\ search'.overtaken = search.overtaken /\ search'.hit = hit
    BY <1>0, <2>1 DEF Searches
  <2>3. d \in search.flight /\ UNCHANGED boxes
    BY <1>4 DEF SearchAnswers
  <2>4. hit # NoId => DocumentOf[hit] = d
    BY <2>1 DEF Found
  <2> QED
    BY <2>2, <2>3, <2>4 DEF SearchFollowsBox
<1>7. ASSUME NEW id \in Ids, ServerFinds(id)
      PROVE  SearchFollowsBox'
  <2>1. /\ search'.timers = search.timers /\ search'.flight = search.flight
        /\ search'.overtaken = search.overtaken /\ search'.hit = search.hit /\ UNCHANGED boxes
    BY <1>0, <1>7 DEF ServerFinds, Searches
  <2> QED
    BY <2>1 DEF SearchFollowsBox
<1>5. ASSUME NEW n \in Filters, TypeName(n)
      PROVE  SearchFollowsBox'
  <2>1. boxes' = [boxes EXCEPT !.typed = n, !.changes = @ + 1] /\ UNCHANGED search
    BY <1>5 DEF TypeName
  <2>2. boxes'.document = doc
    BY <1>0, <2>1
  <2> QED
    BY <1>1, <2>1, <2>2
<1>6. CASE \/ \E id \in Ids : Create(id) \/ Update(id) \/ Delete(id) \/ AskDelete(id)
           \/ Rotate \/ StartWalk \/ NextPage
           \/ \E p \in 1..Cardinality(Ids) : GoToPage(p)
           \/ \E size \in PageSizes : ChangePageSize(size)
           \/ DeferredQuery
           \/ \E a \in DOMAIN list.entries : ServerCounts(a) \/ ServerSelects(a) \/ ListAnswers(a)
           \/ Expire \/ Retry \/ Invalidate
           \/ Cancel \/ ConfirmDelete \/ DeleteAnswers \/ DeleteFails
           \/ UNCHANGED vars
  <2>1. UNCHANGED <<boxes, search>>
    BY <1>6 DEF vars, page, Create, Update, Delete, AskDelete, Rotate, StartWalk, NextPage, GoToPage,
         ChangePageSize, DeferredQuery, ServerCounts, ServerSelects, ListAnswers, Expire, Retry, Invalidate,
         Cancel, ConfirmDelete, DeleteAnswers, DeleteFails
  <2> QED
    BY <1>1, <2>1
<1> QED
  BY <1>2, <1>3, <1>4, <1>5, <1>6, <1>7 DEF Next

\* The producers on a page are live.
LEMMA PageIsLive ==
  ASSUME Types, NEW a \in Args
  PROVE  Range(PageOf(table, ListQuery(a))) \subseteq Live
<1> DEFINE q == ListQuery(a)
           P == PageOf(table, q)
<1>1. IsTable(table) /\ IsFiniteSet(DOMAIN table) /\ IsQuery(q) /\ P = PageOf(table, q)
  BY TableFinite, ListQueryType
<1>2. Candidates(table, q) \subseteq Live
  BY DEF Candidates, Listed, Live
<1> HIDE DEF q, P
<1>3. P \in Seq(Candidates(table, q))
  BY <1>1, PageIsCut
<1>4. Range(P) \subseteq Candidates(table, q)
  BY <1>3 DEF Range
<1> QED
  BY <1>2, <1>4 DEF P, q

LEMMA DeletedGoneNext ==
  ASSUME Types, DeletedGone, [Next]_vars
  PROVE  DeletedGone'
<1>1. TableStep /\ ListStep
  BY TableNext, ListNext
<1>2. \A id \in deleted : id \in DOMAIN table /\ ~table[id].live
  BY DEF DeletedGone, Live
<1>3. \A id \in deleted' : id \in DOMAIN table' /\ ~table'[id].live
  <2>1. \A id \in deleted : id \in DOMAIN table' /\ ~table'[id].live
    BY <1>1, <1>2 DEF TableStep
  <2> QED
    BY <1>1, <2>1 DEF TableStep
<1>4. deleted' \cap Live' = {} /\ deleted' \subseteq DOMAIN table'
  BY <1>3 DEF Live
<1>5. ASSUME ~list'.invalid, list.invalid, NEW b \in DOMAIN list'.entries
      PROVE  list'.entries[b].status # "answered" /\ list'.entries[b].found = NoData
  BY <1>1, <1>5 DEF ListStep
<1>6. ASSUME ~list'.invalid, ~list.invalid, NEW b \in DOMAIN list'.entries
      PROVE  /\ list'.entries[b].status = "answered" =>
                  Range(list'.entries[b].value.items) \cap deleted' = {}
             /\ list'.entries[b].found \notin {NoData, Failed} =>
                  Range(list'.entries[b].found.items) \cap deleted' = {}
  <2>1. UNCHANGED deleted
    BY <1>1, <1>6 DEF TableStep
  <2>2. ASSUME NEW a \in DOMAIN list.entries
        PROVE  /\ list.entries[a].status = "answered" =>
                    Range(list.entries[a].value.items) \cap deleted = {}
               /\ list.entries[a].found \notin {NoData, Failed} =>
                    Range(list.entries[a].found.items) \cap deleted = {}
    BY <1>6 DEF DeletedGone
  <2>3. CASE EntryKept(b)
    BY <2>1, <2>2, <2>3 DEF EntryKept
  <2>4. CASE EntryNew(b)
    BY <2>4 DEF EntryNew
  <2>5. CASE EntryRead(b)
    <3>1. b \in Args
      BY <1>1, EntryMapsIs DEF ListStep, Lists
    <3>2. Range(PageOf(table, ListQuery(b))) \subseteq Live
      BY <3>1, PageIsLive
    <3>3. Range(PageOf(table, ListQuery(b))) \cap deleted = {}
      BY <3>2 DEF DeletedGone
    <3>4. list'.entries[b].status # "answered"
      BY <2>5 DEF EntryRead
    <3> QED
      BY <2>1, <2>2, <2>5, <3>3, <3>4 DEF EntryRead
  <2>6. CASE EntryAnswered(b)
    BY <2>1, <2>2, <2>6 DEF EntryAnswered
  <2> QED
    BY <1>1, <1>6, <2>3, <2>4, <2>5, <2>6 DEF ListStep
<1> QED
  BY <1>4, <1>5, <1>6 DEF DeletedGone

LEMMA ProductGrows ==
  ASSUME NEW a \in Nat, NEW b \in Nat, NEW c \in Nat, a <= b
  PROVE  a * c <= b * c
OBVIOUS

LEMMA QuotientFits ==
  ASSUME NEW x \in Nat, NEW y \in Nat \ {0}
  PROVE  x \div y \in Nat /\ (x \div y) * y <= x
OBVIOUS

\* Every page the pager offers, beyond the first, starts before the end.
LEMMA TotalPagesFit ==
  ASSUME NEW total \in Nat, NEW size \in Nat \ {0}, NEW p \in 1..TotalPages(total, size)
  PROVE  p = 1 \/ (p - 1) * size < total
<1>1. CASE total = 0
  BY <1>1 DEF TotalPages
<1>2. CASE total # 0
  <2> DEFINE k == (total + size - 1) \div size
  <2>1. total + size - 1 \in Nat
    BY <1>2
  <2>2. k \in Nat /\ k * size <= total + size - 1
    BY <2>1, QuotientFits
  <2>3. p \in Nat \ {0} /\ p <= k
    BY <1>2, <2>2 DEF TotalPages
  <2> HIDE DEF k
  <2>4. p * size <= k * size
    BY <2>2, <2>3, ProductGrows
  <2>5. (p - 1) * size = p * size - size /\ p * size \in Nat /\ k * size \in Nat
    BY <2>2, <2>3
  <2> QED
    BY <1>2, <2>2, <2>4, <2>5
<1> QED
  BY <1>1, <1>2

\* The page asked for changes by the pager, or becomes the first.
LEMMA ArgsNext ==
  ASSUME Types, [Next]_vars
  PROVE  \/ list'.args = list.args
         \/ list'.args.page = 1
         \/ \E p \in 1..Cardinality(Ids) : GoToPage(p)
<1>1. CASE \/ \E id \in Ids : Create(id) \/ Update(id) \/ Delete(id) \/ AskDelete(id)
           \/ Rotate \/ StartWalk \/ NextPage
           \/ \E n \in Filters : TypeName(n)
           \/ \E d \in Documents \cup {NoDocument} : TypeDocument(d)
           \/ \E id \in Ids : ServerFinds(id)
           \/ \E d \in Documents : TimerFires(d) \/ SearchAnswers(d)
           \/ Cancel \/ ConfirmDelete
           \/ UNCHANGED vars
  <2>1. UNCHANGED list
    BY <1>1 DEF vars, page, Create, Update, Delete, AskDelete, Rotate, StartWalk, NextPage,
         TypeName, TypeDocument, ServerFinds, TimerFires, SearchAnswers, Cancel, ConfirmDelete
  <2> QED
    BY <2>1
<1>2. ASSUME NEW size \in PageSizes, ChangePageSize(size)
      PROVE  list'.args.page = 1
  <2>1. Resized(list.args, size).page = 1
    BY ListFields DEF Resized, Args
  <2>2. list'.args = Resized(list.args, size)
    BY <1>2, ResizedShows, ShowType
  <2> QED
    BY <2>1, <2>2
<1>3. CASE DeferredQuery
  BY <1>3, DeferredQueryType
<1>4. CASE \E a \in DOMAIN list.entries : ServerCounts(a) \/ ServerSelects(a) \/ ListAnswers(a)
  BY <1>4, RequestStep
<1>5. CASE Expire \/ Retry \/ Invalidate
  BY <1>5, ExpireStep, RetryStep, InvalidateStep
<1>6. CASE DeleteAnswers \/ DeleteFails
  <2>1. list' = [list EXCEPT !.invalid = TRUE]
    BY <1>6 DEF DeleteAnswers, DeleteFails, DeleteInvalidates
  <2> QED
    BY <2>1 DEF Types, Lists
<1> QED
  BY <1>1, <1>2, <1>3, <1>4, <1>5, <1>6 DEF Next

LEMMA PagesKeptNext ==
  ASSUME Types, PagesKept, [Next]_vars
  PROVE  PagesKept'
<1>1. TableStep /\ ListStep
  BY TableNext, ListNext
<1>2. ASSUME writes' = 0, NEW id \in Live'
      PROVE  id \in DOMAIN behaviour'.table /\ behaviour'.table[id].live
  <2>1. writes = 0 /\ id \in DOMAIN table /\ table[id].live
    BY <1>1, <1>2 DEF TableStep, Live
  <2> QED
    BY <1>1, <2>1 DEF PagesKept, TableStep, Live
<1>3. ASSUME Untouched'
      PROVE  Untouched /\ UNCHANGED table
  <2>1. writes' = 0 /\ table' = behaviour.table
    BY <1>1, <1>3 DEF Untouched, TableStep
  <2>2. writes = 0 /\ (UNCHANGED table \/ \E id \in Live : ~table'[id].live)
    BY <1>1, <2>1 DEF TableStep
  <2>3. ~\E id \in Live : ~table'[id].live
    BY <2>1, <2>2 DEF PagesKept
  <2> QED
    BY <2>1, <2>2, <2>3 DEF Untouched
<1>4. ASSUME Untouched', NEW b \in DOMAIN list'.entries
      PROVE  HoldsTable(table', list'.entries[b], b)
  <2>1. Untouched /\ table' = table
    BY <1>3, <1>4
  <2>2. \A a \in DOMAIN list.entries : HoldsTable(table, list.entries[a], a)
    BY <2>1 DEF PagesKept
  <2>3. CASE EntryKept(b)
    BY <2>1, <2>2, <2>3 DEF EntryKept, HoldsTable
  <2>4. CASE EntryNew(b)
    BY <2>4 DEF EntryNew, HoldsTable
  <2>5. CASE EntryRead(b)
    BY <2>1, <2>2, <2>5 DEF EntryRead, HoldsTable
  <2>6. CASE EntryAnswered(b)
    BY <2>1, <2>2, <2>6 DEF EntryAnswered, HoldsTable
  <2> QED
    BY <1>1, <1>4, <2>3, <2>4, <2>5, <2>6 DEF ListStep
<1>5. ASSUME Untouched', list'.args.page # 1
      PROVE  (list'.args.page - 1) * list'.args.size < Total(table', list'.args.name)
  <2>1. Untouched /\ table' = table
    BY <1>3, <1>5
  <2>2. CASE list'.args = list.args
    BY <1>5, <2>1, <2>2 DEF PagesKept
  <2>3. ASSUME NEW p \in 1..Cardinality(Ids), GoToPage(p)
        PROVE  (list'.args.page - 1) * list'.args.size < Total(table', list'.args.name)
    <3> DEFINE size == list.args.size
               total == Total(table, list.args.name)
    <3>1. list'.args = [list.args EXCEPT !.page = p]
      BY <2>3, GoToPageShows, ShowType
    <3>2. list'.args.page = p /\ list'.args.size = size /\ list'.args.name = list.args.name
          /\ size \in Nat \ {0}
      BY <3>1, ListFields, ProducersListAssumption DEF Args
    <3>3. Data # NoData /\ Current.status \notin {"rejected", "pending"}
          /\ p \in 1..TotalPages(Data.total, size)
      BY <2>3 DEF GoToPage, PagerUsable, Usable, OnScreen
    <3>4. Data = Current.value /\ Data \in Answers
      <4>1. Current.status = "answered"
        BY <3>3, CurrentType DEF Entries, EntryRecords
      <4> QED
        BY <4>1, CurrentType
    <3>5. Data.total = total
      BY <2>1, <3>3, <3>4, ListFields DEF PagesKept, HoldsTable, Current
    <3>6. total \in Nat
      BY <3>4, <3>5 DEF Answers
    <3> HIDE DEF size, total
    <3>7. p = 1 \/ (p - 1) * size < total
      BY <3>2, <3>3, <3>5, <3>6, TotalPagesFit
    <3> QED
      BY <1>5, <2>1, <3>2, <3>7 DEF size, total
  <2> QED
    BY <1>5, <2>2, <2>3, ArgsNext
<1> QED
  BY <1>2, <1>4, <1>5 DEF PagesKept

LEMMA ConcatOnce ==
  ASSUME NEW s \in Seq(Nat), NEW t \in Seq(Nat), NEW x
  PROVE  /\ Once(s, x) /\ Never(t, x) => Once(s \o t, x)
         /\ Never(s, x) /\ Once(t, x) => Once(s \o t, x)
         /\ Never(s, x) /\ Never(t, x) => Never(s \o t, x)
<1> DEFINE m == Len(s)
           n == Len(t)
           u == s \o t
<1>1. m \in Nat /\ n \in Nat /\ DOMAIN s = 1..m /\ DOMAIN t = 1..n
  OBVIOUS
<1>2. DOMAIN u = 1..(m + n) /\ \A i \in 1..(m + n) : u[i] = IF i <= m THEN s[i] ELSE t[i - m]
  BY ConcatProperties
<1> HIDE DEF u, m, n
<1>3. \A i \in 1..(m + n) : IF i <= m THEN i \in 1..m ELSE i - m \in 1..n
  BY <1>1
<1>4. ASSUME Once(s, x), Never(t, x)
      PROVE  Once(u, x)
  <2>1. PICK i \in DOMAIN s : \A j \in DOMAIN s : s[j] = x <=> j = i
    BY <1>4 DEF Once
  <2>2. \A j \in 1..n : t[j] # x
    BY <1>1, <1>4 DEF Never
  <2>3. i \in 1..m
    BY <1>1
  <2>4. ASSUME NEW j \in 1..(m + n)
        PROVE  u[j] = x <=> j = i
    <3>1. CASE j <= m
      BY <1>1, <1>2, <1>3, <2>1, <3>1
    <3>2. CASE j > m
      BY <1>1, <1>2, <1>3, <2>2, <2>3, <3>2
    <3> QED
      BY <1>1, <3>1, <3>2
  <2>5. i \in DOMAIN u
    BY <1>1, <1>2, <2>3
  <2> QED
    BY <1>2, <2>4, <2>5 DEF Once
<1>5. ASSUME Never(s, x), Once(t, x)
      PROVE  Once(u, x)
  <2>1. PICK i \in DOMAIN t : \A j \in DOMAIN t : t[j] = x <=> j = i
    BY <1>5 DEF Once
  <2>2. \A j \in 1..m : s[j] # x
    BY <1>1, <1>5 DEF Never
  <2>3. i \in 1..n
    BY <1>1
  <2>4. ASSUME NEW j \in 1..(m + n)
        PROVE  u[j] = x <=> j = m + i
    <3>1. CASE j <= m
      BY <1>1, <1>2, <1>3, <2>2, <2>3, <3>1
    <3>2. CASE j > m
      <4>1. j - m \in DOMAIN t /\ u[j] = t[j - m]
        BY <1>1, <1>2, <1>3, <3>2
      <4>2. j - m = i <=> j = m + i
        <5>1. i \in Int /\ j \in Int /\ m \in Int
          BY <1>1, <2>3
        <5> QED
          BY <5>1
      <4> QED
        BY <2>1, <4>1, <4>2
    <3> QED
      BY <1>1, <3>1, <3>2
  <2>5. m + i \in DOMAIN u
    BY <1>1, <1>2, <2>3
  <2> QED
    BY <1>2, <2>4, <2>5 DEF Once
<1>6. ASSUME Never(s, x), Never(t, x)
      PROVE  Never(u, x)
  BY <1>1, <1>2, <1>3, <1>6 DEF Never
<1> QED
  BY <1>4, <1>5, <1>6 DEF u

\* A page lists a producer once or not at all.
LEMMA PageListsOnce ==
  ASSUME NEW t, IsTable(t), IsFiniteSet(DOMAIN t), NEW q, IsQuery(q),
         NEW P, P = PageOf(t, q), NEW id
  PROVE  /\ (\E i \in 1..Len(P) : P[i] = id) => Once(P, id)
         /\ ~(\E i \in 1..Len(P) : P[i] = id) => Never(P, id)
<1>1. /\ P \in Seq(Candidates(t, q))
      /\ \A i, j \in 1..Len(P) : i < j => Before(t, q, P[i], P[j])
  BY PageIsCut
<1>2. Candidates(t, q) \subseteq DOMAIN t
  BY DEF Candidates, Listed
<1>3. DOMAIN P = 1..Len(P) /\ Len(P) \in Nat /\ \A i \in 1..Len(P) : P[i] \in DOMAIN t
  BY <1>1, <1>2
<1>4. \A i, j \in 1..Len(P) : P[i] = P[j] => i = j
  <2>1. SUFFICES ASSUME NEW i \in 1..Len(P), NEW j \in 1..Len(P), i < j
                 PROVE  P[i] # P[j]
    BY <1>3
  <2>2. Before(t, q, P[i], P[j])
    BY <1>1, <2>1
  <2>3. ~Before(t, q, P[i], P[i])
    BY <1>3, BeforeIsOrder
  <2> QED
    BY <2>2, <2>3
<1> QED
  BY <1>3, <1>4 DEF Once, Never

\* Writes that leave the rows seen from the walk alone keep the invariant.
LEMMA WalkUndisturbed ==
  ASSUME Types, WalkKept, UNCHANGED behaviour,
         behaviour.role = "walk" => ~dialog'.busy,
         walk'.on = walk.on, walk'.done = walk.done, walk'.cursor = walk.cursor,
         walk'.seen = walk.seen, walk'.split = walk.split, walk'.query = walk.query,
         walk'.steady \subseteq walk.steady,
         walk.on => \A id \in walk'.steady :
           /\ id \in DOMAIN table' /\ table'[id].live = table[id].live
           /\ table'[id].name = table[id].name /\ table'[id].created = table[id].created
  PROVE  WalkKept'
<1>1. ASSUME walk.on, NEW id \in walk'.steady
      PROVE  /\ id \in Listed(table', walk.query.name)
             /\ SortValue(table'[id], walk.query) = SortValue(table[id], walk.query)
  BY <1>1 DEF WalkKept, Listed, SortValue
<1>2. ASSUME walk.on, NEW id \in walk'.steady
      PROVE  (Unsplit(id)' <=> Unsplit(id)) /\ (Passed(id)' <=> Passed(id))
  BY <1>1, <1>2 DEF Unsplit, Passed, BehindCursor
<1>3. \A id \in walk'.steady : id \in walk.steady
  OBVIOUS
<1>4. ASSUME walk'.on, NEW id \in walk'.steady, Unsplit(id)'
      PROVE  (Passed(id)' => Once(walk'.seen, id)) /\ (~Passed(id)' => Never(walk'.seen, id))
  BY <1>2, <1>3, <1>4 DEF WalkKept
<1>5. walk'.on => walk'.steady \subseteq Listed(table', walk'.query.name)
  BY <1>1
<1> QED
  BY <1>4, <1>5 DEF WalkKept

LEMMA NextPageKept ==
  ASSUME Types, WalkKept, NextPage
  PROVE  WalkKept'
<1> DEFINE q == WalkQuery
           P == PageOf(table, q)
           next == NextCursor(table, q)
           split == SplitBy(q, next)
           InC(id) == id \in Candidates(table, q)
           InP(id) == \E i \in 1..Len(P) : P[i] = id
<1>1. walk.on /\ ~walk.done /\ FindPage(table, q, ring) # Failed
      /\ UNCHANGED <<behaviour, table, ring, writes, page>>
  BY DEF NextPage, WalkQuery
<1>2. /\ IsTable(table) /\ IsFiniteSet(DOMAIN table) /\ IsQuery(q) /\ Offset(q) = 0
      /\ q.cursor = walk.cursor /\ q.name = walk.query.name
      /\ q.sortBy = walk.query.sortBy /\ q.sortOrder = walk.query.sortOrder
      /\ q.sortOrder \in Orders /\ P = PageOf(table, q) /\ q.pageSize \in Nat \ {0}
  BY <1>1, TableFinite, WalkQueryType DEF Types, IsQuery
<1>3. walk' = [walk EXCEPT !.seen = @ \o P, !.cursor = next, !.done = next = NoCursor,
                           !.split = @ \cup split]
  <2> DEFINE answer == FindPage(table, q, ring)
  <2>1. answer.items = P /\ answer.next = next
    <3> HIDE DEF q, P, next
    <3>1. FindPage(table, q, ring).items = PageOf(table, q)
          /\ FindPage(table, q, ring).next = NextCursor(table, q)
      BY <1>1, <1>2, FindPageContents
    <3> QED
      BY <3>1 DEF P, next
  <2>2. walk' = [walk EXCEPT !.seen = @ \o answer.items, !.cursor = answer.next,
                             !.done = answer.next = NoCursor,
                             !.split = @ \cup SplitBy(q, answer.next)]
    BY DEF NextPage, WalkQuery
  <2> HIDE DEF answer, P, next, q
  <2> QED
    BY <2>1, <2>2
<1>4. P \in Seq(Nat) /\ \A id : InP(id) => InC(id)
  <2>1. P \in Seq(Candidates(table, q))
    BY <1>2, PageIsCut
  <2>2. Candidates(table, q) \subseteq Nat
    BY <1>2 DEF Candidates, Listed, IsTable
  <2> HIDE DEF P, q
  <2> QED
    BY <2>1, <2>2
<1>5. \A id \in Listed(table, q.name) : InC(id) <=> ~Passed(id)
  BY <1>1, <1>2 DEF Candidates, Passed, BehindCursor, SortValue, Precedes
<1>6. \A id : (InP(id) => Once(P, id)) /\ (~InP(id) => Never(P, id))
  <2> HIDE DEF P, q
  <2> QED
    BY <1>2, PageListsOnce
<1>7. next = IF Len(P) = q.pageSize THEN [value |-> SortValue(table[P[Len(P)]], q), id |-> P[Len(P)]]
             ELSE NoCursor
  BY DEF NextCursor
<1>8. ASSUME Len(P) # q.pageSize, NEW id, InC(id)
      PROVE  InP(id)
  <2> HIDE DEF P, q
  <2> QED
    BY <1>2, <1>8, PageIsCut
<1>9. ASSUME Len(P) = q.pageSize
      PROVE  next # NoCursor /\ next = [value |-> SortValue(table[P[Len(P)]], q), id |-> P[Len(P)]]
             /\ P[Len(P)] \in Listed(table, q.name)
  <2> DEFINE last == P[Len(P)]
  <2>1. InP(last)
    <3> HIDE DEF P, q
    <3> QED
      BY <1>2, <1>9
  <2>2. last \in Listed(table, q.name)
    BY <1>4, <2>1 DEF Candidates
  <2>3. SortValue(table[last], q) \in Nat /\ last \in Nat
    BY <1>2, <2>2, SortValueType DEF Listed, IsTable
  <2> HIDE DEF last, q
  <2>4. [value |-> SortValue(table[last], q), id |-> last] \in Cursors
    BY <2>3 DEF Cursors
  <2> QED
    BY <1>7, <1>9, <2>2, <2>4, ProducerListingAssumption DEF last
<1>10. /\ walk'.on /\ walk'.done = (next = NoCursor) /\ walk'.cursor = next
       /\ walk'.seen = walk.seen \o P /\ walk'.split = walk.split \cup split
       /\ walk'.steady = walk.steady /\ walk'.query = walk.query
  <2> HIDE DEF P, q, next, split
  <2> QED
    BY <1>1, <1>3 DEF Types, Walks
<1>11. walk.seen \in Seq(Nat)
  BY DEF Types, Walks
<1>12. ASSUME NEW id \in walk.steady, Unsplit(id)'
       PROVE  (Passed(id)' => Once(walk'.seen, id)) /\ (~Passed(id)' => Never(walk'.seen, id))
  <2>1. id \in Listed(table, q.name)
    BY <1>1, <1>2 DEF WalkKept
  <2>2. Unsplit(id)
    BY <1>1, <1>10, <1>12 DEF Unsplit
  <2>3. (~InC(id) => Once(walk.seen, id)) /\ (InC(id) => Never(walk.seen, id))
    BY <1>1, <1>5, <2>1, <2>2 DEF WalkKept
  <2>4. InC(id) /\ ~InP(id) => Never(walk'.seen, id)
    BY <1>4, <1>6, <1>10, <1>11, <2>3, ConcatOnce
  <2>5. ~(InC(id) /\ ~InP(id)) => Once(walk'.seen, id)
    BY <1>4, <1>6, <1>10, <1>11, <2>3, ConcatOnce
  <2>6. Passed(id)' <=> ~(InC(id) /\ ~InP(id))
    <3>1. CASE Len(P) # q.pageSize
      <4>1. walk'.done
        BY <1>7, <1>10, <3>1
      <4> QED
        BY <1>8, <3>1, <4>1 DEF Passed
    <3>2. CASE Len(P) = q.pageSize
      <4> DEFINE last == P[Len(P)]
      <4>1. next # NoCursor /\ next = [value |-> SortValue(table[last], q), id |-> last]
            /\ last \in Listed(table, q.name)
        BY <1>9, <3>2
      <4>2. q.sortOrder = "desc" /\ SortValue(table[id], q) = SortValue(table[last], q) => id = last
        <5>1. SUFFICES ASSUME q.sortOrder = "desc", id # last,
                              SortValue(table[id], q) = SortValue(table[last], q)
                       PROVE  FALSE
          OBVIOUS
        <5>2. SortValue(table[id], walk.query) = SortValue(table[id], q)
          BY <1>2 DEF SortValue
        <5>3. next.value = SortValue(table[last], q) /\ next.id = last
          BY <4>1
        <5> HIDE DEF last, next, q
        <5>4. SortValue(table[id], q) \in SplitBy(q, next)
          BY <2>1, <4>1, <5>1, <5>3 DEF SplitBy
        <5> QED
          BY <1>1, <1>2, <1>10, <1>12, <5>1, <5>2, <5>4 DEF Unsplit
      <4>3. BehindCursor(table[id], id, next, q) <=> InC(id) /\ ~InP(id)
        <5> HIDE DEF P, q, last, next
        <5>1. last = P[Len(P)]
          BY DEF last
        <5> QED
          BY <1>2, <2>1, <3>2, <4>1, <4>2, <5>1, PageStep
      <4>4. BehindCursor(table[id], id, next, q) <=> BehindCursor(table[id], id, next, walk.query)
        BY <1>2 DEF BehindCursor, SortValue, Precedes
      <4>5. Passed(id)' <=> ~BehindCursor(table[id], id, next, walk.query)
        <5> HIDE DEF next
        <5> QED
          BY <1>1, <1>10, <4>1 DEF Passed
      <4> QED
        BY <4>3, <4>4, <4>5
    <3> QED
      BY <3>1, <3>2
  <2> QED
    BY <2>4, <2>5, <2>6
<1>13. behaviour'.role = "walk" /\ ~dialog'.busy
  BY <1>1 DEF WalkKept, page
<1>14. walk'.steady \subseteq Listed(table', walk'.query.name)
  BY <1>1, <1>10 DEF WalkKept
<1> QED
  BY <1>10, <1>12, <1>13, <1>14 DEF WalkKept

LEMMA WalkKeptNext ==
  ASSUME Types, WalkKept, [Next]_vars
  PROVE  WalkKept'
<1>0. walk \in Walks /\ UNCHANGED behaviour
  BY TableNext DEF Types, TableStep
<1>1. ASSUME UNCHANGED <<walk, table>>, behaviour.role = "walk" => ~dialog'.busy
      PROVE  WalkKept'
  <2>1. walk.on => \A id \in walk.steady : id \in DOMAIN table
    BY DEF WalkKept, Listed
  <2> QED
    BY <1>0, <1>1, <2>1, WalkUndisturbed
<1>2. ASSUME NEW id \in Ids, Create(id)
      PROVE  WalkKept'
  <2>1. PICK row \in Rows :
          table' = [i \in DOMAIN table \cup {id} |->
                      IF i = id THEN Encrypted(row, ring) ELSE table[i]]
    BY <1>2, CreatedRow
  <2>2. id \notin DOMAIN table
    BY <1>2 DEF Create
  <2>3. DOMAIN table' = DOMAIN table \cup {id} /\ \A i \in DOMAIN table : table'[i] = table[i]
    BY <2>1, <2>2, CreatedTable
  <2>4. UNCHANGED <<walk, page>>
    BY <1>2 DEF Create
  <2>5. walk.on => \A i \in walk.steady : i \in DOMAIN table
    BY DEF WalkKept, Listed
  <2>6. behaviour.role = "walk" => ~dialog'.busy
    BY <2>4 DEF page, WalkKept
  <2> QED
    BY <1>0, <2>3, <2>4, <2>5, <2>6, WalkUndisturbed
<1>3. ASSUME NEW id \in Ids, Update(id)
      PROVE  WalkKept'
  <2>1. PICK n \in Names :
          /\ table' = [table EXCEPT ![id] = Encrypted([@ EXCEPT !.name = n], ring)]
          /\ Steady({i \in Ids : i # id \/ table[id].name = n})
    BY <1>3 DEF Update
  <2>2. n \in Nat /\ id \in DOMAIN table
    BY <1>3, NamesAreNumbers DEF Update, Loadable, Live
  <2>3. DOMAIN table' = DOMAIN table /\ table'[id].live = table[id].live /\ table'[id].name = n
        /\ table'[id].created = table[id].created
        /\ \A i \in DOMAIN table \ {id} : table'[i] = table[i]
    BY <2>1, <2>2, UpdatedTable
  <2>4. UNCHANGED page
    BY <1>3 DEF Update
  <2>5. walk.on => \A i \in walk.steady : i \in DOMAIN table
    BY DEF WalkKept, Listed
  <2>6. behaviour.role = "walk" => ~dialog'.busy
    BY <2>4 DEF page, WalkKept
  <2>7. /\ walk'.on = walk.on /\ walk'.done = walk.done /\ walk'.cursor = walk.cursor
        /\ walk'.seen = walk.seen /\ walk'.split = walk.split /\ walk'.query = walk.query
        /\ walk'.steady = walk.steady \cap {i \in Ids : i # id \/ table[id].name = n}
    BY <1>0, <2>1 DEF Steady, Walks
  <2>8. walk.on => \A i \in walk'.steady :
           /\ i \in DOMAIN table' /\ table'[i].live = table[i].live
           /\ table'[i].name = table[i].name /\ table'[i].created = table[i].created
    BY <2>3, <2>5, <2>7
  <2> QED
    BY <1>0, <2>6, <2>7, <2>8, WalkUndisturbed
<1>4. ASSUME NEW id \in Ids, Delete(id)
      PROVE  WalkKept'
  <2>1. table' = [table EXCEPT ![id].live = FALSE] /\ Steady(Ids \ {id}) /\ id \in DOMAIN table
        /\ UNCHANGED page
    BY <1>4 DEF Delete, Loadable, Live
  <2>2. DOMAIN table' = DOMAIN table /\ \A i \in DOMAIN table \ {id} : table'[i] = table[i]
    BY <2>1, DeletedTable
  <2>3. walk.on => \A i \in walk.steady : i \in DOMAIN table
    BY DEF WalkKept, Listed
  <2>4. behaviour.role = "walk" => ~dialog'.busy
    BY <2>1 DEF page, WalkKept
  <2>5. /\ walk'.on = walk.on /\ walk'.done = walk.done /\ walk'.cursor = walk.cursor
        /\ walk'.seen = walk.seen /\ walk'.split = walk.split /\ walk'.query = walk.query
        /\ walk'.steady = walk.steady \cap (Ids \ {id})
    BY <1>0, <2>1 DEF Steady, Walks
  <2>6. walk.on => \A i \in walk'.steady : i \in DOMAIN table' /\ table'[i] = table[i]
    BY <2>2, <2>3, <2>5
  <2> QED
    BY <1>0, <2>4, <2>5, <2>6, WalkUndisturbed
<1>5. CASE StartWalk
  <2>1. PICK q \in behaviour.queries :
          walk' = [NoWalk EXCEPT !.on = TRUE, !.query = q, !.steady = Listed(table, q.name)]
    BY <1>5 DEF StartWalk
  <2>2. /\ walk'.on /\ ~walk'.done /\ walk'.cursor = NoCursor /\ walk'.seen = <<>>
        /\ walk'.steady = Listed(table, q.name) /\ walk'.query = q
    BY <2>1 DEF NoWalk
  <2>3. behaviour.role = "walk" /\ UNCHANGED <<table, page>>
    BY <1>5 DEF StartWalk
  <2>4. \A id : ~Passed(id)' /\ Never(walk'.seen, id)
    BY <2>2 DEF Passed, Never
  <2> QED
    BY <1>0, <2>2, <2>3, <2>4 DEF WalkKept, page
<1>6. CASE NextPage
  BY <1>6, NextPageKept
<1>7. CASE Rotate
  <2>1. UNCHANGED <<walk, table, page>>
    BY <1>7 DEF Rotate
  <2> QED
    BY <1>1, <2>1 DEF page, WalkKept
<1>8. CASE \/ \E p \in 1..Cardinality(Ids) : GoToPage(p)
           \/ \E size \in PageSizes : ChangePageSize(size)
           \/ \E n \in Filters : TypeName(n)
           \/ DeferredQuery
           \/ \E a \in DOMAIN list.entries : ServerCounts(a) \/ ServerSelects(a) \/ ListAnswers(a)
           \/ Expire \/ Retry \/ Invalidate
           \/ \E d \in Documents \cup {NoDocument} : TypeDocument(d)
           \/ \E id \in Ids : ServerFinds(id)
           \/ \E d \in Documents : TimerFires(d) \/ SearchAnswers(d)
           \/ UNCHANGED vars
  <2>1. UNCHANGED <<walk, table, dialog>>
    BY <1>8 DEF vars, page, GoToPage, ChangePageSize, TypeName, DeferredQuery,
         ServerCounts, ServerSelects, ListAnswers, Expire, Retry, Invalidate, TypeDocument, ServerFinds, TimerFires, SearchAnswers
  <2> QED
    BY <1>1, <2>1 DEF WalkKept
<1>11. CASE Cancel \/ \E id \in Ids : AskDelete(id)
  <2>1. UNCHANGED <<walk, table>> /\ \E id : dialog' = [id |-> id, busy |-> FALSE]
    BY <1>11 DEF AskDelete, Cancel
  <2> QED
    BY <1>1, <2>1
<1>9. CASE ConfirmDelete
  <2>1. UNCHANGED <<walk, table>> /\ behaviour.role # "walk"
    BY <1>9 DEF ConfirmDelete, OnScreen, OnPage
  <2> QED
    BY <1>1, <2>1
<1>10. CASE DeleteAnswers \/ DeleteFails
  <2>1. UNCHANGED walk /\ behaviour.role # "walk"
    BY <1>10 DEF DeleteAnswers, DeleteFails, WalkKept
  <2> QED
    BY <1>0, <2>1 DEF WalkKept
<1> QED
  BY <1>2, <1>3, <1>4, <1>5, <1>6, <1>7, <1>8, <1>9, <1>10, <1>11 DEF Next

-----------------------------------------------------------------------------
(* Theorems *)

LEMMA ListInvInit == Init => ListInv
<1> SUFFICES ASSUME Init PROVE ListInv
  OBVIOUS
<1>1. Types
  BY TypesInit
<1>2. KeysKept
  BY ProducersListBehaviours DEF Init, KeysKept
<1>3. SearchFollowsBox
  BY DEF Init, SearchFollowsBox
<1>4. list.entries = Requested(<<>>, FirstArgs) /\ list.args = FirstArgs
  BY DEF Init
<1>5. \A a \in DOMAIN list.entries : list.entries[a] = PendingEntry
  <2> DEFINE none == <<>>
  <2>1. none \in [1..0 -> Entries] /\ DOMAIN none = {}
    BY EmptySeq, LenProperties
  <2> HIDE DEF none
  <2>2. none \in EntryMaps /\ FirstArgs \in Args
    BY <1>4, <2>1, EntryMapsIs, <1>1, ListFields
  <2> DEFINE r == Requested(none, FirstArgs)
  <2>3. r = Requested(none, FirstArgs)
    OBVIOUS
  <2> HIDE DEF r
  <2>4. \A b \in DOMAIN r : r[b] = PendingEntry \/ (b \in DOMAIN none /\ r[b] = none[b])
    BY <2>2, <2>3, RequestedType
  <2> QED
    BY <1>4, <2>1, <2>3, <2>4 DEF none
<1>6. DeletedGone
  BY <1>5, NewEntry DEF Init, DeletedGone
<1>7. PagesKept
  <2>1. list.args.page = 1
    BY <1>4 DEF FirstArgs
  <2>2. table = behaviour.table
    BY DEF Init
  <2> QED
    BY <1>5, <2>1, <2>2, NewEntry DEF PagesKept, HoldsTable, Live
<1>8. WalkKept
  BY DEF Init, WalkKept, NoWalk
<1> QED
  BY <1>1, <1>2, <1>3, <1>6, <1>7, <1>8 DEF ListInv

LEMMA ListInvNext == ListInv /\ [Next]_vars => ListInv'
BY TypesNext, KeysKeptNext, SearchFollowsBoxNext, DeletedGoneNext, PagesKeptNext, WalkKeptNext
   DEF ListInv

\* The invariant holds in every state.
THEOREM ListInvariant == Spec => []ListInv
BY ListInvInit, ListInvNext, PTL DEF Spec

\* Once the search has settled and was not overtaken, the hit is the producer
\* of the document in the box.
THEOREM HitsAreForTheBox == Spec => []HitIsForBox
<1>1. ListInv => HitIsForBox
  BY DEF ListInv, SearchFollowsBox, HitIsForBox
<1> QED
  BY <1>1, ListInvariant, PTL

\* A settled list does not show a producer whose deletion was reported, for any
\* table, pages and order of answers.
THEOREM DeletedProducersLeave == Spec => []DeletedLeavesList
<1>1. ASSUME ListInv, Quiet, NEW id \in deleted, id \in Shown
      PROVE  id = search.hit
  <2>1. Current.status = "answered" /\ ~list.invalid /\ Types /\ DeletedGone
    BY <1>1 DEF Quiet, ListInv
  <2>2. Data = Current.value
    BY <2>1, CurrentType
  <2>3. Range(Data.items) \cap deleted = {}
    BY <2>1, <2>2, ListFields DEF DeletedGone, Current
  <2>4. Range(Matching(Data.items, list.args.name)) \subseteq Range(Data.items)
    BY DEF Matching, Range
  <2> QED
    BY <1>1, <2>3, <2>4 DEF Shown
<1>2. ListInv => DeletedLeavesList
  BY <1>1 DEF DeletedLeavesList
<1> QED
  BY <1>2, ListInvariant, PTL

\* As long as nothing is written, the page shown is the first or has a row.
THEOREM PagesAreThere == Spec => []PagesExist
<1>1. ASSUME ListInv, Quiet, list.args.page > 1, writes = 0, table = behaviour.table
      PROVE  Data.items # <<>>
  <2> DEFINE q == ListQuery(list.args)
             P == PageOf(table, q)
  <2>1. Current.status = "answered" /\ Types /\ PagesKept /\ Untouched
    BY <1>1 DEF Quiet, ListInv, Untouched
  <2>2. Data = Current.value /\ Data # NoData
    BY <2>1, CurrentType, ProducersListAssumption
  <2>3. Data.items = P
    BY <2>1, <2>2, ListFields DEF PagesKept, HoldsTable, Current
  <2>4. (list.args.page - 1) * list.args.size < Cardinality(Listed(table, list.args.name))
    BY <1>1, <2>1, ListFields DEF PagesKept, Total, Args
  <2>5. Offset(q) = (list.args.page - 1) * list.args.size
    BY DEF Offset, ListQuery
  <2>6. Candidates(table, q) = Listed(table, list.args.name)
    BY DEF Candidates, ListQuery
  <2>7. IsTable(table) /\ IsFiniteSet(DOMAIN table) /\ IsQuery(q) /\ P = PageOf(table, q)
    BY <2>1, TableFinite, ListFields, ListQueryType
  <2> HIDE DEF P, q
  <2>8. Len(P) > 0
    BY <2>4, <2>5, <2>6, <2>7, PageIsCut
  <2> QED
    BY <2>3, <2>8
<1>2. ListInv => PagesExist
  BY <1>1 DEF PagesExist
<1> QED
  BY <1>2, ListInvariant, PTL

\* A walk only fails at a producer last written two rotations ago, or before
\* payloads carried a key id.
THEOREM RotationsKeepReading == Spec => []RotationKeepsReading
<1>1. ASSUME ListInv, walk.on, FindPage(table, WalkQuery, ring) = Failed
      PROVE  \E id \in Live : \/ table[id].key + 1 < ring.active
                              \/ ~table[id].named /\ table[id].key # ring.active
  <2> DEFINE q == WalkQuery
             P == PageOf(table, q)
             answer == FindPage(table, q, ring)
  <2>1. Types /\ KeysKept
    BY <1>1 DEF ListInv
  <2>2. /\ IsTable(table) /\ IsFiniteSet(DOMAIN table) /\ IsQuery(q)
        /\ P = PageOf(table, q) /\ answer = FindPage(table, q, ring) /\ answer = Failed
    BY <1>1, <2>1, TableFinite, WalkQueryType DEF Types
  <2>3. Candidates(table, q) \subseteq Live
    BY DEF Candidates, Listed, Live
  <2> HIDE DEF q, P, answer
  <2>4. PICK i \in 1..Len(P) : ~Readable(table[P[i]], ring)
    BY <2>2, FindPageFails
  <2>5. P \in Seq(Candidates(table, q))
    BY <2>2, PageIsCut
  <2> DEFINE id == P[i]
  <2>6. id \in Live /\ id \in DOMAIN table
    BY <2>3, <2>5 DEF Live
  <2> HIDE DEF id
  <2>7. table[id].key \in Nat /\ ring.active \in Nat /\ table[id].key <= ring.active
        /\ ring.previous = IF ring.active = 0 THEN 0 ELSE ring.active - 1
    BY <2>1, <2>6, ProducersListAssumption DEF Types, IsTable, Rows, KeysKept
  <2>8. ~Readable(table[id], ring)
    BY <2>4 DEF id
  <2>9. \/ table[id].key + 1 < ring.active
        \/ ~table[id].named /\ table[id].key # ring.active
    BY <2>7, <2>8 DEF Readable
  <2> QED
    BY <2>6, <2>9
<1>2. ListInv => RotationKeepsReading
  BY <1>1 DEF RotationKeepsReading, WalkQuery
<1> QED
  BY <1>2, ListInvariant, PTL

\* A finished walk listed every producer that was there all along exactly once:
\* in ascending order all of them, in descending order those no page was cut at.
THEOREM WalksAreComplete == Spec => []UntiedWalkIsComplete
<1>1. ASSUME NEW id, Once(walk.seen, id)
      PROVE  Occurrences(id) = 1
  <2>1. PICK i \in DOMAIN walk.seen : \A j \in DOMAIN walk.seen : walk.seen[j] = id <=> j = i
    BY <1>1 DEF Once
  <2>2. {j \in DOMAIN walk.seen : walk.seen[j] = id} = {i}
    BY <2>1
  <2> QED
    BY <2>2, FS_Singleton DEF Occurrences
<1>2. ASSUME ListInv, walk.done, NEW id \in walk.steady
      PROVE  \/ Occurrences(id) = 1
             \/ /\ walk.query.sortOrder = "desc"
                /\ SortValue(table[id], walk.query) \in walk.split
  <2>1. walk.on /\ Passed(id)
    BY <1>2 DEF ListInv, WalkKept, Passed
  <2>2. Unsplit(id) => Once(walk.seen, id)
    BY <1>2, <2>1 DEF ListInv, WalkKept
  <2> QED
    BY <1>1, <2>2 DEF Unsplit
<1>3. ListInv => UntiedWalkIsComplete
  BY <1>2 DEF UntiedWalkIsComplete
<1> QED
  BY <1>3, ListInvariant, PTL
=============================================================================
