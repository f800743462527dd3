---------------------------- MODULE ProducerListing ----------------------------
(***************************************************************************)
(* GET /producers: DrizzleProducerRepository.findMany with its cursor, and *)
(* the decryption of the documents on the page by CryptoService.           *)
(*                                                                         *)
(* Ids, names and times of creation are numbers in the order PostgreSQL    *)
(* gives them.  A stored document is the key it was encrypted with; the    *)
(* sums over the farms are left out.                                       *)
(***************************************************************************)
EXTENDS Naturals, FiniteSets, SequencesExt

CONSTANTS
  Containing,  \* text of a name filter -> the names that contain it
  NoName,      \* no name filter
  NoCursor,
  Failed       \* HTTP 500

Rows == [live : BOOLEAN, name : Nat, created : Nat, key : Nat, named : BOOLEAN]
Cursors == [value : Nat, id : Nat]
Pages == [items : Seq(Nat), next : Cursors \cup {NoCursor}]

ASSUME ProducerListingAssumption ==
  /\ \A n \in DOMAIN Containing : Containing[n] \subseteq Nat
  /\ NoName \notin DOMAIN Containing
  /\ NoCursor \notin Cursors
  /\ Failed \notin Seq(Nat) /\ Failed \notin Pages

NoRow == [live |-> FALSE, name |-> 0, created |-> 0, key |-> 0, named |-> TRUE]

-----------------------------------------------------------------------------
(* CryptoService: payloads carry the id of their key; those written before  *)
(* keys had ids do not, and are taken to be of the active key.              *)

\* Variant of Readable: only the active key is registered.
ReadableByActive(row, ring) == row.key = ring.active

\* named: the payload carries the key id
Readable(row, ring) ==
  IF row.named THEN row.key \in {ring.active, ring.previous}
               ELSE row.key = ring.active

Encrypted(row, ring) == [row EXCEPT !.key = ring.active, !.named = TRUE]

-----------------------------------------------------------------------------
SortValue(row, query) == IF query.sortBy = "name" THEN row.name ELSE row.created

Listed(table, name) ==
  {id \in DOMAIN table : table[id].live /\ (name = NoName \/ table[id].name \in Containing[name])}

Precedes(v, w, query) == IF query.sortOrder = "asc" THEN v < w ELSE v > w

\* ORDER BY the column in the order asked, then id ASC: a comes before b.
Before(table, query, a, b) ==
  LET v == SortValue(table[a], query)
      w == SortValue(table[b], query)
  IN Precedes(v, w, query) \/ (v = w /\ a < b)

\* The ids in that order: the i-th is the one that i - 1 others come before.
Sorted(table, query, ids) ==
  [i \in 1..Cardinality(ids) |->
     CHOOSE id \in ids : Cardinality({other \in ids : Before(table, query, other, id)}) = i - 1]

\* Variant of BehindCursor: the id is not compared.
BehindValue(row, id, cursor, query) == Precedes(cursor.value, SortValue(row, query), query)

\* (column, id) < or > (value, id): the id follows the order asked, too
BehindCursor(row, id, cursor, query) ==
  \/ Precedes(cursor.value, SortValue(row, query), query)
  \/ SortValue(row, query) = cursor.value /\ Precedes(cursor.id, id, query)

\* Ids of the page: LIMIT pageSize, and OFFSET when there is no cursor
PageOf(table, query) ==
  LET ids == {id \in Listed(table, query.name) :
                query.cursor = NoCursor \/ BehindCursor(table[id], id, query.cursor, query)}
      sorted == Sorted(table, query, ids)
      offset == IF query.cursor = NoCursor THEN (query.page - 1) * query.pageSize ELSE 0
  IN SubSeq(sorted, offset + 1, IF offset + query.pageSize < Len(sorted)
                                THEN offset + query.pageSize ELSE Len(sorted))

\* toListItems: one document that cannot be decrypted fails the page.
ToListItems(table, ids, ring) ==
  IF \A i \in DOMAIN ids : Readable(table[ids[i]], ring) THEN ids ELSE Failed

\* findMany is two statements under way at once, each of which may see the
\* table as another transaction left it: the total, without the cursor,
Total(table, name) == Cardinality(Listed(table, name))

\* and the page; a full one has a next one.
FindPage(table, query, ring) ==
  LET ids == PageOf(table, query)
      items == ToListItems(table, ids, ring)
  IN IF items = Failed THEN Failed
     ELSE [items |-> items,
           next |-> IF ids # <<>> /\ Len(ids) = query.pageSize
                    THEN [value |-> SortValue(table[Last(ids)], query), id |-> Last(ids)]
                    ELSE NoCursor]
=============================================================================
