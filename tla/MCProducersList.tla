---------------------------- MODULE MCProducersList ----------------------------
(* Small tables and queries for ProducersList. *)
EXTENDS ProducersList, TLC

MCContaining == "an" :> {1} @@ "12" :> {2}

Row(name, created) == [NoRow EXCEPT !.live = TRUE, !.name = name, !.created = created]

\* Three producers, whose names and times may be the same, one of them possibly
\* stored before payloads carried a key id; an id to come before all of theirs.
WalkTables ==
  {1 :> [Row(a[1], a[2]) EXCEPT !.named = named] @@ 2 :> Row(b[1], b[2]) @@ 3 :> Row(c[1], c[2]) :
     a \in (1..2) \X (1..2), b \in (1..2) \X (1..2), c \in {<<1, 2>>}, named \in BOOLEAN}

Queries ==
  [page : {1}, pageSize : {1, 2}, sortBy : {"createdAt", "name"}, sortOrder : {"asc", "desc"},
   name : {NoName, "an"}, cursor : {NoCursor}]

MCDocumentOf == 0 :> "d1" @@ 1 :> "d1" @@ 2 :> "d2" @@ 3 :> "d2"

Two == 1 :> Row(1, 1) @@ 2 :> Row(2, 1)

MCBehaviours ==
  {[role |-> "walk", table |-> t, queries |-> Queries, writes |-> 1, typed |-> 0] : t \in WalkTables}
    \cup {[role |-> "browse", table |-> Two, queries |-> {}, writes |-> 0, typed |-> 1],
          [role |-> "search", table |-> Two, queries |-> {}, writes |-> 0, typed |-> 2],
          [role |-> "search", table |-> Two, queries |-> {}, writes |-> 1, typed |-> 1]}
=============================================================================
