------------------------- MODULE ProducerRowsProofs -------------------------
(***************************************************************************)
(* Proofs about ProducerRows for any producers, requests, documents and    *)
(* endpoints.                                                              *)
(*                                                                         *)
(* One fact carries all of them: whatever a step stores is a sound row,    *)
(* because rows held in memory were sound when they were read and are only *)
(* ever written as a whole.                                                *)
(***************************************************************************)
EXTENDS ProducerRows, TLAPS

\* A row whose hash and status go with its document
Sound(row) ==
  /\ row.documentHash = IF row.live THEN row.document ELSE Anonymised
  /\ Fits(row.status, row.document)

\* r works on a row it has read.
Holds(r) ==
  \/ req[r].pc = "found"
  \/ req[r].pc = "free" /\ req[r].call.op = "update"

RowsSound == \A p \in Producers : Stored(p) => Sound(producers[p])

\* A row held in memory is sound and was live when it was read; its producer
\* still has a row.
HeldRowsSound ==
  \A r \in Requests : Holds(r) =>
    Sound(req[r].row) /\ req[r].row.live /\ Stored(req[r].call.producer)

IInv == TypeOK /\ RowsSound /\ HeldRowsSound

\* The step stores one sound row, and the index has let it.
StoresSoundRow ==
  \E p \in Producers, row \in Row :
    /\ producers' = [producers EXCEPT ![p] = row]
    /\ Sound(row)
    /\ row.live => IndexAllows(p, row.document)

-----------------------------------------------------------------------------
\* What is known of the calls and rows a request holds.
LEMMA HeldTypes ==
  ASSUME TypeOK, NEW r \in Requests
  PROVE  /\ req[r].pc = "found" =>
              /\ req[r] \in Found
              /\ req[r].call.producer \in Producers
              /\ req[r].row \in Row
         /\ (req[r].pc = "free" /\ req[r].call.op = "create") =>
              req[r].call.document \in Documents
         /\ (req[r].pc = "free" /\ req[r].call.op = "update") =>
              /\ req[r] \in FreeToUpdate
              /\ req[r].call.producer \in Producers
              /\ req[r].call.document \in Documents
              /\ req[r].row \in Row
<1>1. req[r] \in {Idle} \cup Found \cup FreeToCreate \cup FreeToUpdate
  BY DEF TypeOK
<1>2. CASE req[r] = Idle
  BY <1>2 DEF Idle
<1>3. CASE req[r] \in Found
  BY <1>3 DEF Found, UpdateCalls, OtherCalls
<1>4. CASE req[r] \in FreeToCreate
  BY <1>4 DEF FreeToCreate, CreateCalls
<1>5. CASE req[r] \in FreeToUpdate
  BY <1>5 DEF FreeToUpdate, UpdateCalls
<1> QED
  BY <1>1, <1>2, <1>3, <1>4, <1>5

\* Every answer BrasilAPI can give about a document is a status that fits it.
LEMMA LookupFits ==
  ASSUME NEW d \in Documents
  PROVE  /\ \A status \in Lookup(d) : status \in Statuses /\ Fits(status, d)
         /\ StrictLookup(d) \subseteq Lookup(d)
BY DEF Lookup, StrictLookup, Fits, Verdict, Statuses

\* CreateProducer stores a sound row.
LEMMA CreateStores ==
  ASSUME IInv, NEW r \in Requests, CreateProducer(r)
  PROVE  StoresSoundRow
<1> DEFINE d == req[r].call.document
<1>1. d \in Documents
  BY HeldTypes DEF IInv, CreateProducer
<1>2. PICK p \in Producers, status \in StrictLookup(d) :
        /\ IndexAllows(p, d)
        /\ producers' = [producers EXCEPT ![p] = NewRow(d, status)]
  BY DEF CreateProducer
<1>3. status \in Statuses /\ Fits(status, d)
  BY <1>1, LookupFits
<1>4. NewRow(d, status) \in Row /\ Sound(NewRow(d, status))
  BY <1>1, <1>3 DEF NewRow, Row, Sound, EsgAtCreation, EsgStatuses
<1>5. NewRow(d, status).document = d
  BY DEF NewRow
<1> QED
  BY <1>2, <1>4, <1>5 DEF StoresSoundRow

\* UpdateProducer stores a sound row: new document, new hash, new verdict.
LEMMA UpdateStores ==
  ASSUME IInv, NEW r \in Requests, UpdateProducer(r)
  PROVE  StoresSoundRow
<1> DEFINE q == req[r]
           d == q.call.document
           p == q.call.producer
<1>1. d \in Documents /\ p \in Producers /\ q.row \in Row
  BY HeldTypes DEF IInv, UpdateProducer
<1>2. q.row.live
  BY DEF IInv, HeldRowsSound, Holds, UpdateProducer
<1>3. PICK status \in StrictLookup(d) :
        /\ IndexAllows(p, d)
        /\ producers' = [producers EXCEPT ![p] = UpdatedRow(q, status)]
  BY DEF UpdateProducer, UpdateLookup
<1>4. status \in Statuses /\ Fits(status, d)
  BY <1>1, LookupFits
<1>5. UpdatedRow(q, status) \in Row /\ Sound(UpdatedRow(q, status))
  BY <1>1, <1>2, <1>4 DEF UpdatedRow, Row, Sound, EsgAfterUpdate, EsgStatuses
<1>6. UpdatedRow(q, status).document = d
  BY <1>1 DEF UpdatedRow, Row
<1> QED
  BY <1>1, <1>3, <1>5, <1>6 DEF StoresSoundRow

\* RenameProducer stores the row it has read.
LEMMA RenameStores ==
  ASSUME IInv, NEW r \in Requests, RenameProducer(r)
  PROVE  StoresSoundRow
<1>1. req[r].call.producer \in Producers /\ req[r].row \in Row
  BY HeldTypes DEF IInv, RenameProducer
<1>2. Sound(req[r].row)
  BY DEF IInv, HeldRowsSound, Holds, RenameProducer
<1> QED
  BY <1>1, <1>2 DEF StoresSoundRow, RenameProducer

\* RevalidateProducer stores the row it has read with a verdict on its document.
LEMMA RevalidateStores ==
  ASSUME IInv, NEW r \in Requests, RevalidateProducer(r)
  PROVE  StoresSoundRow
<1> DEFINE q == req[r]
           p == q.call.producer
<1>1. p \in Producers /\ q.row \in Row
  BY HeldTypes DEF IInv, RevalidateProducer
<1>2. Sound(q.row) /\ q.row.live
  BY DEF IInv, HeldRowsSound, Holds, RevalidateProducer
<1>3. PICK status \in Lookup(q.row.document) :
        /\ IndexAllows(p, q.row.document)
        /\ producers' = [producers EXCEPT ![p] = RevalidatedRow(q, status)]
  BY DEF RevalidateProducer
<1>4. q.row.document \in Documents
  BY <1>1 DEF Row
<1>5. status \in Statuses /\ Fits(status, q.row.document)
  BY <1>4, LookupFits
<1>6. RevalidatedRow(q, status) \in Row /\ Sound(RevalidatedRow(q, status))
  BY <1>1, <1>2, <1>5 DEF RevalidatedRow, Row, Sound
<1>7. RevalidatedRow(q, status).document = q.row.document
  BY <1>1 DEF RevalidatedRow, Row
<1> QED
  BY <1>1, <1>3, <1>6, <1>7 DEF StoresSoundRow

\* DeleteProducer stores the current row, dead and anonymised.
LEMMA DeleteStores ==
  ASSUME IInv, NEW r \in Requests, DeleteProducer(r)
  PROVE  StoresSoundRow
<1> DEFINE p == req[r].call.producer
<1>1. p \in Producers
  BY HeldTypes DEF IInv, DeleteProducer
<1>2. Stored(p)
  BY DEF IInv, HeldRowsSound, Holds, DeleteProducer
<1>3. producers[p] \in Row /\ Sound(producers[p])
  BY <1>1, <1>2 DEF IInv, TypeOK, RowsSound, Stored
<1>4. /\ Deleted(producers[p]) \in Row
      /\ Sound(Deleted(producers[p]))
      /\ ~Deleted(producers[p]).live
  BY <1>3 DEF Deleted, Row, Sound
<1>5. producers' = [producers EXCEPT ![p] = Deleted(producers[p])]
  BY <1>1 DEF DeleteProducer
<1> QED
  BY <1>1, <1>4, <1>5 DEF StoresSoundRow

\* Whatever a step does to the table, it stores one sound row or nothing.
LEMMA StepStores ==
  ASSUME IInv, [Next]_vars
  PROVE  UNCHANGED producers \/ StoresSoundRow
<1>1. CASE UNCHANGED vars
  BY <1>1 DEF vars
<1>2. CASE Next
  <2> SUFFICES ASSUME NEW r \in Requests,
                      \/ FindProducer(r) \/ NotFound(r)
                      \/ DocumentFree(r) \/ OtherwiseFree(r) \/ DocumentTaken(r)
                      \/ Begin(r) \/ CreateProducer(r) \/ UpdateProducer(r)
                      \/ RenameProducer(r) \/ RevalidateProducer(r)
                      \/ DeleteProducer(r) \/ UniqueViolation(r) \/ Abort(r)
               PROVE  UNCHANGED producers \/ StoresSoundRow
    BY <1>2 DEF Next
  <2>1. CASE FindProducer(r)
    BY <2>1 DEF FindProducer
  <2>2. CASE NotFound(r)
    BY <2>2 DEF NotFound, vars
  <2>3. CASE DocumentFree(r)
    BY <2>3 DEF DocumentFree
  <2>4. CASE OtherwiseFree(r)
    BY <2>4 DEF OtherwiseFree
  <2>5. CASE DocumentTaken(r)
    BY <2>5 DEF DocumentTaken, vars
  <2>6. CASE UniqueViolation(r)
    BY <2>6 DEF UniqueViolation
  <2>7. CASE Abort(r)
    BY <2>7 DEF Abort
  <2>8. CASE Begin(r)
    BY <2>8 DEF Begin
  <2> QED
    BY <2>1, <2>2, <2>3, <2>4, <2>5, <2>6, <2>7, <2>8, CreateStores, UpdateStores,
       RenameStores, RevalidateStores, DeleteStores
<1> QED
  BY <1>1, <1>2

\* Rows stay rows: no step takes a producer out of the table.
LEMMA StoredStays ==
  ASSUME IInv, [Next]_vars
  PROVE  /\ producers' \in [Producers -> Row \cup {NoRow}]
         /\ RowsSound'
         /\ \A p \in Producers : Stored(p) => Stored(p)'
<1>0. producers \in [Producers -> Row \cup {NoRow}] /\ RowsSound
  BY DEF IInv, TypeOK
<1>1. CASE UNCHANGED producers
  BY <1>0, <1>1 DEF RowsSound, Stored
<1>2. CASE StoresSoundRow
  <2>1. PICK p \in Producers, row \in Row :
          producers' = [producers EXCEPT ![p] = row] /\ Sound(row)
    BY <1>2 DEF StoresSoundRow
  <2>2. row # NoRow
    BY ProducersAssumption
  <2> QED
    BY <1>0, <2>1, <2>2 DEF RowsSound, Stored
<1> QED
  BY <1>1, <1>2, StepStores

\* The entry that r appends for a producer
NewEntry(r, previous, new, trigger) ==
  [previous |-> previous, new |-> new, trigger |-> trigger, at |-> begun[r]]

\* The step appends an entry of r, which its transaction began with, to p's.
Appends(r, p, previous, new, trigger) ==
  /\ r \in Requests /\ p \in Producers
  /\ previous \in Statuses /\ new \in Statuses /\ trigger \in {"write", "job"}
  /\ begun[r] # 0
  /\ Append(r, p, previous, new, trigger)

\* What such a step does to the trails
LEMMA Appended ==
  ASSUME TypeOK, NEW r, NEW p, NEW previous, NEW new, NEW trigger,
         Appends(r, p, previous, new, trigger)
  PROVE  LET e == NewEntry(r, previous, new, trigger)
         IN  /\ e \in Entry
             /\ e.previous = previous /\ e.new = new /\ e.trigger = trigger
             /\ e.at = begun[r] /\ begun[r] \in 1..starts
             /\ audit'[p] = audit[p] \cup {e}
             /\ \A q \in Producers \ {p} : audit'[q] = audit[q]
             /\ audit' \in [Producers -> SUBSET Entry]
<1> DEFINE e == NewEntry(r, previous, new, trigger)
<1>1. begun[r] \in 1..starts /\ starts \in 0..MaxStarts /\ MaxStarts \in Nat
  BY ProducersAssumption DEF TypeOK, Appends
<1>2. e \in Entry
  BY <1>1 DEF NewEntry, Entry, Appends
<1>3. e.previous = previous /\ e.new = new /\ e.trigger = trigger /\ e.at = begun[r]
  BY DEF NewEntry
<1>4. audit' = [audit EXCEPT ![p] = @ \cup {e}]
  BY DEF Appends, Append, NewEntry
<1>5. audit \in [Producers -> SUBSET Entry] /\ p \in Producers
  BY DEF TypeOK, Appends
<1> HIDE DEF e
<1>6. /\ audit'[p] = audit[p] \cup {e}
      /\ \A q \in Producers \ {p} : audit'[q] = audit[q]
      /\ audit' \in [Producers -> SUBSET Entry]
  BY <1>2, <1>4, <1>5
<1> QED
  BY <1>1, <1>2, <1>3, <1>6 DEF e

\* Which entries a step appends: one for a stored verdict, or none.
LEMMA CreateAppends ==
  ASSUME IInv, NEW r \in Requests, CreateProducer(r)
  PROVE  \E p \in Producers, status \in StrictLookup(req[r].call.document) :
           /\ ~Stored(p)
           /\ IndexAllows(p, req[r].call.document)
           /\ producers' = [producers EXCEPT ![p] = NewRow(req[r].call.document, status)]
           /\ Appends(r, p, "VALIDATED", status, "write")
<1> DEFINE d == req[r].call.document
<1>1. d \in Documents
  BY HeldTypes DEF IInv, CreateProducer
<1>2. PICK p \in Producers, status \in StrictLookup(d) :
        /\ ~Stored(p)
        /\ IndexAllows(p, d)
        /\ producers' = [producers EXCEPT ![p] = NewRow(d, status)]
        /\ Append(r, p, "VALIDATED", status, "write")
  BY DEF CreateProducer
<1>3. status \in Statuses /\ "VALIDATED" \in Statuses
  BY <1>1, LookupFits DEF Statuses
<1>4. Appends(r, p, "VALIDATED", status, "write")
  BY <1>2, <1>3 DEF Appends, CreateProducer
<1> QED
  BY <1>2, <1>4

LEMMA UpdateAppends ==
  ASSUME IInv, NEW r \in Requests, UpdateProducer(r)
  PROVE  \E status \in StrictLookup(req[r].call.document) :
           /\ IndexAllows(req[r].call.producer, req[r].call.document)
           /\ producers' = [producers EXCEPT ![req[r].call.producer] = UpdatedRow(req[r], status)]
           /\ Appends(r, req[r].call.producer, req[r].row.status, status, "write")
<1>1. /\ req[r].call.document \in Documents /\ req[r].row.status \in Statuses
      /\ req[r].call.producer \in Producers
  BY HeldTypes DEF IInv, UpdateProducer, Row
<1>2. PICK status \in StrictLookup(req[r].call.document) :
        /\ IndexAllows(req[r].call.producer, req[r].call.document)
        /\ producers' = [producers EXCEPT ![req[r].call.producer] = UpdatedRow(req[r], status)]
        /\ Append(r, req[r].call.producer, req[r].row.status, status, "write")
  BY DEF UpdateProducer, UpdateLookup
<1>3. status \in Statuses
  BY <1>1, LookupFits
<1>4. Appends(r, req[r].call.producer, req[r].row.status, status, "write")
  BY <1>1, <1>2, <1>3 DEF Appends, UpdateProducer
<1> QED
  BY <1>2, <1>4

LEMMA RevalidateAppends ==
  ASSUME IInv, NEW r \in Requests, RevalidateProducer(r)
  PROVE  \E status \in Lookup(req[r].row.document) :
           /\ producers' = [producers EXCEPT ![req[r].call.producer] = RevalidatedRow(req[r], status)]
           /\ IF req[r].row.document \in Cnpjs \/ req[r].row.status # "VALIDATED"
              THEN Appends(r, req[r].call.producer, req[r].row.status, status, "job")
              ELSE UNCHANGED audit
<1>1. /\ req[r].row.document \in Documents /\ req[r].row.status \in Statuses
      /\ req[r].call.producer \in Producers
  BY HeldTypes DEF IInv, RevalidateProducer, Row
<1>2. PICK status \in Lookup(req[r].row.document) :
        /\ producers' = [producers EXCEPT ![req[r].call.producer] = RevalidatedRow(req[r], status)]
        /\ IF req[r].row.document \in Cnpjs \/ req[r].row.status # "VALIDATED"
           THEN Append(r, req[r].call.producer, req[r].row.status, status, "job")
           ELSE UNCHANGED audit
  BY DEF RevalidateProducer, AuditsRevalidation
<1>3. status \in Statuses
  BY <1>1, LookupFits
<1>4. ASSUME Append(r, req[r].call.producer, req[r].row.status, status, "job")
      PROVE  Appends(r, req[r].call.producer, req[r].row.status, status, "job")
  BY <1>1, <1>3, <1>4 DEF Appends, RevalidateProducer
<1> QED
  BY <1>2, <1>4

\* The trails are typed, and the clock never goes back.
LEMMA AuditTyped ==
  ASSUME IInv, [Next]_vars
  PROVE  /\ audit' \in [Producers -> SUBSET Entry]
         /\ starts' \in 0..MaxStarts /\ starts <= starts'
         /\ begun' \in [Requests -> 0..starts']
<1>0. /\ audit \in [Producers -> SUBSET Entry] /\ starts \in 0..MaxStarts
      /\ begun \in [Requests -> 0..starts] /\ MaxStarts \in Nat
  BY ProducersAssumption DEF IInv, TypeOK
<1>1. CASE UNCHANGED vars
  BY <1>0, <1>1 DEF vars
<1>2. ASSUME NEW r \in Requests, UNCHANGED audit, UNCHANGED <<begun, starts>> \/ Finish(r)
      PROVE  /\ audit' \in [Producers -> SUBSET Entry]
             /\ starts' \in 0..MaxStarts /\ starts <= starts'
             /\ begun' \in [Requests -> 0..starts']
  BY <1>0, <1>2 DEF Finish
<1>3. ASSUME NEW r \in Requests, Begin(r)
      PROVE  /\ audit' \in [Producers -> SUBSET Entry]
             /\ starts' \in 0..MaxStarts /\ starts <= starts'
             /\ begun' \in [Requests -> 0..starts']
  BY <1>0, <1>3 DEF Begin
<1>4. ASSUME NEW r \in Requests, Finish(r), audit' \in [Producers -> SUBSET Entry]
      PROVE  /\ audit' \in [Producers -> SUBSET Entry]
             /\ starts' \in 0..MaxStarts /\ starts <= starts'
             /\ begun' \in [Requests -> 0..starts']
  BY <1>0, <1>4 DEF Finish
<1>5. ASSUME NEW r \in Requests, CreateProducer(r)
      PROVE  Finish(r) /\ audit' \in [Producers -> SUBSET Entry]
  BY <1>5, CreateAppends, Appended DEF CreateProducer, IInv
<1>6. ASSUME NEW r \in Requests, UpdateProducer(r)
      PROVE  Finish(r) /\ audit' \in [Producers -> SUBSET Entry]
  BY <1>6, UpdateAppends, Appended DEF UpdateProducer, IInv
<1>7. ASSUME NEW r \in Requests, RevalidateProducer(r)
      PROVE  Finish(r) /\ audit' \in [Producers -> SUBSET Entry]
  BY <1>0, <1>7, RevalidateAppends, Appended DEF RevalidateProducer, IInv
<1>8. ASSUME NEW r \in Requests,
             \/ FindProducer(r) \/ NotFound(r) \/ DocumentFree(r) \/ OtherwiseFree(r)
             \/ DocumentTaken(r) \/ RenameProducer(r) \/ DeleteProducer(r)
             \/ UniqueViolation(r) \/ Abort(r)
      PROVE  UNCHANGED audit /\ (UNCHANGED <<begun, starts>> \/ Finish(r))
  BY <1>8 DEF FindProducer, NotFound, DocumentFree, OtherwiseFree, DocumentTaken,
              RenameProducer, DeleteProducer, UniqueViolation, Abort, vars
<1> QED
  BY <1>1, <1>2, <1>3, <1>4, <1>5, <1>6, <1>7, <1>8 DEF Next

-----------------------------------------------------------------------------
\* What r holds is well-typed and sound.
Held(q) ==
  /\ q \in {Idle} \cup Found \cup FreeToCreate \cup FreeToUpdate
  /\ (q.pc = "found" \/ (q.pc = "free" /\ q.call.op = "update")) =>
       Sound(q.row) /\ q.row.live /\ Stored(q.call.producer)

\* A step moves one request, to a state it may hold.
LEMMA StepHolds ==
  ASSUME IInv, [Next]_vars
  PROVE  \/ UNCHANGED req
         \/ \E r \in Requests : \E q :
              req' = [req EXCEPT ![r] = q] /\ Held(q)
<1>1. CASE UNCHANGED vars
  BY <1>1 DEF vars
<1>2. CASE Next
  <2>1. PICK r \in Requests :
          \/ FindProducer(r) \/ NotFound(r)
          \/ DocumentFree(r) \/ OtherwiseFree(r) \/ DocumentTaken(r)
          \/ Begin(r) \/ CreateProducer(r) \/ UpdateProducer(r)
          \/ RenameProducer(r) \/ RevalidateProducer(r)
          \/ DeleteProducer(r) \/ UniqueViolation(r) \/ Abort(r)
    BY <1>2 DEF Next
  <2>2. Held(Idle)
    BY DEF Held, Idle
  <2>3. CASE UNCHANGED req \/ Finish(r)
    BY <2>2, <2>3 DEF Finish
  <2>4. CASE FindProducer(r)
    <3>1. PICK call \in UpdateCalls \cup OtherCalls :
            /\ Live(call.producer)
            /\ req' = [req EXCEPT ![r] =
                 [pc |-> "found", call |-> call, row |-> producers[call.producer]]]
      BY <2>4 DEF FindProducer
    <3>2. call.producer \in Producers
      BY DEF UpdateCalls, OtherCalls
    <3>3. /\ producers[call.producer] \in Row
          /\ producers[call.producer].live
          /\ Stored(call.producer)
          /\ Sound(producers[call.producer])
      BY <3>1, <3>2 DEF IInv, TypeOK, RowsSound, Live, Stored
    <3> DEFINE q == [pc |-> "found", call |-> call, row |-> producers[call.producer]]
    <3>4. q \in Found
      BY <3>3 DEF Found
    <3>5. q.row = producers[call.producer] /\ q.call = call
      OBVIOUS
    <3>6. Held(q)
      BY <3>3, <3>4, <3>5 DEF Held
    <3> QED
      BY <3>1, <3>6
  <2>5. CASE DocumentFree(r)
    <3>1. PICK call \in CreateCalls :
            req' = [req EXCEPT ![r] = [pc |-> "free", call |-> call]]
      BY <2>5 DEF DocumentFree
    <3>2. call.op = "create"
      BY DEF CreateCalls
    <3>3. Held([pc |-> "free", call |-> call])
      BY <3>2 DEF Held, FreeToCreate
    <3> QED
      BY <3>1, <3>3
  <2>6. CASE OtherwiseFree(r)
    <3>1. /\ req[r].pc = "found" /\ req[r].call.op = "update"
          /\ req' = [req EXCEPT ![r].pc = "free"]
      BY <2>6 DEF OtherwiseFree
    <3>2. req[r] \in Found
      BY <3>1, HeldTypes DEF IInv
    <3>3. Sound(req[r].row) /\ req[r].row.live /\ Stored(req[r].call.producer)
      BY <3>1 DEF IInv, HeldRowsSound, Holds
    <3> DEFINE q == [req[r] EXCEPT !.pc = "free"]
    <3>4. q.row = req[r].row /\ q.call = req[r].call
      BY <3>2 DEF Found
    <3>5. req[r].call \in UpdateCalls
      BY <3>1, <3>2 DEF Found, OtherCalls
    <3>6. q \in FreeToUpdate
      BY <3>2, <3>5 DEF Found, FreeToUpdate
    <3>7. Held(q)
      BY <3>3, <3>4, <3>6 DEF Held
    <3>8. req' = [req EXCEPT ![r] = q]
      BY <3>1
    <3> QED
      BY <3>7, <3>8
  <2> QED
    BY <2>1, <2>3, <2>4, <2>5, <2>6
    DEF NotFound, DocumentTaken, Begin, CreateProducer, UpdateProducer, RenameProducer,
        RevalidateProducer, DeleteProducer, UniqueViolation, Abort, vars
<1> QED
  BY <1>1, <1>2

\* IInv is inductive.
LEMMA IInvHolds == Spec => []IInv
<1>1. Init => IInv
  <2> SUFFICES ASSUME Init PROVE IInv
    OBVIOUS
  <2>1. \A r \in Requests : ~Holds(r)
    BY DEF Init, Idle, Holds
  <2> QED
    BY <2>1, ProducersAssumption
       DEF Init, IInv, TypeOK, RowsSound, HeldRowsSound, Stored
<1>2. IInv /\ [Next]_vars => IInv'
  <2> SUFFICES ASSUME IInv, [Next]_vars PROVE IInv'
    OBVIOUS
  <2>1. /\ producers' \in [Producers -> Row \cup {NoRow}]
        /\ RowsSound'
        /\ \A p \in Producers : Stored(p) => Stored(p)'
    BY StoredStays
  <2>2. \A r \in Requests : Held(req[r])
    BY DEF IInv, TypeOK, HeldRowsSound, Held, Holds
  <2>3. \A r \in Requests :
          (req[r].pc = "found" \/ (req[r].pc = "free" /\ req[r].call.op = "update"))
            => req[r].call.producer \in Producers
    BY HeldTypes DEF IInv
  <2>4. req \in [Requests -> {Idle} \cup Found \cup FreeToCreate \cup FreeToUpdate]
    BY DEF IInv, TypeOK
  <2>5. /\ req' \in [Requests -> {Idle} \cup Found \cup FreeToCreate \cup FreeToUpdate]
        /\ \A r \in Requests : Held(req'[r])
    <3>1. CASE UNCHANGED req
      BY <2>2, <2>4, <3>1
    <3>2. ASSUME NEW r \in Requests, NEW q,
                 req' = [req EXCEPT ![r] = q], Held(q)
          PROVE  /\ req' \in [Requests -> {Idle} \cup Found \cup FreeToCreate
                                          \cup FreeToUpdate]
                 /\ \A s \in Requests : Held(req'[s])
      <4>1. q \in {Idle} \cup Found \cup FreeToCreate \cup FreeToUpdate
        BY <3>2 DEF Held
      <4> QED
        BY <2>2, <2>4, <3>2, <4>1
    <3> QED
      BY <3>1, <3>2, StepHolds
  <2>6. HeldRowsSound'
    <3> SUFFICES ASSUME NEW r \in Requests, Holds(r)'
                 PROVE  (/\ Sound(req[r].row) /\ req[r].row.live
                         /\ Stored(req[r].call.producer))'
      BY DEF HeldRowsSound
    <3>1. /\ Sound(req'[r].row) /\ req'[r].row.live
          /\ Stored(req'[r].call.producer)
      BY <2>5 DEF Held, Holds
    <3>2. req'[r] \in Found \cup FreeToUpdate
      BY <2>5 DEF Holds, Idle, FreeToCreate, CreateCalls
    <3>3. req'[r].call.producer \in Producers
      BY <3>2 DEF Found, FreeToUpdate, UpdateCalls, OtherCalls
    <3> QED
      BY <2>1, <3>1, <3>3 DEF Stored, Sound
  <2>7. TypeOK'
    BY <2>1, <2>5, AuditTyped DEF TypeOK
  <2> QED
    BY <2>1, <2>6, <2>7 DEF IInv
<1> QED
  BY <1>1, <1>2, PTL DEF Spec

-----------------------------------------------------------------------------
\* Type correctness: the table, the newest audit entries and what every use
\* case holds in memory are well-formed, whatever the interleaving.
THEOREM ProducerTypes == Spec => []TypeOK
BY IInvHolds, PTL DEF IInv

\* The search index follows the row: a live producer is found by its own
\* document, a deleted one by none (saveInner, update, softDelete).
THEOREM HashCorrect == Spec => []HashFollowsRow
<1>1. IInv => HashFollowsRow
  BY DEF IInv, RowsSound, HashFollowsRow, Sound
<1> QED
  BY <1>1, IInvHolds, PTL

\* No row carries a verdict that its document cannot have: reads that are stale
\* when the verdict arrives cannot mix one document with another's verdict,
\* since save and update write every column.
THEOREM VerdictsCorrect == Spec => []DocumentStatusFits
<1>1. IInv => DocumentStatusFits
  BY DEF IInv, RowsSound, DocumentStatusFits, Sound
<1> QED
  BY <1>1, IInvHolds, PTL

\* A document has at most one live producer, although it is checked long before
\* the row is written and a stale write may bring a producer back: the partial
\* unique index compares hashes, and hashes follow documents.
THEOREM UniqueDocumentsCorrect == Spec => []UniqueDocuments
<1>1. Init => UniqueDocuments
  BY DEF Init, UniqueDocuments, Live, Stored
<1>2. IInv /\ UniqueDocuments /\ [Next]_vars => UniqueDocuments'
  <2> SUFFICES ASSUME IInv, UniqueDocuments, [Next]_vars
               PROVE  UniqueDocuments'
    OBVIOUS
  <2>1. CASE UNCHANGED producers
    BY <2>1 DEF UniqueDocuments, Live, Stored
  <2>2. CASE StoresSoundRow
    <3>1. PICK p \in Producers, row \in Row :
            /\ producers' = [producers EXCEPT ![p] = row]
            /\ row.live => IndexAllows(p, row.document)
      BY <2>2 DEF StoresSoundRow
    <3>2. ASSUME NEW s \in Producers \ {p}, Live(s), row.live
          PROVE  producers[s].document # row.document
      <4>1. producers[s].documentHash = producers[s].document
        BY <3>2 DEF IInv, RowsSound, Sound, Live
      <4> QED
        BY <3>1, <3>2, <4>1 DEF IndexAllows, HoldersOf
    <3>3. producers'[p] = row /\ \A s \in Producers \ {p} : producers'[s] = producers[s]
      BY <3>1 DEF IInv, TypeOK
    <3> QED
      BY <3>2, <3>3 DEF UniqueDocuments, Live, Stored
  <2> QED
    BY <2>1, <2>2, StepStores
<1> QED
  BY <1>1, <1>2, IInvHolds, PTL DEF Spec

-----------------------------------------------------------------------------
(* The audit trail.  A row held in memory had its status from an entry      *)
(* whose transaction had begun before, since it had committed; so whatever  *)
(* the holder stores and appends goes on from an entry earlier than its     *)
(* own, and a rename, which appends none, stores a status that has one.     *)

\* An entry before t gave the status.
Named(trail, status, t) == \E e \in trail : e.new = status /\ e.at < t

\* A revalidation found the document pending.
FoundPending(trail) == \E e \in trail : e.trigger = "job" /\ e.new = "PENDING"

\* An approved producer is pending by a revalidation only.
Warned(row, trail) ==
  EsgCarEnabled /\ row.status = "PENDING" /\ row.esg = "APPROVED" => FoundPending(trail)

Connected(trail) ==
  \A e \in trail : (\E f \in trail : f.at < e.at) => Named(trail, e.previous, e.at)

\* The instant of r: when its transaction began, or now.
Instant(r) == IF begun[r] = 0 THEN starts + 1 ELSE begun[r]

RowsNamed ==
  \A p \in Producers :
    /\ Stored(p) => Named(audit[p], producers[p].status, starts + 1) /\ Warned(producers[p], audit[p])
    /\ ~Stored(p) => audit[p] = {}

RowsHeldNamed ==
  \A r \in Requests : Holds(r) =>
    LET p == req[r].call.producer
    IN  Named(audit[p], req[r].row.status, Instant(r)) /\ Warned(req[r].row, audit[p])

TrailsBegun == \A p \in Producers : \A e \in audit[p] : e.at <= starts

NoneBegunIdle == \A r \in Requests : req[r].pc = "idle" => begun[r] = 0

Trails ==
  /\ RowsNamed /\ RowsHeldNamed /\ TrailsBegun /\ NoneBegunIdle
  /\ \A p \in Producers : Connected(audit[p])

\* A trail only grows, and a later instant sees more of it.
LEMMA NamedStays ==
  ASSUME NEW S \in SUBSET Entry, NEW T \in SUBSET Entry, S \subseteq T, NEW status,
         NEW t \in Nat, NEW u \in Nat, t <= u, Named(S, status, t)
  PROVE  Named(T, status, u)
<1>1. PICK e \in S : e.new = status /\ e.at < t
  BY DEF Named
<1>2. e \in T /\ e.at \in Nat
  BY <1>1 DEF Entry
<1>3. e.at < u
  BY <1>1, <1>2
<1> QED
  BY <1>1, <1>2, <1>3 DEF Named

\* One entry more, with an earlier one that has its previous status, or alone
LEMMA ConnectedStays ==
  ASSUME NEW S \in SUBSET Entry, NEW e \in Entry, Connected(S),
         S = {} \/ Named(S, e.previous, e.at)
  PROVE  Connected(S \cup {e})
<1>1. SUFFICES ASSUME NEW g \in S \cup {e}, NEW f \in S \cup {e}, f.at < g.at
               PROVE  Named(S \cup {e}, g.previous, g.at)
  BY DEF Connected
<1>2. g.at \in Nat /\ e.at \in Nat /\ f.at \in Nat
  BY DEF Entry
<1>3. CASE Named(S, g.previous, g.at)
  BY <1>3 DEF Named
<1>4. CASE g \in S /\ f \in S
  BY <1>1, <1>3, <1>4 DEF Connected
<1>5. CASE g = e
  <2>1. f \in S
    BY <1>1, <1>2, <1>5
  <2> QED
    BY <1>3, <1>5, <2>1
<1>6. CASE g \in S /\ f = e
  <2>1. S # {}
    BY <1>6
  <2>2. PICK h \in S : h.at < e.at
    BY <2>1 DEF Named
  <2>3. h.at < g.at
    <3>1. h.at \in Nat
      BY DEF Entry
    <3> QED
      BY <1>1, <1>2, <1>6, <2>2, <3>1
  <2>4. Named(S, g.previous, g.at)
    BY <1>6, <2>3 DEF Connected
  <2> QED
    BY <1>3, <2>4
<1> QED
  BY <1>1, <1>4, <1>5, <1>6

\* The step stores one row, and its producer's trail tells where it comes from.
StoresNamedRow ==
  \E p \in Producers, row \in Row :
    /\ producers' = [producers EXCEPT ![p] = row]
    /\ \A q \in Producers \ {p} : audit'[q] = audit[q]
    /\ audit[p] \subseteq audit'[p]
    /\ Connected(audit'[p]) /\ \A e \in audit'[p] : e.at <= starts
    /\ Named(audit'[p], row.status, starts + 1) /\ Warned(row, audit'[p])

\* An entry for the status of the row stored, that goes on from an earlier one,
\* is all that is needed.
LEMMA AppendingStores ==
  ASSUME IInv, Trails, NEW r \in Requests, NEW p \in Producers, NEW row \in Row,
         NEW previous, NEW trigger, Appends(r, p, previous, row.status, trigger),
         producers' = [producers EXCEPT ![p] = row],
         audit[p] = {} \/ Named(audit[p], previous, begun[r]),
         trigger = "write" => ~(EsgCarEnabled /\ row.status = "PENDING" /\ row.esg = "APPROVED")
  PROVE  StoresNamedRow
<1> DEFINE e == NewEntry(r, previous, row.status, trigger)
<1>1. /\ e \in Entry /\ e.previous = previous /\ e.new = row.status /\ e.trigger = trigger
      /\ e.at = begun[r] /\ begun[r] \in 1..starts
      /\ audit'[p] = audit[p] \cup {e}
      /\ \A q \in Producers \ {p} : audit'[q] = audit[q]
  BY Appended DEF IInv
<1>2. audit[p] \in SUBSET Entry /\ starts \in Nat
  BY ProducersAssumption DEF IInv, TypeOK
<1> HIDE DEF e
<1>3. Connected(audit'[p])
  BY <1>1, <1>2, ConnectedStays DEF Trails
<1>4. \A f \in audit'[p] : f.at <= starts
  BY <1>1, <1>2 DEF Trails, TrailsBegun
<1>5. Named(audit'[p], row.status, starts + 1)
  <2>1. e.at < starts + 1
    BY <1>1, <1>2
  <2> QED
    BY <1>1, <2>1 DEF Named
<1>6. Warned(row, audit'[p])
  <2>1. CASE trigger = "write"
    BY <2>1 DEF Warned
  <2>2. CASE trigger = "job"
    BY <1>1, <2>2 DEF Warned, FoundPending
  <2> QED
    BY <2>1, <2>2 DEF Appends
<1> QED
  BY <1>1, <1>3, <1>4, <1>5, <1>6 DEF StoresNamedRow

\* A row whose status and ESG status are known to the trail is stored without
\* an entry.
LEMMA KeepingStores ==
  ASSUME IInv, Trails, NEW p \in Producers, NEW row \in Row, NEW t \in Nat,
         t <= starts + 1, UNCHANGED audit,
         producers' = [producers EXCEPT ![p] = row],
         Named(audit[p], row.status, t), Warned(row, audit[p])
  PROVE  StoresNamedRow
<1>1. audit[p] \in SUBSET Entry /\ starts + 1 \in Nat
  BY ProducersAssumption DEF IInv, TypeOK
<1>2. Named(audit[p], row.status, starts + 1)
  BY <1>1, NamedStays
<1> QED
  BY <1>2 DEF StoresNamedRow, Trails, TrailsBegun

\* The instant of a request is not later than now.
LEMMA InstantType ==
  ASSUME TypeOK, NEW r \in Requests
  PROVE  /\ Instant(r) \in Nat /\ Instant(r) <= starts + 1
         /\ begun[r] # 0 => Instant(r) = begun[r]
BY ProducersAssumption DEF TypeOK, Instant

LEMMA CreateStoresNamed ==
  ASSUME IInv, Trails, NEW r \in Requests, CreateProducer(r)
  PROVE  StoresNamedRow
<1> DEFINE d == req[r].call.document
<1>1. d \in Documents
  BY HeldTypes DEF IInv, CreateProducer
<1>2. PICK p \in Producers, status \in StrictLookup(d) :
        /\ ~Stored(p)
        /\ producers' = [producers EXCEPT ![p] = NewRow(d, status)]
        /\ Appends(r, p, "VALIDATED", status, "write")
  BY CreateAppends
<1>3. status \in Statuses
  BY <1>1, LookupFits
<1>4. /\ NewRow(d, status) \in Row /\ NewRow(d, status).status = status
      /\ ~(EsgCarEnabled /\ status = "PENDING" /\ NewRow(d, status).esg = "APPROVED")
  BY <1>1, <1>3 DEF NewRow, Row, EsgAtCreation, EsgStatuses
<1>5. audit[p] = {}
  BY <1>2 DEF Trails, RowsNamed
<1> DEFINE new == NewRow(d, status)
<1>6. /\ new \in Row /\ new.status = status
      /\ ~(EsgCarEnabled /\ new.status = "PENDING" /\ new.esg = "APPROVED")
      /\ producers' = [producers EXCEPT ![p] = new]
  BY <1>2, <1>4
<1> HIDE DEF d, new
<1> QED
  BY <1>2, <1>5, <1>6, AppendingStores

LEMMA UpdateStoresNamed ==
  ASSUME IInv, Trails, NEW r \in Requests, UpdateProducer(r)
  PROVE  StoresNamedRow
<1> DEFINE p == req[r].call.producer
           row == req[r].row
           d == req[r].call.document
<1>1. p \in Producers /\ row \in Row /\ d \in Documents /\ Holds(r) /\ begun[r] # 0
  BY HeldTypes DEF IInv, UpdateProducer, Holds
<1>2. PICK status \in StrictLookup(d) :
        /\ producers' = [producers EXCEPT ![p] = UpdatedRow(req[r], status)]
        /\ Appends(r, p, row.status, status, "write")
  BY UpdateAppends
<1>3. status \in Statuses
  BY <1>1, LookupFits
<1>4. /\ UpdatedRow(req[r], status) \in Row /\ UpdatedRow(req[r], status).status = status
      /\ ~(status = "PENDING" /\ UpdatedRow(req[r], status).esg = "APPROVED")
  BY <1>1, <1>3 DEF UpdatedRow, Row, EsgAfterUpdate, EsgStatuses
<1>5. Named(audit[p], row.status, begun[r])
  BY <1>1, InstantType DEF IInv, Trails, RowsHeldNamed
<1> DEFINE new == UpdatedRow(req[r], status)
<1>6. /\ new \in Row /\ new.status = status
      /\ ~(EsgCarEnabled /\ new.status = "PENDING" /\ new.esg = "APPROVED")
      /\ producers' = [producers EXCEPT ![p] = new]
  BY <1>2, <1>4
<1> HIDE DEF p, row, d, new
<1> QED
  BY <1>1, <1>2, <1>5, <1>6, AppendingStores

LEMMA RenameStoresNamed ==
  ASSUME IInv, Trails, NEW r \in Requests, RenameProducer(r)
  PROVE  StoresNamedRow
<1> DEFINE p == req[r].call.producer
<1>1. p \in Producers /\ req[r].row \in Row /\ Holds(r)
  BY HeldTypes DEF IInv, RenameProducer, Holds
<1>2. Named(audit[p], req[r].row.status, Instant(r)) /\ Warned(req[r].row, audit[p])
  BY <1>1 DEF Trails, RowsHeldNamed
<1>3. producers' = [producers EXCEPT ![p] = req[r].row] /\ UNCHANGED audit
  BY DEF RenameProducer
<1>4. Instant(r) \in Nat /\ Instant(r) <= starts + 1
  BY InstantType DEF IInv
<1> HIDE DEF p
<1> QED
  BY <1>1, <1>2, <1>3, <1>4, KeepingStores

\* A CPF that is not audited keeps the status it had, and is not pending.
LEMMA RevalidateStoresNamed ==
  ASSUME IInv, Trails, NEW r \in Requests, RevalidateProducer(r)
  PROVE  StoresNamedRow
<1> DEFINE p == req[r].call.producer
           row == req[r].row
           d == row.document
<1>1. p \in Producers /\ row \in Row /\ d \in Documents /\ Holds(r) /\ begun[r] # 0
  BY HeldTypes DEF IInv, RevalidateProducer, Holds, Row
<1>2. PICK status \in Lookup(d) :
        /\ producers' = [producers EXCEPT ![p] = RevalidatedRow(req[r], status)]
        /\ IF d \in Cnpjs \/ row.status # "VALIDATED"
           THEN Appends(r, p, row.status, status, "job")
           ELSE UNCHANGED audit
  BY RevalidateAppends
<1>3. status \in Statuses
  BY <1>1, LookupFits
<1>4. RevalidatedRow(req[r], status) \in Row /\ RevalidatedRow(req[r], status).status = status
  BY <1>1, <1>3 DEF RevalidatedRow, Row
<1>5. Named(audit[p], row.status, Instant(r)) /\ Instant(r) = begun[r]
      /\ Instant(r) \in Nat /\ Instant(r) <= starts + 1
  BY <1>1, InstantType DEF IInv, Trails, RowsHeldNamed
<1> DEFINE new == RevalidatedRow(req[r], status)
<1>6. CASE d \in Cnpjs \/ row.status # "VALIDATED"
  <2>1. new \in Row /\ new.status = status /\ producers' = [producers EXCEPT ![p] = new]
    BY <1>2, <1>4
  <2>2. Appends(r, p, row.status, new.status, "job") /\ Named(audit[p], row.status, begun[r])
    BY <1>2, <1>5, <1>6, <2>1
  <2> HIDE DEF p, row, d, new
  <2> QED
    BY <1>1, <2>1, <2>2, AppendingStores
<1>7. CASE ~(d \in Cnpjs \/ row.status # "VALIDATED")
  <2>1. status = "VALIDATED"
    BY <1>2, <1>7 DEF Lookup, Verdict
  <2>2. Warned(new, audit[p])
    BY <1>4, <2>1 DEF Warned
  <2>3. Named(audit[p], new.status, Instant(r))
    BY <1>4, <1>5, <1>7, <2>1
  <2>4. new \in Row /\ producers' = [producers EXCEPT ![p] = new] /\ UNCHANGED audit
    BY <1>2, <1>4, <1>7
  <2> HIDE DEF p, row, d, new
  <2> QED
    BY <1>1, <1>5, <2>2, <2>3, <2>4, KeepingStores
<1> QED
  BY <1>6, <1>7

LEMMA DeleteStoresNamed ==
  ASSUME IInv, Trails, NEW r \in Requests, DeleteProducer(r)
  PROVE  StoresNamedRow
<1> DEFINE p == req[r].call.producer
<1>1. p \in Producers
  BY HeldTypes DEF IInv, DeleteProducer
<1>2. Stored(p)
  BY DEF IInv, HeldRowsSound, Holds, DeleteProducer
<1>3. producers[p] \in Row
  BY <1>1, <1>2 DEF IInv, TypeOK, Stored
<1>4. Named(audit[p], producers[p].status, starts + 1) /\ Warned(producers[p], audit[p])
  BY <1>1, <1>2 DEF Trails, RowsNamed
<1>5. /\ Deleted(producers[p]) \in Row
      /\ Deleted(producers[p]).status = producers[p].status
      /\ Deleted(producers[p]).esg = producers[p].esg
  BY <1>3 DEF Deleted, Row
<1>6. Warned(Deleted(producers[p]), audit[p])
  BY <1>4, <1>5 DEF Warned
<1>7. producers' = [producers EXCEPT ![p] = Deleted(producers[p])] /\ UNCHANGED audit
  BY <1>1 DEF DeleteProducer
<1>8. starts + 1 \in Nat /\ starts + 1 <= starts + 1
  BY ProducersAssumption DEF IInv, TypeOK
<1> DEFINE new == Deleted(producers[p])
<1>9. /\ new \in Row /\ Named(audit[p], new.status, starts + 1) /\ Warned(new, audit[p])
      /\ producers' = [producers EXCEPT ![p] = new] /\ UNCHANGED audit
  BY <1>4, <1>5, <1>6, <1>7
<1> HIDE DEF p, new
<1> QED
  BY <1>1, <1>8, <1>9, KeepingStores

\* A request goes on with what it held, at its instant or a later one, or takes
\* up what the table has.
LEMMA HeldGoesOn ==
  ASSUME IInv, Trails, [Next]_vars, NEW r \in Requests, Holds(r)'
  PROVE  \/ /\ Holds(r) /\ req'[r].call = req[r].call /\ req'[r].row = req[r].row
            /\ Instant(r) <= Instant(r)'
         \/ /\ Stored(req'[r].call.producer) /\ req'[r].call.producer \in Producers
            /\ req'[r].row = producers[req'[r].call.producer]
            /\ UNCHANGED audit /\ Instant(r)' = starts + 1
<1>0. /\ begun \in [Requests -> 0..starts] /\ starts \in Nat /\ starts' \in Nat
      /\ starts <= starts' /\ req \in [Requests -> {Idle} \cup Found \cup FreeToCreate \cup FreeToUpdate]
  BY AuditTyped, ProducersAssumption DEF IInv, TypeOK
<1>1. CASE req'[r] = req[r] /\ begun'[r] = begun[r]
  <2>1. Holds(r)
    BY <1>1 DEF Holds
  <2>2. Instant(r) <= Instant(r)'
    BY <1>0, <1>1 DEF Instant
  <2> QED
    BY <1>1, <2>1, <2>2
<1>2. ASSUME NEW s \in Requests, Finish(s)
      PROVE  req'[r] = req[r] /\ begun'[r] = begun[r]
  <2>1. s # r
    BY <1>0, <1>2 DEF Finish, Holds, Idle
  <2> QED
    BY <1>0, <1>2, <2>1 DEF Finish
<1>3. ASSUME NEW s \in Requests, FindProducer(s)
      PROVE  \/ req'[r] = req[r] /\ begun'[r] = begun[r]
             \/ /\ Stored(req'[r].call.producer) /\ req'[r].call.producer \in Producers
                /\ req'[r].row = producers[req'[r].call.producer]
                /\ UNCHANGED audit /\ Instant(r)' = starts + 1
  <2>1. PICK call \in UpdateCalls \cup OtherCalls :
          /\ Live(call.producer)
          /\ req' = [req EXCEPT ![s] =
               [pc |-> "found", call |-> call, row |-> producers[call.producer]]]
    BY <1>3 DEF FindProducer
  <2>2. call.producer \in Producers
    BY DEF UpdateCalls, OtherCalls
  <2>3. CASE s # r
    BY <1>0, <1>3, <2>1, <2>3 DEF FindProducer
  <2>4. CASE s = r
    <3>1. req'[r].call = call /\ req'[r].row = producers[call.producer]
      BY <1>0, <2>1, <2>4
    <3>2. begun[r] = 0 /\ begun' = begun /\ starts' = starts /\ audit' = audit
      BY <1>3, <2>4 DEF FindProducer, Trails, NoneBegunIdle
    <3>3. Instant(r)' = starts + 1
      BY <3>2 DEF Instant
    <3> QED
      BY <2>1, <2>2, <3>1, <3>2, <3>3 DEF Live
  <2> QED
    BY <2>3, <2>4
<1>4. ASSUME NEW s \in Requests, Begin(s), s = r
      PROVE  /\ Holds(r) /\ req'[r].call = req[r].call /\ req'[r].row = req[r].row
             /\ Instant(r) <= Instant(r)'
  BY <1>0, <1>4 DEF Begin, Holds, Instant
<1>5. ASSUME NEW s \in Requests, Begin(s), s # r
      PROVE  req'[r] = req[r] /\ begun'[r] = begun[r]
  BY <1>0, <1>5 DEF Begin
<1>6. ASSUME NEW s \in Requests, DocumentFree(s)
      PROVE  req'[r] = req[r] /\ begun'[r] = begun[r]
  <2>1. PICK call \in CreateCalls : req' = [req EXCEPT ![s] = [pc |-> "free", call |-> call]]
    BY <1>6 DEF DocumentFree
  <2>2. call.op = "create"
    BY DEF CreateCalls
  <2>3. s # r
    BY <1>0, <2>1, <2>2 DEF Holds
  <2> QED
    BY <1>0, <1>6, <2>1, <2>3 DEF DocumentFree
<1>7. ASSUME NEW s \in Requests, OtherwiseFree(s), s = r
      PROVE  /\ Holds(r) /\ req'[r].call = req[r].call /\ req'[r].row = req[r].row
             /\ Instant(r) <= Instant(r)'
  <2>1. req[r].pc = "found" /\ req' = [req EXCEPT ![r].pc = "free"] /\ begun' = begun /\ starts' = starts
    BY <1>7 DEF OtherwiseFree
  <2>2. req[r] \in Found
    BY <2>1, HeldTypes DEF IInv
  <2>3. req'[r].call = req[r].call /\ req'[r].row = req[r].row
    BY <1>0, <2>1, <2>2 DEF Found
  <2> QED
    BY <1>0, <2>1, <2>3 DEF Holds, Instant
<1>8. ASSUME NEW s \in Requests, OtherwiseFree(s), s # r
      PROVE  req'[r] = req[r] /\ begun'[r] = begun[r]
  BY <1>0, <1>8 DEF OtherwiseFree
<1>9. ASSUME NEW s \in Requests,
             \/ NotFound(s) \/ DocumentTaken(s) \/ CreateProducer(s) \/ UpdateProducer(s)
             \/ RenameProducer(s) \/ RevalidateProducer(s) \/ DeleteProducer(s)
             \/ UniqueViolation(s) \/ Abort(s)
      PROVE  Finish(s) \/ (req'[r] = req[r] /\ begun'[r] = begun[r])
  BY <1>9 DEF NotFound, DocumentTaken, CreateProducer, UpdateProducer, RenameProducer,
              RevalidateProducer, DeleteProducer, UniqueViolation, Abort, vars
<1>10. CASE UNCHANGED vars
  BY <1>1, <1>10 DEF vars
<1> QED
  BY <1>1, <1>2, <1>3, <1>4, <1>5, <1>6, <1>7, <1>8, <1>9, <1>10 DEF Next

\* What a step does to the table and to the trails
LEMMA TrailsStep ==
  ASSUME IInv, Trails, [Next]_vars
  PROVE  UNCHANGED <<producers, audit>> \/ StoresNamedRow
<1>1. ASSUME NEW r \in Requests,
             \/ FindProducer(r) \/ NotFound(r) \/ DocumentFree(r) \/ OtherwiseFree(r)
             \/ DocumentTaken(r) \/ Begin(r) \/ UniqueViolation(r) \/ Abort(r)
      PROVE  UNCHANGED <<producers, audit>>
  BY <1>1 DEF FindProducer, NotFound, DocumentFree, OtherwiseFree, DocumentTaken, Begin,
              UniqueViolation, Abort, vars
<1> QED
  BY <1>1, CreateStoresNamed, UpdateStoresNamed, RenameStoresNamed, RevalidateStoresNamed,
     DeleteStoresNamed DEF Next, vars

LEMMA Later ==
  ASSUME NEW t \in Nat, NEW u \in Nat, t <= u
  PROVE  t + 1 \in Nat /\ u + 1 \in Nat /\ t + 1 <= u + 1
OBVIOUS

\* The trails stay as they should be.
LEMMA TrailsKept ==
  ASSUME IInv, Trails, [Next]_vars
  PROVE  Trails'
<1>0. /\ audit \in [Producers -> SUBSET Entry] /\ audit' \in [Producers -> SUBSET Entry]
      /\ producers \in [Producers -> Row \cup {NoRow}]
      /\ NoRow \notin Row
  BY AuditTyped, ProducersAssumption DEF IInv, TypeOK
<1>7. starts \in Nat /\ starts' \in Nat /\ starts <= starts'
  BY AuditTyped, ProducersAssumption DEF IInv, TypeOK
<1>1. /\ \A p \in Producers : audit[p] \subseteq audit'[p]
      /\ \A p \in Producers : Connected(audit'[p]) /\ \A e \in audit'[p] : e.at <= starts
      /\ \A p \in Producers :
           /\ Stored(p)' => /\ Named(audit'[p], producers'[p].status, starts + 1)
                            /\ Warned(producers'[p], audit'[p])
           /\ ~Stored(p)' => audit'[p] = {}
  <2>1. CASE UNCHANGED <<producers, audit>>
    BY <2>1 DEF Trails, RowsNamed, TrailsBegun, Stored
  <2>2. CASE StoresNamedRow
    <3>1. PICK p \in Producers, row \in Row :
            /\ producers' = [producers EXCEPT ![p] = row]
            /\ \A q \in Producers \ {p} : audit'[q] = audit[q]
            /\ audit[p] \subseteq audit'[p]
            /\ Connected(audit'[p]) /\ \A e \in audit'[p] : e.at <= starts
            /\ Named(audit'[p], row.status, starts + 1) /\ Warned(row, audit'[p])
      BY <2>2 DEF StoresNamedRow
    <3>2. producers'[p] = row /\ \A q \in Producers \ {p} : producers'[q] = producers[q]
      BY <1>0, <3>1
    <3>3. row # NoRow
      BY <1>0
    <3> QED
      BY <3>1, <3>2, <3>3 DEF Trails, RowsNamed, TrailsBegun, Stored
  <2> QED
    BY <2>1, <2>2, TrailsStep
<1>2. RowsNamed'
  <2>1. ASSUME NEW p \in Producers, Stored(p)'
        PROVE  Named(audit'[p], producers'[p].status, starts' + 1)
    <3>1. Named(audit'[p], producers'[p].status, starts + 1)
      BY <1>1, <2>1
    <3>2. audit'[p] \in SUBSET Entry
      BY <1>0
    <3>3. starts + 1 \in Nat /\ starts' + 1 \in Nat /\ starts + 1 <= starts' + 1
      BY <1>7, Later
    <3> QED
      BY <3>1, <3>2, <3>3, NamedStays
  <2> QED
    BY <1>1, <2>1 DEF RowsNamed, Named, Warned, FoundPending, Stored
<1>3. RowsHeldNamed'
  <2> SUFFICES ASSUME NEW r \in Requests, Holds(r)'
               PROVE  /\ Named(audit'[req'[r].call.producer], req'[r].row.status, Instant(r)')
                      /\ Warned(req'[r].row, audit'[req'[r].call.producer])
    BY DEF RowsHeldNamed, Named, Warned, FoundPending
  <2> DEFINE p == req'[r].call.producer
             row == req'[r].row
  <2>1. CASE /\ Holds(r) /\ req'[r].call = req[r].call /\ req'[r].row = req[r].row
             /\ Instant(r) <= Instant(r)'
    <3>1. Named(audit[p], row.status, Instant(r)) /\ Warned(row, audit[p])
      BY <2>1 DEF Trails, RowsHeldNamed
    <3>2. p \in Producers
      BY <2>1, HeldTypes DEF Holds, IInv
    <3>3. Instant(r) \in Nat /\ Instant(r)' \in Nat
      <4>1. Instant(r) \in Nat
        BY InstantType DEF IInv
      <4>2. begun'[r] \in Nat
        BY <1>7, AuditTyped
      <4>3. Instant(r)' = IF begun'[r] = 0 THEN starts' + 1 ELSE begun'[r]
        BY DEF Instant
      <4>4. Instant(r)' \in Nat
        BY <1>7, <4>2, <4>3, Later
      <4> QED
        BY <4>1, <4>4
    <3>4. audit[p] \in SUBSET Entry /\ audit'[p] \in SUBSET Entry /\ audit[p] \subseteq audit'[p]
      BY <1>0, <1>1, <3>2
    <3> HIDE DEF p, row
    <3>5. Named(audit'[p], row.status, Instant(r)')
      BY <2>1, <3>1, <3>3, <3>4, NamedStays
    <3>6. Warned(row, audit'[p])
      BY <3>1, <3>4 DEF Warned, FoundPending
    <3> QED
      BY <3>5, <3>6 DEF p, row
  <2>2. CASE /\ Stored(p) /\ p \in Producers /\ row = producers[p]
             /\ UNCHANGED audit /\ Instant(r)' = starts + 1
    BY <2>2 DEF Trails, RowsNamed
  <2> QED
    BY <2>1, <2>2, HeldGoesOn
<1>4. TrailsBegun'
  BY <1>0, <1>1, <1>7 DEF TrailsBegun, Entry
<1>5. NoneBegunIdle'
  <2> SUFFICES ASSUME NEW r \in Requests, req'[r].pc = "idle"
               PROVE  begun'[r] = 0
    BY DEF NoneBegunIdle
  <2>0. /\ begun \in [Requests -> 0..starts]
        /\ req \in [Requests -> {Idle} \cup Found \cup FreeToCreate \cup FreeToUpdate]
    BY DEF IInv, TypeOK
  <2>1. CASE req' = req /\ begun' = begun
    BY <2>1 DEF Trails, NoneBegunIdle
  <2>2. ASSUME NEW s \in Requests, Finish(s)
        PROVE  begun'[r] = 0
    BY <2>0, <2>2 DEF Finish, Trails, NoneBegunIdle
  <2>3. ASSUME NEW s \in Requests, FindProducer(s) \/ DocumentFree(s) \/ OtherwiseFree(s)
        PROVE  begun'[r] = 0
    <3>1. begun' = begun /\ \A q \in Requests \ {s} : req'[q] = req[q]
      BY <2>0, <2>3 DEF FindProducer, DocumentFree, OtherwiseFree
    <3>2. req'[s].pc # "idle"
      <4>1. CASE FindProducer(s)
        BY <2>0, <4>1 DEF FindProducer
      <4>2. CASE DocumentFree(s)
        BY <2>0, <4>2 DEF DocumentFree
      <4>3. CASE OtherwiseFree(s)
        <5>1. req[s] \in Found /\ req' = [req EXCEPT ![s].pc = "free"]
          BY <4>3, HeldTypes DEF IInv, OtherwiseFree
        <5> QED
          BY <2>0, <5>1 DEF Found
      <4> QED
        BY <2>3, <4>1, <4>2, <4>3
    <3> QED
      BY <3>1, <3>2 DEF Trails, NoneBegunIdle
  <2>4. ASSUME NEW s \in Requests, Begin(s)
        PROVE  begun'[r] = 0
    BY <2>0, <2>4 DEF Begin, Audits, Trails, NoneBegunIdle
  <2>5. ASSUME NEW s \in Requests,
               \/ NotFound(s) \/ DocumentTaken(s) \/ CreateProducer(s) \/ UpdateProducer(s)
               \/ RenameProducer(s) \/ RevalidateProducer(s) \/ DeleteProducer(s)
               \/ UniqueViolation(s) \/ Abort(s)
        PROVE  Finish(s) \/ (req' = req /\ begun' = begun)
    BY <2>5 DEF NotFound, DocumentTaken, CreateProducer, UpdateProducer, RenameProducer,
                RevalidateProducer, DeleteProducer, UniqueViolation, Abort, vars
  <2> QED
    BY <2>1, <2>2, <2>3, <2>4, <2>5 DEF Next, vars
<1>6. (\A p \in Producers : Connected(audit[p]))'
  BY <1>1 DEF Connected, Named
<1> QED
  BY <1>2, <1>3, <1>4, <1>5, <1>6 DEF Trails

\* Inductive, with the types
LEMMA TrailsHold == Spec => []Trails
<1>1. Init => Trails
  BY DEF Init, Trails, RowsNamed, RowsHeldNamed, TrailsBegun, NoneBegunIdle, Connected, Stored,
         Holds, Idle
<1>2. IInv /\ Trails /\ [Next]_vars => Trails'
  BY TrailsKept
<1> QED
  BY <1>1, <1>2, IInvHolds, PTL DEF Spec

\* The status of every row has an entry, and every entry but the earliest goes
\* on from an entry with an earlier created_at: what a request read had been
\* committed, and its entry begun, before the request's own transaction began.
THEOREM AuditTrailConnected == Spec => []AuditTrailConnects
<1>1. Trails => AuditTrailConnects
  <2> SUFFICES ASSUME Trails, NEW p \in Producers
               PROVE  /\ Stored(p) => \E e \in audit[p] : e.new = producers[p].status
                      /\ \A e \in audit[p] :
                           (\E f \in audit[p] : f.at < e.at) =>
                             \E f \in audit[p] : f.at < e.at /\ f.new = e.previous
    BY DEF AuditTrailConnects
  <2> QED
    BY DEF Trails, RowsNamed, Connected, Named
<1> QED
  BY <1>1, TrailsHold, PTL

\* No registration and no update makes a producer APPROVED with a pending
\* document: one that is was found pending by a revalidation, whatever stale
\* rows are written back.
THEOREM PendingWarnedCorrect ==
  ASSUME EsgCarEnabled
  PROVE  Spec => []PendingIsWarned
<1>1. Trails => PendingIsWarned
  BY DEF Trails, RowsNamed, Warned, FoundPending, PendingIsWarned
<1> QED
  BY <1>1, TrailsHold, PTL

-----------------------------------------------------------------------------
(* An undisturbed request acts at one instant *)

\* The table as the register sees it
Registry == [p \in Producers |-> ProducerSeen(p)]

\* What a reader sees of a row
Shown(row) ==
  [live |-> row.live, document |-> row.document, status |-> row.status, esg |-> row.esg]

\* What an update changes of what is shown
ShownWith(row, document, status, esg) ==
  [Shown(row) EXCEPT !.document = document, !.status = status, !.esg = esg]

LEMMA ShownChanged ==
  ASSUME NEW row, NEW document, NEW status, NEW esg
  PROVE  ShownWith(row, document, status, esg)
           = [live |-> row.live, document |-> document, status |-> status, esg |-> esg]
<1> DEFINE a == Shown(row)
           b == [a EXCEPT !.document = document]
           c == [b EXCEPT !.status = status]
           all == [c EXCEPT !.esg = esg]
<1>1. all = ShownWith(row, document, status, esg)
  BY DEF ShownWith
<1>2. a = [live |-> row.live, document |-> row.document, status |-> row.status,
           esg |-> row.esg]
  BY DEF Shown
<1> HIDE DEF a
<1>3. b = [live |-> row.live, document |-> document, status |-> row.status, esg |-> row.esg]
  BY <1>2
<1> HIDE DEF b
<1>4. c = [live |-> row.live, document |-> document, status |-> status, esg |-> row.esg]
  BY <1>3
<1> HIDE DEF c
<1>5. all = [live |-> row.live, document |-> document, status |-> status, esg |-> esg]
  BY <1>4
<1> HIDE DEF all
<1> QED
  BY <1>1, <1>5

LEMMA ShownType == ASSUME NEW row \in Row PROVE Shown(row) \in Producer
BY DEF Shown, Row, Producer

\* A stored producer is shown, and has a row in the register.
LEMMA SeenIsShown ==
  ASSUME TypeOK, NEW p \in Producers
  PROVE  /\ Stored(p) => /\ Registry[p] = Shown(producers[p])
                         /\ Registry[p] \in Producer /\ Registry[p] # NoRow
         /\ ~Stored(p) => Registry[p] = NoRow
         /\ Live(p) <=> Registry[p] # NoRow /\ Registry[p].live
<1>1. Stored(p) => Shown(producers[p]) \in Producer
  BY ShownType DEF TypeOK, Stored
<1>2. Stored(p) => Registry[p] = Shown(producers[p])
  BY DEF Registry, ProducerSeen, Shown, Stored
<1>3. ~Stored(p) => Registry[p] = NoRow
  BY DEF Registry, ProducerSeen, Stored
<1>4. Stored(p) => Registry[p].live = producers[p].live
  BY <1>2 DEF Shown
<1> QED
  BY <1>1, <1>2, <1>3, <1>4, ProducersAssumption DEF Live

\* One row written is one producer changed.
LEMMA RegistryStep ==
  ASSUME TypeOK, NEW p \in Producers, NEW row \in Row,
         producers' = [producers EXCEPT ![p] = row]
  PROVE  Registry' = [Registry EXCEPT ![p] = Shown(row)]
<1>1. row # NoRow
  BY ProducersAssumption
<1>2. \A q \in Producers :
        producers'[q] = IF q = p THEN row ELSE producers[q]
  BY DEF TypeOK
<1>3. Registry' = [q \in Producers |-> IF q = p THEN Shown(row) ELSE Registry[q]]
  BY <1>1, <1>2 DEF Registry, ProducerSeen, Shown
<1> QED
  BY <1>3 DEF Registry

\* The index compares hashes, the register documents.
LEMMA IndexIsGuard ==
  ASSUME IInv, NEW p \in Producers, NEW d \in Documents, IndexAllows(p, d)
  PROVE  Register!FreeFor(p, d)
<1>1. SUFFICES ASSUME NEW q \in Producers \ {p}, Live(q)
               PROVE  Registry[q].document # d
  BY SeenIsShown DEF IInv, Register!FreeFor, Register!Live, Registry
<1>2. Registry[q].document = producers[q].document
  <2>1. Registry[q] = Shown(producers[q])
    BY <1>1, SeenIsShown DEF IInv, Live
  <2> QED
    BY <2>1 DEF Shown
<1>3. producers[q].documentHash = producers[q].document
  BY <1>1 DEF IInv, RowsSound, Sound, Live
<1> QED
  BY <1>1, <1>2, <1>3 DEF IndexAllows, HoldersOf

\* An entry later than the others is what the register records.
LEMMA AppendIsRecord ==
  ASSUME TypeOK, NEW r, NEW p, NEW previous, NEW new, NEW trigger,
         Appends(r, p, previous, new, trigger), \A e \in audit[p] : e.at < begun[r]
  PROVE  Register!Record(p, previous, new, trigger)
<1>1. begun[r] \in 1..MaxStarts
  <2>1. begun[r] \in 1..starts
    BY Appended
  <2> QED
    BY <2>1, ProducersAssumption DEF TypeOK
<1>2. audit' = [audit EXCEPT ![p] = @ \cup
        {[previous |-> previous, new |-> new, trigger |-> trigger, at |-> begun[r]]}]
  BY DEF Appends, Append
<1> QED
  BY <1>1, <1>2 DEF Register!Record

\* A new producer: the index lets it in, and so does the guard.
LEMMA CreateIsCreate ==
  ASSUME IInv, Trails, NEW r \in Requests, CreateProducer(r)
  PROVE  Register!Next
<1> DEFINE d == req[r].call.document
<1>1. PICK p \in Producers, status \in StrictLookup(d) :
        /\ ~Stored(p)
        /\ IndexAllows(p, d)
        /\ producers' = [producers EXCEPT ![p] = NewRow(d, status)]
        /\ Appends(r, p, "VALIDATED", status, "write")
  BY CreateAppends
<1>2. d \in Documents
  BY HeldTypes DEF CreateProducer, IInv
<1>9. Register!Record(p, "VALIDATED", status, "write")
  <2>1. audit[p] = {}
    BY <1>1 DEF Trails, RowsNamed
  <2> QED
    BY <1>1, <2>1, AppendIsRecord DEF IInv
<1> HIDE DEF d
<1>3. NewRow(d, status) \in Row
  BY <1>2, LookupFits DEF NewRow, Row, EsgAtCreation, EsgStatuses
<1>4. Shown(NewRow(d, status)) =
        [live |-> TRUE, document |-> d, status |-> status, esg |-> EsgAtCreation(status)]
  BY DEF Shown, NewRow
<1>5. Registry' = [Registry EXCEPT ![p] = Shown(NewRow(d, status))]
  BY <1>1, <1>3, RegistryStep DEF IInv
<1>6. Registry[p] = NoRow
  BY <1>1, SeenIsShown DEF IInv
<1>7. Register!FreeFor(p, d)
  BY <1>1, <1>2, IndexIsGuard
<1>8. Register!Create(p)
  BY <1>1, <1>2, <1>4, <1>5, <1>6, <1>7, <1>9
     DEF Register!Create, Registry,
         Register!EsgAtCreation, EsgAtCreation, Register!StrictLookup, StrictLookup,
         Register!Lookup, Lookup, Register!Verdict, Verdict
<1> QED
  BY <1>8 DEF Register!Next

\* What an undisturbed request has read is what the register holds.
LEMMA HeldIsSeen ==
  ASSUME IInv, NEW r \in Requests, Holds(r), Undisturbed(r)
  PROVE  LET p == req[r].call.producer
         IN  /\ p \in Producers /\ req[r].row \in Row
             /\ producers[p] = req[r].row /\ req[r].row.live
             /\ Registry[p] = Shown(req[r].row)
             /\ Register!Live(p)
             /\ begun[r] # 0 => \A e \in audit[p] : e.at < begun[r]
<1> DEFINE p == req[r].call.producer
<1>1. p \in Producers /\ req[r].row \in Row /\ req[r] \in Found \cup FreeToUpdate
  BY HeldTypes DEF IInv, Holds
<1>2. "row" \in DOMAIN req[r]
  BY <1>1 DEF Found, FreeToUpdate
<1>3. /\ producers[p] = req[r].row
      /\ begun[r] # 0 => \A e \in audit[p] : e.at < begun[r]
  BY <1>2 DEF Undisturbed
<1>4. req[r].row.live /\ Stored(p)
  BY DEF IInv, HeldRowsSound
<1>5. Live(p)
  BY <1>3, <1>4 DEF Live
<1>6. Registry[p] = Shown(producers[p]) /\ Registry[p] # NoRow /\ Registry[p].live
  BY <1>1, <1>4, <1>5, SeenIsShown DEF IInv
<1> QED
  BY <1>1, <1>3, <1>4, <1>6 DEF Register!Live, Registry

LEMMA UpdateIsUpdate ==
  ASSUME IInv, NEW r \in Requests, UpdateProducer(r), Undisturbed(r)
  PROVE  Register!Next
<1> DEFINE p == req[r].call.producer
           d == req[r].call.document
           row == req[r].row
           new(s) == UpdatedRow(req[r], s)
<1>1. /\ p \in Producers /\ row \in Row /\ Registry[p] = Shown(row) /\ Register!Live(p)
      /\ \A e \in audit[p] : e.at < begun[r]
  BY HeldIsSeen DEF UpdateProducer, Holds
<1>2. d \in Documents
  BY HeldTypes DEF UpdateProducer, IInv
<1>3. PICK status \in StrictLookup(d) :
        /\ IndexAllows(p, d)
        /\ producers' = [producers EXCEPT ![p] = new(status)]
        /\ Appends(r, p, row.status, status, "write")
  BY UpdateAppends
<1>4. status \in Statuses
  BY <1>2, LookupFits
<1>5. new(status) = [row EXCEPT !.document = d, !.documentHash = d, !.status = status,
                                !.esg = EsgAfterUpdate(row.esg, status)]
  BY <1>1 DEF UpdatedRow, Row
<1> HIDE DEF p, d, row, new
<1>6. /\ new(status) \in Row
      /\ new(status).live = row.live /\ new(status).document = d
      /\ new(status).status = status /\ new(status).esg = EsgAfterUpdate(row.esg, status)
  BY <1>1, <1>2, <1>4, <1>5 DEF Row, EsgAfterUpdate, EsgStatuses
<1>7. Registry' = [Registry EXCEPT ![p] = Shown(new(status))]
  BY <1>1, <1>3, <1>6, RegistryStep DEF IInv
<1>8. Shown(new(status)) = [Shown(row) EXCEPT !.document = d, !.status = status,
                                              !.esg = EsgAfterUpdate(Shown(row).esg, status)]
  <2> DEFINE esg == EsgAfterUpdate(row.esg, status)
  <2>1. /\ new(status).live = row.live /\ new(status).document = d
        /\ new(status).status = status /\ new(status).esg = esg
    BY <1>6
  <2>2. esg = EsgAfterUpdate(Shown(row).esg, status)
    BY DEF Shown
  <2> HIDE DEF esg
  <2>3. Shown(new(status)) = ShownWith(row, d, status, esg)
    <3>1. Shown(new(status)) = [live |-> row.live, document |-> d, status |-> status,
                                esg |-> esg]
      BY <2>1 DEF Shown
    <3> QED
      BY <3>1, ShownChanged
  <2> QED
    BY <2>2, <2>3 DEF ShownWith
<1>9. Register!FreeFor(p, d)
  BY <1>1, <1>2, <1>3, IndexIsGuard
<1>10. Shown(row).status = row.status
  BY DEF Shown
<1>11. Register!Update(p)
  <2>1. status \in Register!StrictLookup(d)
    BY <1>3 DEF Register!StrictLookup, StrictLookup, Register!Lookup, Lookup,
                Register!Verdict, Verdict
  <2>2. Registry' = [Registry EXCEPT ![p] =
          [Registry[p] EXCEPT !.document = d, !.status = status,
                              !.esg = Register!EsgAfterUpdate(@, status)]]
    <3>1. \A esg : Register!EsgAfterUpdate(esg, status) = EsgAfterUpdate(esg, status)
      BY DEF Register!EsgAfterUpdate, EsgAfterUpdate
    <3> QED
      BY <1>1, <1>7, <1>8, <3>1
  <2>3. Register!Record(p, Registry[p].status, status, "write")
    BY <1>1, <1>3, <1>10, AppendIsRecord DEF IInv
  <2> QED
    BY <1>1, <1>2, <1>9, <2>1, <2>2, <2>3 DEF Register!Update, Registry
<1> QED
  BY <1>1, <1>11 DEF Register!Next

LEMMA RevalidateIsRevalidate ==
  ASSUME IInv, NEW r \in Requests, RevalidateProducer(r), Undisturbed(r)
  PROVE  Register!Next
<1> DEFINE p == req[r].call.producer
           row == req[r].row
           new(s) == RevalidatedRow(req[r], s)
<1>1. /\ p \in Producers /\ row \in Row /\ Registry[p] = Shown(row) /\ Register!Live(p)
      /\ \A e \in audit[p] : e.at < begun[r]
  BY HeldIsSeen DEF RevalidateProducer, Holds
<1>2. PICK status \in Lookup(row.document) :
        /\ producers' = [producers EXCEPT ![p] = new(status)]
        /\ IF row.document \in Cnpjs \/ row.status # "VALIDATED"
           THEN Appends(r, p, row.status, status, "job")
           ELSE UNCHANGED audit
  BY RevalidateAppends
<1>3. new(status) = [row EXCEPT !.status = status]
  BY DEF RevalidatedRow
<1> HIDE DEF p, row, new
<1>4. status \in Statuses
  BY <1>1, <1>2, LookupFits DEF Row
<1>5. /\ new(status) \in Row
      /\ new(status).live = row.live /\ new(status).document = row.document
      /\ new(status).status = status /\ new(status).esg = row.esg
  BY <1>1, <1>3, <1>4 DEF Row
<1>6. Registry' = [Registry EXCEPT ![p] = Shown(new(status))]
  BY <1>1, <1>2, <1>5, RegistryStep DEF IInv
<1>7. Shown(new(status)) = [Shown(row) EXCEPT !.status = status]
  BY <1>5 DEF Shown
<1>8. Shown(row).status = row.status /\ Shown(row).document = row.document
  BY DEF Shown
<1>9. Register!Revalidate(p)
  <2>1. status \in Register!Lookup(Registry[p].document)
    BY <1>1, <1>2, <1>8 DEF Register!Lookup, Lookup, Register!Verdict, Verdict
  <2>2. Registry' = [Registry EXCEPT ![p].status = status]
    BY <1>1, <1>6, <1>7 DEF Registry
  <2>3. IF Registry[p].document \in Cnpjs \/ Registry[p].status # "VALIDATED"
        THEN Register!Record(p, Registry[p].status, status, "job")
        ELSE UNCHANGED audit
    BY <1>1, <1>2, <1>8, AppendIsRecord DEF IInv
  <2> QED
    BY <1>1, <2>1, <2>2, <2>3 DEF Register!Revalidate, Registry
<1> QED
  BY <1>1, <1>9 DEF Register!Next

LEMMA DeleteIsDelete ==
  ASSUME IInv, NEW r \in Requests, DeleteProducer(r), Undisturbed(r)
  PROVE  Register!Next
<1> DEFINE p == req[r].call.producer
           row == req[r].row
<1>1. /\ p \in Producers /\ row \in Row /\ producers[p] = row
      /\ Registry[p] = Shown(row) /\ Register!Live(p)
  BY HeldIsSeen DEF DeleteProducer, Holds
<1>2. producers' = [producers EXCEPT ![p] = Deleted(row)] /\ UNCHANGED audit
  BY <1>1 DEF DeleteProducer, IInv, TypeOK
<1>3. /\ Deleted(row) \in Row /\ Deleted(row).live = FALSE
      /\ Deleted(row).document = row.document /\ Deleted(row).status = row.status
      /\ Deleted(row).esg = row.esg
  BY <1>1 DEF Deleted, Row
<1>4. Registry' = [Registry EXCEPT ![p] = Shown(Deleted(row))]
  BY <1>1, <1>2, <1>3, RegistryStep DEF IInv
<1> HIDE DEF p, row
<1>5. Shown(Deleted(row)) = [Shown(row) EXCEPT !.live = FALSE]
  <2> DEFINE no == FALSE
  <2>1. /\ Deleted(row).live = no
        /\ Deleted(row).document = row.document /\ Deleted(row).status = row.status
        /\ Deleted(row).esg = row.esg
    BY <1>3
  <2> HIDE DEF no
  <2>2. Shown(Deleted(row)) = [Shown(row) EXCEPT !.live = no]
    BY <2>1 DEF Shown
  <2> QED
    BY <2>2 DEF no
<1>6. Register!Delete(p)
  <2>1. Registry' = [Registry EXCEPT ![p].live = FALSE]
    BY <1>1, <1>4, <1>5 DEF Registry
  <2> QED
    BY <1>1, <1>2, <2>1 DEF Register!Delete, Registry
<1> QED
  BY <1>1, <1>6 DEF Register!Next

\* A rename shows nothing: the name is not part of what is compared.
LEMMA RenameShowsNothing ==
  ASSUME IInv, NEW r \in Requests, RenameProducer(r), Undisturbed(r)
  PROVE  UNCHANGED <<Registry, audit>>
<1> DEFINE p == req[r].call.producer
           row == req[r].row
<1>1. /\ p \in Producers /\ row \in Row /\ Registry[p] = Shown(row)
  BY HeldIsSeen DEF RenameProducer, Holds
<1>2. producers' = [producers EXCEPT ![p] = row] /\ UNCHANGED audit
  BY DEF RenameProducer
<1>3. Registry' = [Registry EXCEPT ![p] = Shown(row)]
  BY <1>1, <1>2, RegistryStep DEF IInv
<1> HIDE DEF p, row
<1> QED
  BY <1>1, <1>2, <1>3 DEF Registry

\* A request ends in a step of its own.
LEMMA EndsByItself ==
  ASSUME TypeOK, [Next]_vars, NEW r \in Requests, Ends(r)
  PROVE  \/ CreateProducer(r) \/ UpdateProducer(r) \/ RenameProducer(r)
         \/ RevalidateProducer(r) \/ DeleteProducer(r)
         \/ UNCHANGED <<producers, audit>>
<1>1. CASE UNCHANGED vars
  BY <1>1 DEF vars
<1>2. ASSUME NEW s \in Requests,
             \/ FindProducer(s) \/ NotFound(s) \/ DocumentFree(s) \/ OtherwiseFree(s)
             \/ DocumentTaken(s) \/ Begin(s) \/ UniqueViolation(s) \/ Abort(s)
      PROVE  UNCHANGED <<producers, audit>>
  BY <1>2 DEF FindProducer, NotFound, DocumentFree, OtherwiseFree, DocumentTaken,
              Begin, UniqueViolation, Abort, vars
<1>3. ASSUME NEW s \in Requests, Finish(s)
      PROVE  s = r
  <2>1. \A q \in Requests \ {s} : req'[q] = req[q]
    BY <1>3 DEF Finish, TypeOK
  <2> QED
    BY <2>1 DEF Ends
<1>4. ASSUME NEW s \in Requests,
             \/ CreateProducer(s) \/ UpdateProducer(s) \/ RenameProducer(s)
             \/ RevalidateProducer(s) \/ DeleteProducer(s)
      PROVE  s = r
  <2>1. Finish(s)
    BY <1>4 DEF CreateProducer, UpdateProducer, RenameProducer, RevalidateProducer,
                DeleteProducer
  <2> QED
    BY <1>3, <2>1
<1> QED
  BY <1>1, <1>2, <1>4 DEF Next

\* A request whose producer nobody wrote in between does in its last step what
\* its endpoint does at one instant, whoever else registers documents: its
\* checks before the call to BrasilAPI and the index at its write do together
\* what the register does with one guard.
THEOREM ProducersActAtOnce == Spec => UndisturbedActsAtOnce
<1>1. ASSUME IInv, Trails, [Next]_vars, NEW r \in Requests, Ends(r), Undisturbed(r)
      PROVE  Register!Next \/ UNCHANGED <<Registry, audit>>
  <2>1. CASE UNCHANGED <<producers, audit>>
    BY <2>1 DEF Registry, ProducerSeen
  <2> QED
    BY <1>1, <2>1, EndsByItself, CreateIsCreate, UpdateIsUpdate, RenameShowsNothing,
       RevalidateIsRevalidate, DeleteIsDelete DEF IInv
<1>2. IInv /\ Trails /\ [Next]_vars =>
        [(\E r \in Requests : Ends(r) /\ Undisturbed(r)) => Register!Next
          ]_<<[p \in Producers |-> ProducerSeen(p)], audit>>
  BY <1>1 DEF Registry
<1> QED
  BY <1>2, IInvHolds, TrailsHold, PTL DEF Spec, UndisturbedActsAtOnce

=============================================================================
