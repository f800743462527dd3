---------------------------- MODULE ProducerRows ----------------------------
(***************************************************************************)
(* The producers table and the producer entries of                         *)
(* external_validation_audit under concurrent HTTP requests and job ticks. *)
(*                                                                         *)
(* A use case reads in autocommitted statements (findById,                 *)
(* findByDocumentHash), waits for BrasilAPI and writes the whole row in    *)
(* one transaction, WHERE id alone: producers have no optimistic lock, and *)
(* the partial unique index on document_hash is all that keeps two         *)
(* requests apart.  A transaction that appends an audit entry is two       *)
(* steps: it begins, which is the created_at of its entry, and it writes   *)
(* and commits, one step for others since they wait for its row lock.      *)
(* Other transactions and statements are one step each.                    *)
(***************************************************************************)
EXTENDS ProducerDomain, Naturals

CONSTANTS
  Producers,         \* producer ids; an unused one is a uuid not yet drawn
  Requests,          \* concurrent executions of use cases
  Endpoints,         \* the operations a run exercises
  Anonymised,        \* the document_hash 'del:<id>'
  NoRow,             \* no producers row
  MaxStarts          \* bound: transactions that audit

VARIABLES
  producers, \* producer -> producers row
  audit,     \* producer -> its audit entries
  req,       \* request -> how far its use case is and what it has read
  begun,     \* request -> now() of its transaction, 0 without one
  starts     \* transactions begun so far: the clock

vars == <<producers, audit, req, begun, starts>>

Row ==
  [live : BOOLEAN, document : Documents, documentHash : Documents \cup {Anonymised},
   status : Statuses, esg : EsgStatuses]

\* A producer as a reader of the table sees it
Producer == [live : BOOLEAN, document : Documents, status : Statuses, esg : EsgStatuses]

\* trigger job stands for admin too.
Entry ==
  [previous : Statuses, new : Statuses, trigger : {"write", "job"}, at : 1..MaxStarts]

ASSUME ProducersAssumption ==
  /\ Endpoints \subseteq {"create", "update", "rename", "revalidate", "delete"}
  /\ Anonymised \notin Documents
  /\ NoRow \notin Row \cup Producer
  /\ MaxStarts \in Nat

\* POST /producers and PUT /producers/:id with a document
CreateCalls == [op : {"create"} \cap Endpoints, document : Documents]
UpdateCalls ==
  [op : {"update"} \cap Endpoints, producer : Producers, document : Documents]

\* PUT /producers/:id without a document, revalidation and DELETE
OtherCalls ==
  [op : {"rename", "revalidate", "delete"} \cap Endpoints, producer : Producers]

Idle == [pc |-> "idle"]
Found == [pc : {"found"}, call : UpdateCalls \cup OtherCalls, row : Row]
FreeToCreate == [pc : {"free"}, call : CreateCalls]
FreeToUpdate == [pc : {"free"}, call : UpdateCalls, row : Row]

TypeOK ==
  /\ producers \in [Producers -> Row \cup {NoRow}]
  /\ audit \in [Producers -> SUBSET Entry]
  /\ starts \in 0..MaxStarts
  /\ begun \in [Requests -> 0..starts]
  /\ req \in [Requests -> {Idle} \cup Found \cup FreeToCreate \cup FreeToUpdate]

Init ==
  /\ producers = [p \in Producers |-> NoRow]
  /\ audit = [p \in Producers |-> {}]
  /\ req = [r \in Requests |-> Idle]
  /\ begun = [r \in Requests |-> 0]
  /\ starts = 0

-----------------------------------------------------------------------------
Stored(p) == producers[p] # NoRow
Live(p) == Stored(p) /\ producers[p].live

\* findByDocumentHash: the live producers with the hash of d
HoldersOf(d) == {p \in Producers : Live(p) /\ producers[p].documentHash = d}

\* Variant of IndexAllows: the index is missing.
IndexMissing(p, d) == TRUE

\* producers_document_hash_active_uidx lets p have the hash of d.
IndexAllows(p, d) == HoldersOf(d) \subseteq {p}

Finish(r) ==
  /\ req' = [req EXCEPT ![r] = Idle]
  /\ begun' = [begun EXCEPT ![r] = 0]
  /\ UNCHANGED starts

\* findById: the row, if it is not deleted
FindProducer(r) ==
  /\ req[r].pc = "idle"
  /\ \E call \in UpdateCalls \cup OtherCalls :
       /\ Live(call.producer)
       /\ req' = [req EXCEPT ![r] =
            [pc |-> "found", call |-> call, row |-> producers[call.producer]]]
  /\ UNCHANGED <<producers, audit, begun, starts>>

\* NotFoundException (HTTP 404)
NotFound(r) ==
  /\ req[r].pc = "idle"
  /\ \E call \in UpdateCalls \cup OtherCalls : ~Live(call.producer)
  /\ UNCHANGED vars

\* The check of CreateProducerUseCase passes.
DocumentFree(r) ==
  /\ req[r].pc = "idle"
  /\ \E call \in CreateCalls :
       /\ HoldersOf(call.document) = {}
       /\ req' = [req EXCEPT ![r] = [pc |-> "free", call |-> call]]
  /\ UNCHANGED <<producers, audit, begun, starts>>

\* The check of UpdateProducerUseCase passes: nobody else has the document.
OtherwiseFree(r) ==
  /\ req[r].pc = "found"
  /\ req[r].call.op = "update"
  /\ HoldersOf(req[r].call.document) \subseteq {req[r].call.producer}
  /\ req' = [req EXCEPT ![r].pc = "free"]
  /\ UNCHANGED <<producers, audit, begun, starts>>

\* ConflictException of either check (HTTP 409)
DocumentTaken(r) ==
  \/ /\ req[r].pc = "idle"
     /\ \E call \in CreateCalls : HoldersOf(call.document) # {}
     /\ UNCHANGED vars
  \/ /\ req[r].pc = "found"
     /\ req[r].call.op = "update"
     /\ ~(HoldersOf(req[r].call.document) \subseteq {req[r].call.producer})
     /\ Finish(r)
     /\ UNCHANGED <<producers, audit>>

-----------------------------------------------------------------------------
\* Requests whose transaction appends an audit entry: they have a verdict.
Audits(q) == q.pc = "free" \/ (q.pc = "found" /\ q.call.op = "revalidate")

\* BEGIN: defaultNow() of what the transaction inserts is this moment.
Begin(r) ==
  /\ Audits(req[r]) /\ begun[r] = 0 /\ starts < MaxStarts
  /\ starts' = starts + 1
  /\ begun' = [begun EXCEPT ![r] = starts + 1]
  /\ UNCHANGED <<producers, audit, req>>

\* ExternalValidationAuditPort.append, in the transaction of r
Append(r, p, previous, new, trigger) ==
  audit' = [audit EXCEPT ![p] = @ \cup
    {[previous |-> previous, new |-> new, trigger |-> trigger, at |-> begun[r]]}]

\* The row of a new producer
NewRow(d, status) ==
  [live |-> TRUE, document |-> d, documentHash |-> d, status |-> status,
   esg |-> EsgAtCreation(status)]

\* CreateProducerUseCase after its check: lookup, insert and audit
CreateProducer(r) ==
  /\ req[r].pc = "free" /\ begun[r] # 0
  /\ req[r].call.op = "create"
  /\ LET d == req[r].call.document
     IN  \E p \in Producers, status \in StrictLookup(d) :
           /\ ~Stored(p)
           /\ IndexAllows(p, d)
           /\ producers' = [producers EXCEPT ![p] = NewRow(d, status)]
           /\ Append(r, p, "VALIDATED", status, "write")
  /\ Finish(r)

\* Variant of UpdatedRow: a pending document leaves APPROVED alone.
UpdatedRowStillApproved(q, status) ==
  [q.row EXCEPT !.document = q.call.document, !.documentHash = q.call.document,
                !.status = status]

\* The row as an update with a document leaves it
UpdatedRow(q, status) ==
  [q.row EXCEPT !.document = q.call.document, !.documentHash = q.call.document,
                !.status = status, !.esg = EsgAfterUpdate(@, status)]

\* Variant of UpdateLookup: the document read is looked up, not the new one.
LookupOfStoredDocument(q) == StrictLookup(q.row.document)

UpdateLookup(q) == StrictLookup(q.call.document)

\* UpdateProducerUseCase with a document, after its check
UpdateProducer(r) ==
  LET q == req[r]
      p == q.call.producer
  IN  /\ q.pc = "free" /\ begun[r] # 0
      /\ q.call.op = "update"
      /\ IndexAllows(p, q.call.document)
      /\ \E status \in UpdateLookup(q) :
           /\ producers' = [producers EXCEPT ![p] = UpdatedRow(q, status)]
           /\ Append(r, p, q.row.status, status, "write")
      /\ Finish(r)

\* UpdateProducerUseCase without a document: the row as read, no audit entry
RenameProducer(r) ==
  LET q == req[r]
      p == q.call.producer
  IN  /\ q.pc = "found"
      /\ q.call.op = "rename"
      /\ IndexAllows(p, q.row.document)
      /\ producers' = [producers EXCEPT ![p] = q.row]
      /\ Finish(r)
      /\ UNCHANGED audit

\* Variant of RevalidatedRow: only the status columns are written.
RevalidatedStatusOnly(q, status) ==
  [producers[q.call.producer] EXCEPT !.status = status]

\* The whole row as read, with the new status
RevalidatedRow(q, status) == [q.row EXCEPT !.status = status]

\* Variant of AuditsRevalidation: the condition of a CPF for every document.
AuditsUnvalidated(row) == row.status # "VALIDATED"

\* A CNPJ is always audited, a CPF only when its status was not VALIDATED.
AuditsRevalidation(row) == row.document \in Cnpjs \/ row.status # "VALIDATED"

\* RevalidateProducerDocumentUseCase (job and admin endpoint)
RevalidateProducer(r) ==
  LET q == req[r]
      p == q.call.producer
  IN  /\ q.pc = "found" /\ begun[r] # 0
      /\ q.call.op = "revalidate"
      /\ IndexAllows(p, q.row.document)
      /\ \E status \in Lookup(q.row.document) :
           /\ producers' = [producers EXCEPT ![p] = RevalidatedRow(q, status)]
           /\ IF AuditsRevalidation(q.row) THEN Append(r, p, q.row.status, status, "job")
              ELSE UNCHANGED audit
      /\ Finish(r)

\* Variant of Deleted: the hash is kept.
DeletedWithHash(row) == [row EXCEPT !.live = FALSE]

\* Variant of Deleted: the hash is set to NULL, which the column refuses.
DeletedWithNullHash(row) == [row EXCEPT !.live = FALSE, !.documentHash = NoRow]

\* The columns softDelete sets
Deleted(row) == [row EXCEPT !.live = FALSE, !.documentHash = Anonymised]

\* DeleteProducerUseCase; FarmRows has the farms it deletes with the producer.
DeleteProducer(r) ==
  /\ req[r].pc = "found"
  /\ req[r].call.op = "delete"
  /\ producers' = [producers EXCEPT ![req[r].call.producer] = Deleted(@)]
  /\ Finish(r)
  /\ UNCHANGED audit

\* The document the request is about to store
Storing(q) ==
  IF q.call.op \in {"create", "update"} THEN q.call.document ELSE q.row.document

\* 23505 on document_hash: the transaction rolls back (HTTP 409).
UniqueViolation(r) ==
  LET q == req[r]
  IN  /\ begun[r] # 0 \/ (q.pc = "found" /\ q.call.op = "rename")
      /\ HoldersOf(Storing(q)) \ (IF q.call.op = "create" THEN {}
                                  ELSE {q.call.producer}) # {}
      /\ Finish(r)
      /\ UNCHANGED <<producers, audit>>

\* An inactive CNPJ, an exception, a rolled-back transaction or a crash of the
\* process: nothing was written.
Abort(r) ==
  /\ req[r].pc # "idle"
  /\ Finish(r)
  /\ UNCHANGED <<producers, audit>>

Next ==
  \E r \in Requests :
    \/ FindProducer(r) \/ NotFound(r)
    \/ DocumentFree(r) \/ OtherwiseFree(r) \/ DocumentTaken(r) \/ Begin(r)
    \/ CreateProducer(r) \/ UpdateProducer(r) \/ RenameProducer(r)
    \/ RevalidateProducer(r) \/ DeleteProducer(r)
    \/ UniqueViolation(r) \/ Abort(r)

Spec == Init /\ [][Next]_vars

-----------------------------------------------------------------------------
\* No two live producers have one document, although the check and the insert
\* are two statements with a call to BrasilAPI in between, and although a stale
\* write may bring back a document that was released.
UniqueDocuments ==
  \A p, q \in Producers :
    Live(p) /\ Live(q) /\ producers[p].document = producers[q].document => p = q

\* The search index follows the row: a live producer is found by its document,
\* a deleted one by none (softDelete anonymises document_hash).
HashFollowsRow ==
  \A p \in Producers : Stored(p) =>
    producers[p].documentHash =
      IF producers[p].live THEN producers[p].document ELSE Anonymised

\* A verdict is never stored with a document it was not obtained for: a CPF is
\* VALIDATED, a CNPJ is VALIDATED only if it is active, REJECTED only if not.
DocumentStatusFits ==
  \A p \in Producers :
    Stored(p) => Fits(producers[p].status, producers[p].document)

\* The audit trail explains the table: the status of a row is the new status of
\* one of its entries, and every entry but the earliest has as its previous
\* status the new one of an entry with an earlier created_at.  Stale writes may
\* give a row back a status that is not the newest entry's.
AuditTrailConnects ==
  \A p \in Producers :
    /\ Stored(p) => \E e \in audit[p] : e.new = producers[p].status
    /\ \A e \in audit[p] :
         (\E f \in audit[p] : f.at < e.at) =>
           \E f \in audit[p] : f.at < e.at /\ f.new = e.previous

\* With ESG_CAR_ENABLED, no registration or update makes a producer APPROVED
\* with a pending document: one that is was found pending by a revalidation,
\* which leaves the ESG status alone, and is on record.
PendingIsWarned ==
  \A p \in Producers :
    Stored(p) /\ producers[p].status = "PENDING" /\ producers[p].esg = "APPROVED"
      => \E e \in audit[p] : e.trigger = "job" /\ e.new = "PENDING"

\* A deleted producer never comes back (softDelete, findById).
ProducerStaysDeleted ==
  [][\A p \in Producers : Stored(p) /\ ~Live(p) => ~Live(p)']_vars

-----------------------------------------------------------------------------
(* What the register promises, and when the table keeps it *)

\* The producer a reader of the table sees: its row without name and hash
ProducerSeen(p) ==
  IF producers[p] = NoRow THEN NoRow
  ELSE [live |-> producers[p].live, document |-> producers[p].document,
        status |-> producers[p].status, esg |-> producers[p].esg]

Register == INSTANCE ProducerRegister
              WITH registry <- [p \in Producers |-> ProducerSeen(p)],
                   NoProducer <- NoRow, Times <- 1..MaxStarts

Ends(r) == req[r].pc # "idle" /\ req'[r].pc = "idle"

\* What the request has read is still in the table, and nobody whose transaction
\* began later has written an entry.
Undisturbed(r) ==
  "row" \in DOMAIN req[r] =>
    LET p == req[r].call.producer
    IN  /\ producers[p] = req[r].row
        /\ begun[r] # 0 => \A e \in audit[p] : e.at < begun[r]

\* Whatever the table has come to, a request whose producer nobody wrote in
\* between does in its last step what its endpoint does at one instant: the
\* checks before the call to BrasilAPI and the index at the write do together
\* what the register does with one guard, whoever else registers documents.
UndisturbedActsAtOnce ==
  [][(\E r \in Requests : Ends(r) /\ Undisturbed(r)) => Register!Next
    ]_<<[p \in Producers |-> ProducerSeen(p)], audit>>
=============================================================================
