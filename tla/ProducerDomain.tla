--------------------------- MODULE ProducerDomain ---------------------------
(***************************************************************************)
(* What one request does to a producer it holds in memory: the Producer    *)
(* entity, resolveCnpjDocumentValidation and the ESG rules of the producer *)
(* use cases.                                                              *)
(*                                                                         *)
(* A valid CPF or CNPJ is an element of Documents.  The blind index is     *)
(* injective and encryption is lossless here, so document_hash is the      *)
(* document itself.  Names, pending_at and pending_reason are left out.    *)
(***************************************************************************)
CONSTANTS
  Documents,         \* digits of valid CPFs and CNPJs
  Cnpjs,             \* the CNPJs among them
  ActiveCnpjs,       \* CNPJs whose situacao_cadastral is ATIVA
  EsgCarEnabled      \* ESG_CAR_ENABLED

ASSUME DocumentsAssumption ==
  /\ Cnpjs \subseteq Documents
  /\ ActiveCnpjs \subseteq Cnpjs
  /\ EsgCarEnabled \in BOOLEAN

\* document_validation_status
Statuses == {"VALIDATED", "PENDING", "REJECTED"}

\* esg_status as far as it is produced: the local check finds no restriction,
\* so nobody is BLOCKED.
EsgStatuses == {"APPROVED", "WARNING"}

\* The verdict of a truthful BrasilAPI; a CPF is checked locally.
Verdict(d) == IF d \in Cnpjs \ ActiveCnpjs THEN "REJECTED" ELSE "VALIDATED"

\* resolveCnpjDocumentValidation, mode revalidate: the verdict, or PENDING when
\* BrasilAPI is unavailable.  Only a CNPJ is looked up.
Lookup(d) == {Verdict(d)} \cup (IF d \in Cnpjs THEN {"PENDING"} ELSE {})

\* Mode strict: REJECTED raises InactiveCnpjException.
StrictLookup(d) == Lookup(d) \ {"REJECTED"}

\* A status that the document can have.
Fits(status, d) == status \in Lookup(d)

\* CreateProducerUseCase: the ESG status of a new producer
EsgAtCreation(status) ==
  IF EsgCarEnabled /\ status = "PENDING" THEN "WARNING" ELSE "APPROVED"

\* UpdateProducerUseCase: a pending document costs APPROVED, nothing gives it
\* back.
EsgAfterUpdate(esg, status) ==
  IF status = "PENDING" /\ esg = "APPROVED" THEN "WARNING" ELSE esg
=============================================================================
