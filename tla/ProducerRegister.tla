-------------------------- MODULE ProducerRegister --------------------------
(***************************************************************************)
(* What the producer endpoints promise, without requests and statements:   *)
(* every operation reads and writes one producer at one instant, and a     *)
(* document has at most one live producer.                                 *)
(***************************************************************************)
EXTENDS ProducerDomain, Naturals

CONSTANTS Producers, NoProducer, Times

VARIABLES
  registry, \* producer -> the entity, NoProducer before it is created
  audit     \* producer -> its audit entries, in the order of their times

Init ==
  /\ registry = [p \in Producers |-> NoProducer]
  /\ audit = [p \in Producers |-> {}]

Live(p) == registry[p] # NoProducer /\ registry[p].live

\* Nobody but p has the document.
FreeFor(p, d) ==
  \A q \in Producers \ {p} : Live(q) => registry[q].document # d

\* One more entry, later than the others of p
Record(p, previous, new, trigger) ==
  \E at \in Times :
    /\ \A e \in audit[p] : e.at < at
    /\ audit' = [audit EXCEPT ![p] = @ \cup
         {[previous |-> previous, new |-> new, trigger |-> trigger, at |-> at]}]

\* POST /producers
Create(p) ==
  /\ registry[p] = NoProducer
  /\ \E d \in Documents : \E status \in StrictLookup(d) :
       /\ FreeFor(p, d)
       /\ registry' = [registry EXCEPT ![p] =
            [live |-> TRUE, document |-> d, status |-> status,
             esg |-> EsgAtCreation(status)]]
       /\ Record(p, "VALIDATED", status, "write")

\* PUT /producers/:id with a document; without one only the name changes.
Update(p) ==
  /\ Live(p)
  /\ \E d \in Documents : \E status \in StrictLookup(d) :
       /\ FreeFor(p, d)
       /\ registry' = [registry EXCEPT ![p] =
            [registry[p] EXCEPT !.document = d, !.status = status,
                                !.esg = EsgAfterUpdate(@, status)]]
       /\ Record(p, registry[p].status, status, "write")

\* POST /admin/revalidate/producers/:id and the job
Revalidate(p) ==
  /\ Live(p)
  /\ \E status \in Lookup(registry[p].document) :
       /\ registry' = [registry EXCEPT ![p].status = status]
       /\ IF registry[p].document \in Cnpjs \/ registry[p].status # "VALIDATED"
          THEN Record(p, registry[p].status, status, "job")
          ELSE UNCHANGED audit

\* DELETE /producers/:id
Delete(p) ==
  /\ Live(p)
  /\ registry' = [registry EXCEPT ![p].live = FALSE]
  /\ UNCHANGED audit

Next ==
  \E p \in Producers : Create(p) \/ Update(p) \/ Revalidate(p) \/ Delete(p)

Spec == Init /\ [][Next]_<<registry, audit>>
=============================================================================
