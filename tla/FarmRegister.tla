---------------------------- MODULE FarmRegister ----------------------------
(***************************************************************************)
(* What the farm endpoints promise, without requests, statements or        *)
(* versions: every operation reads and writes one farm at one instant.     *)
(* FarmRows is compared with this module.                                  *)
(***************************************************************************)
EXTENDS FarmDomain

CONSTANTS Farms, Producers, Owner, NoFarm, NoEntry, Times

VARIABLES
  farms, \* farm -> the entity with its harvests, NoFarm before it is created
  audit  \* farm -> its newest audit entry

Init ==
  /\ farms = [f \in Farms |-> NoFarm]
  /\ audit = [f \in Farms |-> NoEntry]

Live(f) == farms[f] # NoFarm /\ farms[f].live

\* One more entry, later than the others of f
Record(f, previous, new) ==
  \E at \in Times :
    /\ audit[f] # NoEntry => audit[f].at < at
    /\ audit' = [audit EXCEPT ![f] = [previous |-> previous, new |-> new, at |-> at]]

\* POST /farms
Create(f) ==
  /\ farms[f] = NoFarm
  /\ \E in \in CreateInputs : \E status \in Accepted(in.city, in.state) :
       /\ Storable(in.area)
       /\ farms' = [farms EXCEPT ![f] = ToPersistence(ApplyCompliance(
            [live |-> TRUE, city |-> in.city, state |-> in.state,
             area |-> in.area, car |-> in.car, carStatus |-> NoStatus,
             climate |-> ClimateOf(in.city, in.state, in.harvests),
             status |-> status, harvests |-> in.harvests], in.harvests))]
       /\ Record(f, "VALIDATED", status)

\* PUT /farms/:id
Update(f) ==
  /\ Live(f)
  /\ \E in \in UpdateInputs : \E status \in UpdateAnswers(farms[f], in) :
       LET h == MergeHarvests(farms[f].harvests, in)
           area == MergedArea(farms[f].area, in)
       IN  /\ area \in Areas /\ Storable(area)
           /\ farms' = [farms EXCEPT ![f] = ToPersistence(ApplyCompliance(
                [UpdateDetails(farms[f], in) EXCEPT !.status = status, !.harvests = h], h))]
           /\ IF Relocates(in) THEN Record(f, farms[f].status, status)
                               ELSE UNCHANGED audit

\* POST /admin/revalidate/farms/:id and the job
Revalidate(f) ==
  /\ Live(f)
  /\ \E answer \in CityLookup(farms[f].city, farms[f].state) :
       LET status == IF answer = "MISMATCH" THEN "REJECTED" ELSE answer
       IN  /\ farms' = [farms EXCEPT ![f].status = status]
           /\ Record(f, farms[f].status, status)

\* POST /farms/:id/car/validate
ValidateCar(f) ==
  /\ Live(f)
  /\ farms[f].car # NoCar
  /\ farms' = [farms EXCEPT ![f].carStatus = CarStatusFor(farms[f].area)]
  /\ UNCHANGED audit

\* DELETE /farms/:id
Delete(f) ==
  /\ Live(f)
  /\ farms' = [farms EXCEPT ![f].live = FALSE]
  /\ UNCHANGED audit

\* DELETE /producers/:id
DeleteFarmsOf(p) ==
  /\ farms' = [f \in Farms |-> IF Owner[f] = p /\ Live(f)
                               THEN [farms[f] EXCEPT !.live = FALSE] ELSE farms[f]]
  /\ UNCHANGED audit

Next ==
  \/ \E f \in Farms : \/ Create(f) \/ Update(f) \/ Revalidate(f)
                      \/ ValidateCar(f) \/ Delete(f)
  \/ \E p \in Producers : DeleteFarmsOf(p)

Spec == Init /\ [][Next]_<<farms, audit>>
=============================================================================
