----------------------------- MODULE MCFarmRows -----------------------------
(***************************************************************************)
(* Instances of FarmRows for TLC: one or two farms of one producer, two    *)
(* cities and two UFs of which three pairs are real, two years, one crop.  *)
(***************************************************************************)
EXTENDS FarmRows, TLC

CONSTANTS r1, r2, r3, f1, f2, p1, c1, c2, s1, s2, n1, y1, y2, soy

MCOwner == [f \in Farms |-> p1]
MCRealPlaces == {<<c1, s1>>, <<c2, s1>>, <<c2, s2>>}

KeepArea == [total |-> Keep, arable |-> Keep, vegetation |-> Keep]

Unchanged ==
  [city |-> Keep, state |-> Keep, area |-> KeepArea, car |-> Keep,
   harvests |-> [y \in Years |-> Keep], sends |-> FALSE]

\* The farm a run starts from is one with crops in year y1 only, and with
\* 19.996 ha of vegetation on 100 ha: short of the reserve until it is rounded.
MCCreate ==
  {[city |-> c2, state |-> s1, car |-> n1,
    area |-> [total |-> 100000, arable |-> 50000, vegetation |-> 19996],
    harvests |-> (y1 :> {soy} @@ y2 :> NoHarvest)]}

MoveCity == [Unchanged EXCEPT !.city = c1]
MoveState == [Unchanged EXCEPT !.state = s2]
MoveBoth == [Unchanged EXCEPT !.city = c1, !.state = s2]
Enlarge == [Unchanged EXCEPT !.area.total = 100026]
ClearCar == [Unchanged EXCEPT !.car = NoCar]
\* The form always sends its harvests.
AddYear == [Unchanged EXCEPT !.harvests = (y1 :> Keep @@ y2 :> {soy}), !.sends = TRUE]
EmptyYear == [Unchanged EXCEPT !.harvests = (y1 :> {} @@ y2 :> Keep), !.sends = TRUE]
DropYear == [Unchanged EXCEPT !.harvests = (y1 :> Drop @@ y2 :> Keep)]

TerritorialInputs == {MoveCity, MoveState}
CropInputs == {AddYear, EmptyYear, DropYear}
CarInputs == {Enlarge, ClearCar}
CrudInputs == TerritorialInputs \cup CropInputs
AllInputs == CrudInputs \cup CarInputs
WritesInputs == (AllInputs \ {AddYear, EmptyYear}) \cup {MoveBoth}

\* Requests have no identity in the code.
Symmetry == Permutations(Requests)
=============================================================================
