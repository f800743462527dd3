----------------------------- MODULE MCDashboard -----------------------------
(* Small tables, filters and workloads for Dashboard. *)
EXTENDS Dashboard

Farm(p, s, c, month, car, score, area, live) ==
  [producer |-> p, state |-> s, city |-> c, month |-> month, carStatus |-> car,
   score |-> score, area |-> area, arable |-> area - 1, vegetation |-> 1, live |-> live]

\* Every two of them differ in something a filter or a group looks at.
FarmShapes ==
  {Farm("p1", "SP", "Campinas", 1, "ACTIVE", 10, 3, TRUE),
   Farm("p1", "SP", "Santos", 2, NoCar, NoScore, 1, TRUE),
   Farm("p2", "SP", "Campinas", 2, "PENDING", 40, 3, TRUE),
   Farm("p2", "MG", "Uberaba", 1, NoCar, 40, 2, TRUE),
   Farm("p1", "MG", "Uberaba", 2, "ACTIVE", NoScore, 2, FALSE)}

Harvest(f, year, status, crops) ==
  [farm |-> f, year |-> year, status |-> status, crops |-> crops]

HarvestSets ==
  {{},
   {Harvest("f1", "y1", "ACTIVE", {"soja"}), Harvest("f2", "y1", "ACTIVE", {})},
   {Harvest("f1", "y1", "ACTIVE", {"soja"}), Harvest("f1", "y2", "ACTIVE", {"soja", "milho"}),
    Harvest("f2", "y1", "ARCHIVED", {"soja"})},
   {Harvest("f1", "y1", "ARCHIVED", {"soja"}), Harvest("f1", "y2", "ACTIVE", {"milho"}),
    Harvest("f2", "y2", "ACTIVE", {"soja"})}}

Producer(esg, live) == [esgStatus |-> esg, live |-> live]

\* The owner of live farms may be deleted: see NoOrphanFarm in FarmRows.
ProducerTables ==
  {("p1" :> Producer("APPROVED", TRUE) @@ "p2" :> Producer(e, l)) :
     e \in {"APPROVED", "WARNING"}, l \in BOOLEAN}

AllTables ==
  {[farms |-> "f1" :> a @@ "f2" :> b, harvests |-> h, producers |-> p] :
     a \in FarmShapes, b \in FarmShapes, h \in HarvestSets, p \in ProducerTables}

MCFilterSets ==
  LET fields == [state |-> "SP", crop |-> "soja", harvestYear |-> "y1",
                 esgStatus |-> "APPROVED", carStatus |-> "ACTIVE",
                 minClimateRisk |-> 20, maxClimateRisk |-> 20]
  IN {[f \in DOMAIN fields |-> IF f \in on THEN fields[f] ELSE Unset] :
        on \in {S \in SUBSET DOMAIN fields : Cardinality(S) <= 2}}

\* A farm without CAR is validated: it moves from one group to another.
Before ==
  [farms |-> "f1" :> Farm("p1", "SP", "Campinas", 1, NoCar, 10, 3, TRUE)
             @@ "f2" :> Farm("p2", "MG", "Uberaba", 1, "ACTIVE", 40, 2, TRUE),
   harvests |-> {Harvest("f1", "y1", "ACTIVE", {"soja"})},
   producers |-> "p1" :> Producer("APPROVED", TRUE) @@ "p2" :> Producer("WARNING", TRUE)]
After ==
  [Before EXCEPT !.farms["f1"].carStatus = "ACTIVE", !.harvests = {},
                 !.producers["p2"].esgStatus = "APPROVED"]

Request(endpoint, filters) == [endpoint |-> endpoint, filters |-> filters]
ActiveOnly == [NoFilters EXCEPT !.carStatus = "ACTIVE"]

MCBehaviours ==
  {[workload |-> {}, story |-> <<t>>] : t \in AllTables}
    \cup {[workload |-> {Request(e, NoFilters), Request(e, ActiveOnly)},
           story |-> <<Before, After>>] : e \in {"stats", "analytics"}}
    \cup {[workload |-> {Request("summary", NoFilters), Request("analytics", NoFilters)},
           story |-> <<Before, After>>]}
=============================================================================
