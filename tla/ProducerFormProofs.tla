-------------------------- MODULE ProducerFormProofs --------------------------
(***************************************************************************)
(* Proofs about ProducerForm: its type, that no answer changes what was   *)
(* typed, that saving an edited farm does to the stored farm what was      *)
(* asked and no more, and that what the page says it saved is stored.      *)
(***************************************************************************)
EXTENDS ProducerForm, SequenceTheorems, TLAPS

(* The inductive invariant *)

Registrations == [known : BOOLEAN, farms : Seq(FarmData)]

Saves ==
  [phase : Phases, target : Farms \cup {NoFarm}, harvests : FarmData, removed : SUBSET Years,
   document : Documents \cup {NoDocument}, farms : Seq(FarmData), dropped : SUBSET Years,
   touched : BOOLEAN, switched : BOOLEAN, others : Nat]

\* The records that TypeOK leaves open, and a save began before now.
RecordsOK ==
  /\ registered \in [Documents -> Registrations]
  /\ save \in Saves /\ save.others <= others

\* The ref holds the years the user was shown, a new farm has none of them.
FormNoted ==
  /\ loadedYears = form.shown
  /\ form.adding <=> form.editing = NoFarm
  /\ form.adding => form.shown = {}

\* Nobody gets to the farms of a new producer without a document.
WizardTyped ==
  mode = "create" =>
    /\ wizard.checking # NoDocument => wizard.typed # NoDocument
    /\ wizard.step = 1 => wizard.typed # NoDocument

\* Each mode has its own requests, and a farm is only saved from a form that
\* was filled from an answer.
ModeFixed ==
  /\ save.phase = "creating" => mode = "create"
  /\ save.phase \in {"renaming", "writing"} => mode = "edit"
  /\ mode = "edit" /\ (page = "open" \/ save.phase # "idle") => loadedProducer

\* As long as the farm in the form stays the one being saved, the ref is that
\* farm's, and the years sent as removed are those the user took out.
DropsNoted ==
  ~save.switched =>
    /\ save.phase = "renaming" => save.dropped = loadedYears \ YearsOf(save.harvests)
    /\ save.phase = "writing" => save.removed = save.dropped

\* While the page is not used, it shows what is being saved.
SaveTied ==
  save.phase # "idle" /\ ~save.touched =>
    /\ ~save.switched /\ ~dialog.busy
    /\ mode = "create" =>
         /\ save.document = wizard.typed /\ save.document # NoDocument
         /\ save.farms = Append(queue, form.harvests)
    /\ mode = "edit" =>
         /\ save.target = form.editing /\ save.harvests = form.harvests
         /\ save.dropped = form.shown \ YearsOf(form.harvests)

\* Until another client writes, what was written stays as it was written.
SaveStored ==
  save.phase = "answered" /\ ~save.touched /\ save.others = others =>
    /\ mode = "create" => registered[save.document].farms = save.farms
    /\ mode = "edit" => \E f \in Farms :
         /\ save.target \in {f, NoFarm}
         /\ Exists(farms, f)
         /\ \A y \in YearsOf(save.harvests) : farms[f][y] = save.harvests[y]
         /\ \A y \in save.dropped : farms[f][y] = NoHarvest

FormInv ==
  /\ TypeOK /\ RecordsOK /\ FormNoted /\ WizardTyped /\ ModeFixed
  /\ DropsNoted /\ SaveTied /\ SaveStored

-----------------------------------------------------------------------------
(* Values *)

LEMMA YearsOfType == \A farm : YearsOf(farm) \subseteq Years
BY DEF YearsOf

LEMMA DefaultFarmType == DefaultFarm \in FarmData
BY ProducerFormAssumption DEF DefaultFarm, FarmData

FormRecords ==
  [harvests : FarmData, filled : BOOLEAN, editing : Farms \cup {NoFarm}, adding : BOOLEAN,
   edits : 0..MaxEdits, shown : SUBSET Years]

LEMMA NewFormType == NewForm \in FormRecords
BY DefaultFarmType, ProducerFormAssumption DEF NewForm, FormRecords

LEMMA FormOfType ==
  ASSUME NEW f \in Farms, NEW farm \in FarmData
  PROVE  FormOf(f, farm) \in FormRecords
BY YearsOfType, ProducerFormAssumption DEF FormOf, FormRecords

LEMMA NoSaveType == NoSave \in Saves
BY DefaultFarmType, EmptySeq, ProducerFormAssumption DEF NoSave, Saves, Phases

\* A farm that exists is its harvests.
LEMMA ExistingFarm ==
  ASSUME NEW table \in [Farms -> FarmData \cup {NoFarm, Deleted}], NEW f \in Farms,
         Exists(table, f)
  PROVE  table[f] \in FarmData
BY DEF Exists

LEMMA FarmExists ==
  ASSUME NEW table, NEW f, table[f] \in FarmData
  PROVE  Exists(table, f)
BY FarmsAssumption DEF Exists

LEMMA MergedType ==
  ASSUME NEW farm \in FarmData, NEW harvests \in FarmData, NEW removed
  PROVE  Merged(farm, harvests, removed) \in FarmData
BY DEF Merged, FarmData

\* A queue stays a queue, and gets no longer, when a farm is taken out of it.
LEMMA RemoveAtType ==
  ASSUME NEW S, NEW s \in Seq(S), NEW i \in DOMAIN s
  PROVE  RemoveAt(s, i) \in Seq(S) /\ Len(RemoveAt(s, i)) <= Len(s)
<1> DEFINE before == SubSeq(s, 1, i - 1)
           after == SubSeq(s, i + 1, Len(s))
<1>1. i \in 1..Len(s) /\ Len(s) \in Nat
  BY LenProperties
<1>2. before \in Seq(S) /\ Len(before) = i - 1
  BY <1>1, SubSeqProperties
<1>3. after \in Seq(S) /\ Len(after) = Len(s) - i
  BY <1>1, SubSeqProperties
<1>4. RemoveAt(s, i) = before \o after
  BY DEF RemoveAt
<1> HIDE DEF before, after
<1> QED
  BY <1>1, <1>2, <1>3, <1>4, ConcatProperties

-----------------------------------------------------------------------------
(* The form *)

\* The form as TypeOK and FormNoted want it.
FormOK ==
  /\ form \in FormRecords /\ loadedYears \subseteq Years
  /\ FormNoted

LEMMA StartNewFarmOK == StartNewFarm => FormOK'
BY NewFormType DEF StartNewFarm, FormOK, FormNoted, NewForm

LEMMA LoadFarmOK ==
  ASSUME NEW f \in Farms, NEW table \in [Farms -> FarmData \cup {NoFarm, Deleted}],
         Exists(table, f), LoadFarmIntoForm(f, table)
  PROVE  FormOK'
<1>1. table[f] \in FarmData
  BY ExistingFarm
<1>2. form' \in FormRecords
  BY <1>1, FormOfType DEF LoadFarmIntoForm
<1>3. FormNoted' /\ (loadedYears \subseteq Years)'
  BY YearsOfType, ProducerFormAssumption DEF LoadFarmIntoForm, FormNoted, FormOf
<1> QED
  BY <1>2, <1>3 DEF FormOK

-----------------------------------------------------------------------------
(* The save *)

\* Nothing is said of a save that is not under way.
LEMMA IdleOK ==
  ASSUME (save.phase = "idle")'
  PROVE  DropsNoted' /\ SaveTied' /\ SaveStored'
BY DEF DropsNoted, SaveTied, SaveStored

LEMMA NoSaveOK ==
  ASSUME FormInv, save' = NoSave, UNCHANGED <<registered, others>>
  PROVE  RecordsOK' /\ DropsNoted' /\ SaveTied' /\ SaveStored' /\ (save.phase = "idle")'
<1>1. (save.phase = "idle")'
  BY DEF NoSave
<1>2. RecordsOK'
  BY NoSaveType DEF FormInv, RecordsOK, TypeOK, NoSave
<1> QED
  BY <1>1, <1>2, IdleOK

\* What the page shows while it is used is not tied to the save under way.
LEMMA UsedOK ==
  ASSUME FormInv, Used, UNCHANGED <<mode, registered, others>>,
         loadedYears' = loadedYears \/ mode = "create"
  PROVE  /\ RecordsOK' /\ DropsNoted' /\ SaveTied' /\ SaveStored'
         /\ save'.phase = save.phase /\ save'.target = save.target
         /\ save'.harvests = save.harvests /\ save'.removed = save.removed
<1>1. save' = [save EXCEPT !.touched = save.phase # "idle"] /\ save \in Saves
  BY DEF Used, FormInv, RecordsOK
<1>2. /\ save' \in Saves
      /\ save'.phase = save.phase /\ save'.target = save.target
      /\ save'.harvests = save.harvests /\ save'.removed = save.removed
      /\ save'.dropped = save.dropped /\ save'.switched = save.switched
      /\ save'.others = save.others /\ save'.touched = (save.phase # "idle")
  BY <1>1 DEF Saves
<1>3. RecordsOK'
  BY <1>2 DEF FormInv, RecordsOK
<1>4. DropsNoted'
  BY <1>2 DEF FormInv, DropsNoted, ModeFixed
<1>5. SaveTied' /\ SaveStored'
  BY <1>2 DEF SaveTied, SaveStored
<1> QED
  BY <1>2, <1>3, <1>4, <1>5

\* Nor does the ref still belong to it once another farm is in the form.
LEMMA SwitchedOK ==
  ASSUME FormInv, Switched, UNCHANGED <<registered, others>>
  PROVE  /\ RecordsOK' /\ DropsNoted' /\ SaveTied' /\ SaveStored'
         /\ save'.phase = save.phase /\ save'.target = save.target
         /\ save'.harvests = save.harvests /\ save'.removed = save.removed
<1>1. /\ save' = [save EXCEPT !.touched = save.phase # "idle", !.switched = save.phase # "idle"]
      /\ save \in Saves
  BY DEF Switched, FormInv, RecordsOK
<1>2. /\ save' \in Saves
      /\ save'.phase = save.phase /\ save'.target = save.target
      /\ save'.harvests = save.harvests /\ save'.removed = save.removed
      /\ save'.others = save.others
      /\ save'.touched = (save.phase # "idle") /\ save'.switched = (save.phase # "idle")
  BY <1>1 DEF Saves
<1>3. RecordsOK'
  BY <1>2 DEF FormInv, RecordsOK
<1>4. DropsNoted' /\ SaveTied' /\ SaveStored'
  BY <1>2 DEF DropsNoted, SaveTied, SaveStored
<1> QED
  BY <1>2, <1>3, <1>4

\* What the type says of the parts that most actions leave alone: with those
\* unchanged, only the form, the queue and the wizard are left to check.
ScreenOK ==
  /\ form \in FormRecords /\ loadedYears \subseteq Years
  /\ queue \in Seq(FarmData) /\ Len(queue) <= MaxQueue
  /\ wizard \in [step : 0..1, typed : Documents \cup {NoDocument},
                  checking : Documents \cup {NoDocument}, duplicate : BOOLEAN]

ServerOK ==
  /\ farms \in [Farms -> FarmData \cup {NoFarm, Deleted}]
  /\ existing \in [Farms -> FarmData \cup {NoFarm, Deleted}]

RestOK ==
  /\ mode \in {"create", "edit"} /\ page \in {"loading", "failed", "open", "left"}
  /\ loadedProducer \in BOOLEAN /\ refetching \in BOOLEAN
  /\ dialog \in [farm : Farms \cup {NoFarm}, busy : BOOLEAN]
  /\ saves \in 0..MaxSaves /\ others \in 0..MaxOthers

SaveOK == save.removed \subseteq Years \ YearsOf(save.harvests)

LEMMA TypeParts ==
  RecordsOK => (TypeOK <=> ScreenOK /\ ServerOK /\ RestOK /\ SaveOK)
BY DEF RecordsOK, Registrations, Saves, TypeOK, ScreenOK, ServerOK, RestOK, SaveOK, FormRecords

LEMMA TypePartsNext ==
  RecordsOK' => (TypeOK' <=> ScreenOK' /\ ServerOK' /\ RestOK' /\ SaveOK')
BY TypeParts, PTL

-----------------------------------------------------------------------------
(* The invariant is inductive *)

LEMMA FormInvInit == Init => FormInv
<1> SUFFICES ASSUME Init PROVE FormInv
  OBVIOUS
<1>1. save.phase = "idle" /\ save = NoSave
  BY DEF Init, NoSave
<1>2. registered \in [Documents -> Registrations]
  <2> DEFINE first(d) == [NotRegistered EXCEPT !.known = d \in TakenDocuments]
  <2>1. ASSUME NEW d \in Documents
        PROVE  first(d) \in Registrations
    <3> DEFINE known == d \in TakenDocuments
    <3>1. known \in BOOLEAN
      OBVIOUS
    <3>2. first(d) = [NotRegistered EXCEPT !.known = known]
      OBVIOUS
    <3> HIDE DEF known, first
    <3> QED
      BY <3>1, <3>2, EmptySeq DEF NotRegistered, Registrations
  <2>2. registered = [d \in Documents |-> first(d)]
    BY DEF Init
  <2> HIDE DEF first
  <2> QED
    BY <2>1, <2>2
<1>3. RecordsOK
  BY <1>1, <1>2, NoSaveType DEF Init, RecordsOK, NoSave
<1>4. FormOK
  BY NewFormType DEF Init, FormOK, FormNoted, NewForm
<1>5. ScreenOK
  BY <1>4, EmptySeq, ProducerFormAssumption DEF Init, ScreenOK, FormOK, FirstWizard
<1>6. ServerOK
  BY DEF Init, ServerOK, NoTable, FarmData
<1>7. RestOK
  <2>1. 0 \in 0..MaxSaves /\ 0 \in 0..MaxOthers
    BY ProducerFormAssumption
  <2>2. dialog \in [farm : Farms \cup {NoFarm}, busy : BOOLEAN]
    BY DEF Init, NoDialog
  <2>3. page \in {"loading", "failed", "open", "left"} /\ mode \in {"create", "edit"}
    BY DEF Init, FirstPage
  <2> QED
    BY <2>1, <2>2, <2>3 DEF Init, RestOK
<1>8. SaveOK
  BY <1>1 DEF SaveOK, NoSave
<1>9. WizardTyped /\ ModeFixed
  BY <1>1 DEF Init, WizardTyped, ModeFixed, FirstWizard, FirstPage
<1>10. DropsNoted /\ SaveTied /\ SaveStored
  BY <1>1 DEF DropsNoted, SaveTied, SaveStored
<1> QED
  BY <1>3, <1>4, <1>5, <1>6, <1>7, <1>8, <1>9, <1>10, TypeParts DEF FormInv, FormOK

Parts ==
  /\ RecordsOK /\ ScreenOK /\ ServerOK /\ RestOK /\ SaveOK
  /\ FormNoted /\ WizardTyped /\ ModeFixed
  /\ DropsNoted /\ SaveTied /\ SaveStored

LEMMA InvParts == FormInv <=> Parts
BY TypeParts DEF FormInv, Parts

LEMMA InvPartsNext == FormInv' <=> Parts'
BY InvParts, PTL

\* Actions that leave the save and what it is tied to as they are
LEMMA SaveKept ==
  ASSUME FormInv, UNCHANGED <<mode, save, registered, farms, others, queue, form, loadedYears>>,
         (wizard.typed)' = wizard.typed \/ mode = "edit", (dialog.busy)' => dialog.busy
  PROVE  RecordsOK' /\ SaveOK' /\ DropsNoted' /\ SaveTied' /\ SaveStored' /\ FormNoted'
<1>1. RecordsOK' /\ SaveOK' /\ FormNoted'
  BY DEF FormInv, RecordsOK, TypeOK, SaveOK, FormNoted
<1>2. DropsNoted'
  BY DEF FormInv, DropsNoted
<1>3. SaveTied'
  BY DEF FormInv, SaveTied
<1>4. SaveStored'
  BY DEF FormInv, SaveStored, Exists
<1> QED
  BY <1>1, <1>2, <1>3, <1>4

LEMMA OnExistingOK ==
  ASSUME FormInv, OnExisting(farms)
  PROVE  FormOK'
<1>1. CASE loadedProducer
  BY <1>1 DEF OnExisting, FormInv, TypeOK, FormOK, FormRecords, FormNoted
<1>2. CASE ~loadedProducer /\ \E f \in Farms : Exists(farms, f)
  <2>1. PICK f \in Farms : Exists(farms, f) /\ LoadFarmIntoForm(f, farms)
    BY <1>2 DEF OnExisting
  <2> QED
    BY <2>1, LoadFarmOK DEF FormInv, TypeOK
<1>3. CASE ~loadedProducer /\ ~\E f \in Farms : Exists(farms, f)
  BY <1>3, StartNewFarmOK DEF OnExisting
<1> QED
  BY <1>1, <1>2, <1>3

\* An answer fills the form only when no save is under way.
LEMMA FetchAnswersKeeps == ASSUME FormInv, FetchAnswers PROVE FormInv'
<1>1. /\ mode = "edit" /\ page' = "open" /\ existing' = farms /\ refetching' = FALSE
      /\ OnExisting(farms) /\ loadedProducer' = TRUE
      /\ UNCHANGED <<mode, farms, registered, queue, wizard, save, dialog, saves, others>>
  BY DEF FetchAnswers, OnExisting, Fetching, server, bounds
<1>2. Parts
  BY InvParts
<1>3. FormOK'
  BY <1>1, OnExistingOK
<1>4. ScreenOK' /\ ServerOK' /\ RestOK'
  BY <1>1, <1>2, <1>3 DEF Parts, ScreenOK, ServerOK, RestOK, FormOK
<1>5. WizardTyped' /\ ModeFixed'
  BY <1>1, <1>2 DEF Parts, WizardTyped, ModeFixed
<1>6. RecordsOK' /\ SaveOK' /\ DropsNoted' /\ SaveTied' /\ SaveStored'
  <2>1. CASE loadedProducer
    BY <1>1, <2>1, SaveKept DEF OnExisting
  <2>2. CASE ~loadedProducer
    <3>1. (save.phase = "idle")'
      BY <1>1, <1>2, <2>2 DEF Parts, ModeFixed
    <3> QED
      BY <1>1, <1>2, <3>1, IdleOK DEF Parts, RecordsOK, SaveOK
  <2> QED
    BY <2>1, <2>2
<1> QED
  BY <1>3, <1>4, <1>5, <1>6, InvPartsNext DEF Parts, FormOK

LEMMA FetchFailsKeeps == ASSUME FormInv, FetchFails PROVE FormInv'
<1>1. /\ mode = "edit" /\ page' = "failed" /\ refetching' = FALSE
      /\ UNCHANGED <<mode, farms, registered, existing, loadedProducer, form, loadedYears,
                     queue, wizard, save, dialog, saves, others>>
  BY DEF FetchFails, Fetching, server, screen, bounds
<1>2. Parts
  BY InvParts
<1>3. ScreenOK' /\ ServerOK' /\ RestOK' /\ WizardTyped' /\ ModeFixed'
  BY <1>1, <1>2 DEF Parts, ScreenOK, ServerOK, RestOK, WizardTyped, ModeFixed
<1>4. RecordsOK' /\ SaveOK' /\ DropsNoted' /\ SaveTied' /\ SaveStored' /\ FormNoted'
  BY <1>1, SaveKept
<1> QED
  BY <1>3, <1>4, InvPartsNext DEF Parts

LEMMA RetryKeeps == ASSUME FormInv, Retry PROVE FormInv'
<1>1. /\ page' = (IF loadedProducer THEN "open" ELSE "loading") /\ refetching' = TRUE
      /\ UNCHANGED <<mode, farms, registered, existing, loadedProducer, form, loadedYears,
                     queue, wizard, save, dialog, saves, others>>
  BY DEF Retry, server, screen, bounds
<1>2. Parts
  BY InvParts
<1>3. ScreenOK' /\ ServerOK' /\ RestOK' /\ WizardTyped' /\ ModeFixed'
  BY <1>1, <1>2 DEF Parts, ScreenOK, ServerOK, RestOK, WizardTyped, ModeFixed
<1>4. RecordsOK' /\ SaveOK' /\ DropsNoted' /\ SaveTied' /\ SaveStored' /\ FormNoted'
  BY <1>1, SaveKept
<1> QED
  BY <1>3, <1>4, InvPartsNext DEF Parts

\* What all uses of the page have in common: the server and the answers stay.
LEMMA UseKept ==
  ASSUME FormInv, UNCHANGED <<mode, page, farms, existing, loadedProducer, refetching,
                              dialog, saves, others>>,
         (save.phase)' = save.phase,
         (save.harvests)' = save.harvests, (save.removed)' = save.removed
  PROVE  ServerOK' /\ RestOK' /\ SaveOK' /\ ModeFixed'
<1>1. Parts
  BY InvParts
<1> QED
  BY <1>1 DEF Parts, ServerOK, RestOK, SaveOK, ModeFixed

LEMMA ClickFarmKeeps == ASSUME FormInv, NEW f \in Farms, ClickFarm(f) PROVE FormInv'
<1>1. /\ Exists(existing, f) /\ LoadFarmIntoForm(f, existing) /\ Switched
      /\ UNCHANGED <<mode, page, farms, registered, existing, loadedProducer, refetching,
                     queue, wizard, dialog, saves, others>>
  BY DEF ClickFarm, server, fetched, bounds
<1>2. Parts
  BY InvParts
<1>3. FormOK'
  BY <1>1, <1>2, LoadFarmOK DEF Parts, ServerOK
<1>4. /\ RecordsOK' /\ DropsNoted' /\ SaveTied' /\ SaveStored'
      /\ save'.phase = save.phase
      /\ save'.harvests = save.harvests /\ save'.removed = save.removed
  BY <1>1, SwitchedOK
<1>5. ServerOK' /\ RestOK' /\ SaveOK' /\ ModeFixed'
  BY <1>1, <1>4, UseKept
<1>6. ScreenOK' /\ WizardTyped'
  BY <1>1, <1>2, <1>3 DEF Parts, ScreenOK, FormOK, WizardTyped
<1> QED
  BY <1>3, <1>4, <1>5, <1>6, InvPartsNext DEF Parts, FormOK

LEMMA ClickNewFarmKeeps == ASSUME FormInv, ClickNewFarm PROVE FormInv'
<1>1. /\ StartNewFarm /\ Switched
      /\ UNCHANGED <<mode, page, farms, registered, existing, loadedProducer, refetching,
                     queue, wizard, dialog, saves, others>>
  BY DEF ClickNewFarm, server, fetched, bounds
<1>2. Parts
  BY InvParts
<1>3. FormOK'
  BY <1>1, StartNewFarmOK
<1>4. /\ RecordsOK' /\ DropsNoted' /\ SaveTied' /\ SaveStored'
      /\ save'.phase = save.phase
      /\ save'.harvests = save.harvests /\ save'.removed = save.removed
  BY <1>1, SwitchedOK
<1>5. ServerOK' /\ RestOK' /\ SaveOK' /\ ModeFixed'
  BY <1>1, <1>4, UseKept
<1>6. ScreenOK' /\ WizardTyped'
  BY <1>1, <1>2, <1>3 DEF Parts, ScreenOK, FormOK, WizardTyped
<1> QED
  BY <1>3, <1>4, <1>5, <1>6, InvPartsNext DEF Parts, FormOK

LEMMA EditYearKeeps ==
  ASSUME FormInv, NEW y \in Years, NEW c \in CropLists \cup {NoHarvest}, EditYear(y, c)
  PROVE  FormInv'
<1>1. /\ form.edits < MaxEdits
      /\ form' = [form EXCEPT !.harvests[y] = c, !.filled = TRUE, !.edits = @ + 1] /\ Used
      /\ UNCHANGED <<mode, page, farms, registered, existing, loadedProducer, refetching,
                     loadedYears, queue, wizard, dialog, saves, others>>
  BY DEF EditYear, server, fetched, bounds
<1>2. Parts
  BY InvParts
<1>3. FormOK'
  <2> DEFINE harvests == [form.harvests EXCEPT ![y] = c]
  <2>1. form \in FormRecords
    BY <1>2 DEF Parts, ScreenOK
  <2>2. harvests \in FarmData
    BY <2>1 DEF FormRecords, FarmData
  <2>3. form' = [form EXCEPT !.harvests = harvests, !.filled = TRUE, !.edits = form.edits + 1]
    BY <1>1, <2>1 DEF FormRecords
  <2>4. form.edits + 1 \in 0..MaxEdits
    BY <1>1, <2>1, ProducerFormAssumption DEF FormRecords
  <2> HIDE DEF harvests
  <2>5. /\ form' \in FormRecords /\ form'.shown = form.shown
        /\ form'.adding = form.adding /\ form'.editing = form.editing
    BY <2>1, <2>2, <2>3, <2>4 DEF FormRecords
  <2> QED
    BY <1>1, <1>2, <2>5 DEF Parts, ScreenOK, FormNoted, FormOK
<1>4. /\ RecordsOK' /\ DropsNoted' /\ SaveTied' /\ SaveStored'
      /\ save'.phase = save.phase
      /\ save'.harvests = save.harvests /\ save'.removed = save.removed
  BY <1>1, UsedOK
<1>5. ServerOK' /\ RestOK' /\ SaveOK' /\ ModeFixed'
  BY <1>1, <1>4, UseKept
<1>6. ScreenOK' /\ WizardTyped'
  BY <1>1, <1>2, <1>3 DEF Parts, ScreenOK, FormOK, WizardTyped
<1> QED
  BY <1>3, <1>4, <1>5, <1>6, InvPartsNext DEF Parts, FormOK

-----------------------------------------------------------------------------
(* The wizard *)

Wizards ==
  [step : 0..1, typed : Documents \cup {NoDocument}, checking : Documents \cup {NoDocument},
   duplicate : BOOLEAN]

\* The wizard moves: what it is changed to is a wizard, and has a document.
LEMMA WizardMoves ==
  ASSUME FormInv, wizard' \in Wizards, WizardTyped', Used,
         UNCHANGED <<mode, page, farms, registered, existing, loadedProducer, refetching, form,
                     loadedYears, queue, dialog, saves, others>>
  PROVE  FormInv'
<1>1. Parts
  BY InvParts
<1>2. ScreenOK' /\ FormNoted'
  BY <1>1 DEF Parts, ScreenOK, FormNoted, Wizards
<1>3. /\ RecordsOK' /\ DropsNoted' /\ SaveTied' /\ SaveStored'
      /\ save'.phase = save.phase
      /\ save'.harvests = save.harvests /\ save'.removed = save.removed
  BY UsedOK
<1>4. ServerOK' /\ RestOK' /\ SaveOK' /\ ModeFixed'
  BY <1>3, UseKept
<1> QED
  BY <1>2, <1>3, <1>4, InvPartsNext DEF Parts

LEMMA WizardNow == FormInv => wizard \in Wizards /\ WizardTyped
BY DEF FormInv, TypeOK, Wizards

LEMMA TypeDocumentKeeps ==
  ASSUME FormInv, NEW d \in Documents, TypeDocument(d) PROVE FormInv'
<1>1. /\ wizard' = [wizard EXCEPT !.typed = d] /\ Used
      /\ UNCHANGED <<mode, page, farms, registered, existing, loadedProducer, refetching, form,
                     loadedYears, queue, dialog, saves, others>>
  BY DEF TypeDocument, server, fetched, bounds
<1>2. wizard' \in Wizards /\ WizardTyped'
  BY <1>1, WizardNow, ProducerFormAssumption DEF Wizards, WizardTyped
<1> QED
  BY <1>1, <1>2, WizardMoves

LEMMA ContinueKeeps == ASSUME FormInv, Continue PROVE FormInv'
<1>1. /\ wizard' = [wizard EXCEPT !.checking = wizard.typed, !.duplicate = FALSE] /\ Used
      /\ UNCHANGED <<mode, page, farms, registered, existing, loadedProducer, refetching, form,
                     loadedYears, queue, dialog, saves, others>>
  BY DEF Continue, server, fetched, bounds
<1>2. wizard' \in Wizards /\ WizardTyped'
  BY <1>1, WizardNow DEF Wizards, WizardTyped
<1> QED
  BY <1>1, <1>2, WizardMoves

LEMMA BackKeeps == ASSUME FormInv, Back PROVE FormInv'
<1>1. /\ wizard' = [wizard EXCEPT !.step = 0] /\ Used
      /\ UNCHANGED <<mode, page, farms, registered, existing, loadedProducer, refetching, form,
                     loadedYears, queue, dialog, saves, others>>
  BY DEF Back, server, fetched, bounds
<1>2. wizard' \in Wizards /\ WizardTyped'
  BY <1>1, WizardNow DEF Wizards, WizardTyped
<1> QED
  BY <1>1, <1>2, WizardMoves

\* The search was for the document typed last or one before it: some document
\* is typed.
LEMMA SearchAnswersKeeps == ASSUME FormInv, SearchAnswers PROVE FormInv'
<1>1. /\ wizard.checking # NoDocument
      /\ UNCHANGED <<mode, page, farms, registered, existing, loadedProducer, refetching, form,
                     loadedYears, queue, save, dialog, saves, others>>
  BY DEF SearchAnswers, server, fetched, bounds
<1>2. PICK failed \in BOOLEAN :
        LET known == registered[wizard.checking].known
        IN wizard' = [wizard EXCEPT !.checking = NoDocument,
                        !.duplicate = ~failed /\ known,
                        !.step = IF ~failed /\ ~known THEN 1 ELSE @]
  BY DEF SearchAnswers
<1> DEFINE duplicate == ~failed /\ registered[wizard.checking].known
           step == IF ~failed /\ ~registered[wizard.checking].known THEN 1 ELSE wizard.step
<1>3. wizard' = [wizard EXCEPT !.checking = NoDocument, !.duplicate = duplicate, !.step = step]
  BY <1>2, WizardNow DEF Wizards
<1>4. duplicate \in BOOLEAN
  OBVIOUS
<1>5. step \in 0..1
  BY WizardNow DEF Wizards
<1> HIDE DEF duplicate, step
<1>6. /\ wizard' \in Wizards /\ wizard'.typed = wizard.typed
      /\ wizard'.checking = NoDocument
  BY <1>3, <1>4, <1>5, WizardNow DEF Wizards
<1>7. WizardTyped'
  BY <1>1, <1>6, WizardNow DEF WizardTyped
<1>8. Parts
  BY InvParts
<1>9. RecordsOK' /\ SaveOK' /\ DropsNoted' /\ SaveTied' /\ SaveStored' /\ FormNoted'
  BY <1>1, <1>6, SaveKept
<1>10. ScreenOK' /\ ServerOK' /\ RestOK' /\ ModeFixed'
  BY <1>1, <1>6, <1>8 DEF Parts, ScreenOK, ServerOK, RestOK, ModeFixed, Wizards
<1> QED
  BY <1>7, <1>9, <1>10, InvPartsNext DEF Parts

-----------------------------------------------------------------------------
(* The queue *)

\* The queue is only changed while a producer is registered.
LEMMA QueueMoves ==
  ASSUME FormInv, mode = "create", queue' \in Seq(FarmData), Len(queue') <= MaxQueue,
         FormOK', Used,
         UNCHANGED <<mode, page, farms, registered, existing, loadedProducer, refetching,
                     wizard, dialog, saves, others>>
  PROVE  FormInv'
<1>1. Parts
  BY InvParts
<1>2. ScreenOK' /\ FormNoted' /\ WizardTyped'
  BY <1>1 DEF Parts, ScreenOK, FormOK, WizardTyped
<1>3. /\ RecordsOK' /\ DropsNoted' /\ SaveTied' /\ SaveStored'
      /\ save'.phase = save.phase
      /\ save'.harvests = save.harvests /\ save'.removed = save.removed
  BY UsedOK
<1>4. ServerOK' /\ RestOK' /\ SaveOK' /\ ModeFixed'
  BY <1>3, UseKept
<1> QED
  BY <1>2, <1>3, <1>4, InvPartsNext DEF Parts

LEMMA QueueCurrentFarmKeeps == ASSUME FormInv, QueueCurrentFarm PROVE FormInv'
<1>1. /\ mode = "create" /\ Len(queue) < MaxQueue
      /\ queue' = Append(queue, form.harvests) /\ StartNewFarm /\ Used
      /\ UNCHANGED <<mode, page, farms, registered, existing, loadedProducer, refetching,
                     wizard, dialog, saves, others>>
  BY DEF QueueCurrentFarm, InWizard, server, fetched, bounds
<1>2. queue \in Seq(FarmData) /\ form.harvests \in FarmData
  BY DEF FormInv, TypeOK
<1>3. queue' \in Seq(FarmData) /\ Len(queue') = Len(queue) + 1
  BY <1>1, <1>2, AppendProperties
<1>4. Len(queue') <= MaxQueue
  BY <1>1, <1>2, <1>3, LenProperties, ProducerFormAssumption
<1> QED
  BY <1>1, <1>3, <1>4, StartNewFarmOK, QueueMoves

LEMMA RemoveQueuedKeeps ==
  ASSUME FormInv, NEW i \in DOMAIN queue, RemoveQueued(i) PROVE FormInv'
<1>1. /\ mode = "create" /\ queue' = RemoveAt(queue, i) /\ Used
      /\ UNCHANGED <<mode, page, farms, registered, existing, loadedProducer, refetching,
                     form, loadedYears, wizard, dialog, saves, others>>
  BY DEF RemoveQueued, InWizard, server, fetched, bounds
<1>2. queue \in Seq(FarmData) /\ Len(queue) <= MaxQueue
  BY DEF FormInv, TypeOK
<1>3. queue' \in Seq(FarmData) /\ Len(queue') <= Len(queue)
  BY <1>1, <1>2, RemoveAtType
<1>4. Len(queue') <= MaxQueue
  BY <1>2, <1>3, LenProperties, ProducerFormAssumption
<1>5. FormOK'
  BY <1>1 DEF FormInv, TypeOK, FormOK, FormRecords, FormNoted
<1> QED
  BY <1>1, <1>3, <1>4, <1>5, QueueMoves

-----------------------------------------------------------------------------
(* Saving *)

LEMMA SubmitRegistrationKeeps == ASSUME FormInv, SubmitRegistration PROVE FormInv'
<1>1. /\ mode = "create" /\ page = "open" /\ wizard.step = 1 /\ dialog = NoDialog
      /\ ~dialog.busy /\ saves < MaxSaves
      /\ save' = [NoSave EXCEPT !.phase = "creating", !.document = wizard.typed,
                                !.farms = FarmsToSend, !.others = others]
      /\ saves' = saves + 1
      /\ UNCHANGED <<mode, page, farms, registered, existing, loadedProducer, refetching, form,
                     loadedYears, queue, wizard, dialog, others>>
  BY DEF SubmitRegistration, MaySubmit, Usable, Saving, server, fetched, screen
<1>2. Parts
  BY InvParts
<1>3. FarmsToSend \in Seq(FarmData)
  BY <1>2, AppendProperties DEF Parts, ScreenOK, FormRecords, FarmsToSend
<1>4. /\ others \in Nat /\ wizard.typed \in Documents \cup {NoDocument}
      /\ wizard.typed # NoDocument
  BY <1>1, <1>2, ProducerFormAssumption DEF Parts, ScreenOK, RestOK, WizardTyped
<1> DEFINE sent == FarmsToSend
<1>5. save' = [NoSave EXCEPT !.phase = "creating", !.document = wizard.typed,
                             !.farms = sent, !.others = others]
  BY <1>1
<1> HIDE DEF sent
<1>6. /\ save' \in Saves /\ save'.phase = "creating" /\ save'.document = wizard.typed
      /\ save'.farms = sent /\ save'.others = others
      /\ save'.removed = {} /\ save'.switched = FALSE
  BY <1>3, <1>4, <1>5, NoSaveType DEF Saves, Phases, NoSave, sent
<1>7. RecordsOK' /\ SaveOK' /\ ModeFixed'
  BY <1>1, <1>2, <1>4, <1>6 DEF Parts, RecordsOK, SaveOK, ModeFixed
<1>8. SaveTied'
  BY <1>1, <1>4, <1>6 DEF SaveTied, FarmsToSend, sent
<1>9. DropsNoted' /\ SaveStored'
  BY <1>6 DEF DropsNoted, SaveStored
<1>10. ScreenOK' /\ ServerOK' /\ FormNoted' /\ WizardTyped'
  BY <1>1, <1>2 DEF Parts, ScreenOK, ServerOK, FormNoted, WizardTyped
<1>11. RestOK'
  BY <1>1, <1>2, ProducerFormAssumption DEF Parts, RestOK
<1> QED
  BY <1>7, <1>8, <1>9, <1>10, <1>11, InvPartsNext DEF Parts

LEMMA SubmitFarmKeeps == ASSUME FormInv, SubmitFarm PROVE FormInv'
<1> DEFINE target == IF form.adding THEN NoFarm ELSE form.editing
           dropped == form.shown \ YearsOf(form.harvests)
<1>1. /\ mode = "edit" /\ page = "open" /\ ~dialog.busy /\ saves < MaxSaves
      /\ save' = [NoSave EXCEPT !.phase = "renaming", !.target = target,
                                !.harvests = form.harvests, !.dropped = dropped,
                                !.others = others]
      /\ saves' = saves + 1
      /\ UNCHANGED <<mode, page, farms, registered, existing, loadedProducer, refetching, form,
                     loadedYears, queue, wizard, dialog, others>>
  BY DEF SubmitFarm, MaySubmit, Usable, Saving, server, fetched, screen
<1>2. Parts
  BY InvParts
<1>3. /\ target = form.editing /\ target \in Farms \cup {NoFarm}
      /\ form.harvests \in FarmData /\ dropped \in SUBSET Years /\ others \in Nat
  BY <1>2, ProducerFormAssumption DEF Parts, ScreenOK, FormRecords, FormNoted, RestOK
<1>4. dropped = loadedYears \ YearsOf(form.harvests)
  BY <1>2 DEF Parts, FormNoted
<1>5. dropped = form.shown \ YearsOf(form.harvests)
  OBVIOUS
<1> HIDE DEF target, dropped
<1>6. /\ save' \in Saves /\ save'.phase = "renaming" /\ save'.target = target
      /\ save'.harvests = form.harvests /\ save'.dropped = dropped /\ save'.others = others
      /\ save'.removed = {} /\ save'.switched = FALSE
  BY <1>1, <1>3, NoSaveType DEF Saves, Phases, NoSave
<1>7. RecordsOK' /\ SaveOK' /\ ModeFixed'
  BY <1>1, <1>2, <1>3, <1>6 DEF Parts, RecordsOK, SaveOK, ModeFixed
<1>8. SaveTied'
  BY <1>1, <1>3, <1>5, <1>6 DEF SaveTied
<1>9. DropsNoted' /\ SaveStored'
  BY <1>1, <1>4, <1>6 DEF DropsNoted, SaveStored
<1>10. ScreenOK' /\ ServerOK' /\ FormNoted' /\ WizardTyped'
  BY <1>1, <1>2 DEF Parts, ScreenOK, ServerOK, FormNoted, WizardTyped
<1>11. RestOK'
  BY <1>1, <1>2, ProducerFormAssumption DEF Parts, RestOK
<1> QED
  BY <1>7, <1>8, <1>9, <1>10, <1>11, InvPartsNext DEF Parts

\* The body of the second request: of the years the ref holds, those not sent.
LEMMA RenameAnswersKeeps == ASSUME FormInv, RenameAnswers PROVE FormInv'
<1> DEFINE removed == loadedYears \ YearsOf(save.harvests)
<1>1. /\ save.phase = "renaming" /\ refetching' = TRUE
      /\ save' = [save EXCEPT !.phase = "writing", !.removed = removed]
      /\ UNCHANGED <<mode, page, farms, registered, existing, loadedProducer, form,
                     loadedYears, queue, wizard, dialog, saves, others>>
  BY DEF RenameAnswers, RemovedHarvestYears, server, screen, bounds
<1>2. Parts
  BY InvParts
<1>3. removed \in SUBSET Years /\ removed \subseteq Years \ YearsOf(save.harvests)
  BY <1>2 DEF Parts, ScreenOK
<1>4. ~save.switched => save.dropped = removed
  BY <1>1, <1>2 DEF Parts, DropsNoted
<1> HIDE DEF removed
<1>5. /\ save' \in Saves /\ save'.phase = "writing" /\ save'.removed = removed
      /\ save'.target = save.target /\ save'.harvests = save.harvests
      /\ save'.document = save.document /\ save'.farms = save.farms
      /\ save'.dropped = save.dropped /\ save'.touched = save.touched
      /\ save'.switched = save.switched /\ save'.others = save.others
  BY <1>1, <1>2, <1>3 DEF Parts, RecordsOK, Saves, Phases
<1>6. RecordsOK' /\ SaveOK' /\ ModeFixed'
  BY <1>1, <1>2, <1>3, <1>5 DEF Parts, RecordsOK, SaveOK, ModeFixed
<1>7. SaveTied'
  BY <1>1, <1>2, <1>5 DEF Parts, SaveTied
<1>8. DropsNoted' /\ SaveStored'
  BY <1>4, <1>5 DEF DropsNoted, SaveStored
<1>9. ScreenOK' /\ ServerOK' /\ RestOK' /\ FormNoted' /\ WizardTyped'
  BY <1>1, <1>2 DEF Parts, ScreenOK, ServerOK, RestOK, FormNoted, WizardTyped
<1> QED
  BY <1>6, <1>7, <1>8, <1>9, InvPartsNext DEF Parts

\* What the server stores of a save
Written(f) ==
  /\ save.target \in {f, NoFarm}
  /\ Exists(farms, f)'
  /\ \A y \in YearsOf(save.harvests) : farms'[f][y] = save.harvests[y]
  /\ save.removed = save.dropped => \A y \in save.dropped : farms'[f][y] = NoHarvest

LEMMA WriteFarmStores ==
  ASSUME FormInv, WriteFarm
  PROVE  /\ farms' \in [Farms -> FarmData \cup {NoFarm, Deleted}]
         /\ \E f \in Farms : Written(f)
<1>1. Parts
  BY InvParts
<1>2. /\ save.harvests \in FarmData /\ save.target \in Farms \cup {NoFarm}
      /\ save.removed \subseteq Years \ YearsOf(save.harvests)
      /\ farms \in [Farms -> FarmData \cup {NoFarm, Deleted}]
  BY <1>1 DEF Parts, RecordsOK, Saves, SaveOK, ServerOK
<1>3. \A y \in save.removed : y \in Years /\ save.harvests[y] = NoHarvest
  BY <1>2 DEF YearsOf
<1>4. CASE save.target = NoFarm
  <2>1. PICK f \in Unused : farms' = [farms EXCEPT ![f] = save.harvests]
    BY <1>4 DEF WriteFarm
  <2>2. f \in Farms
    BY DEF Unused
  <2>3. farms' \in [Farms -> FarmData \cup {NoFarm, Deleted}] /\ farms'[f] = save.harvests
    BY <1>2, <2>1, <2>2
  <2>4. Written(f)
    BY <1>2, <1>3, <1>4, <2>3, FarmsAssumption DEF Written, Exists
  <2> QED
    BY <2>2, <2>3, <2>4
<1>5. CASE save.target # NoFarm
  <2>0. PICK f \in Farms : f = save.target
    BY <1>2, <1>5
  <2> DEFINE merged == Merged(farms[f], save.harvests, save.removed)
  <2>1. /\ f \in Farms /\ Exists(farms, f)
        /\ farms' = [farms EXCEPT ![f] = merged]
    BY <1>2, <1>5, <2>0 DEF WriteFarm
  <2>2. farms[f] \in FarmData
    BY <1>2, <2>1, ExistingFarm
  <2>3. merged \in FarmData
    BY <1>2, <2>2, MergedType
  <2>4. \A y \in Years :
          merged[y] = IF save.harvests[y] # NoHarvest THEN save.harvests[y]
                      ELSE IF y \in save.removed THEN NoHarvest ELSE farms[f][y]
    BY DEF Merged
  <2> HIDE DEF merged
  <2>5. farms' \in [Farms -> FarmData \cup {NoFarm, Deleted}] /\ farms'[f] = merged
    BY <1>2, <2>1, <2>3
  <2>6. Exists(farms, f)'
    BY <2>3, <2>5, FarmsAssumption DEF Exists
  <2>7. \A y \in YearsOf(save.harvests) : farms'[f][y] = save.harvests[y]
    BY <2>4, <2>5 DEF YearsOf
  <2>8. \A y \in save.removed : farms'[f][y] = NoHarvest
    BY <1>3, <2>4, <2>5
  <2>9. Written(f)
    BY <2>0, <2>6, <2>7, <2>8 DEF Written
  <2> QED
    BY <2>1, <2>5, <2>9
<1> QED
  BY <1>4, <1>5

\* What changes when the server has done what the last request asked.
LEMMA AnsweredOK ==
  ASSUME FormInv, save.phase # "idle", save' = [save EXCEPT !.phase = "answered"]
  PROVE  /\ save' \in Saves /\ save'.phase = "answered" /\ save'.removed = save.removed
         /\ save'.target = save.target /\ save'.harvests = save.harvests
         /\ save'.document = save.document /\ save'.farms = save.farms
         /\ save'.dropped = save.dropped /\ save'.touched = save.touched
         /\ save'.switched = save.switched /\ save'.others = save.others
BY DEF FormInv, RecordsOK, Saves, Phases

LEMMA WriteFarmKeeps == ASSUME FormInv, WriteFarm PROVE FormInv'
<1>1. /\ save.phase = "writing" /\ save' = [save EXCEPT !.phase = "answered"]
      /\ UNCHANGED <<mode, page, registered, existing, loadedProducer, refetching, form,
                     loadedYears, queue, wizard, dialog, saves, others>>
  BY DEF WriteFarm, fetched, screen, bounds
<1>2. Parts
  BY InvParts
<1>3. /\ save' \in Saves /\ save'.phase = "answered" /\ save'.removed = save.removed
      /\ save'.target = save.target /\ save'.harvests = save.harvests
      /\ save'.document = save.document /\ save'.farms = save.farms
      /\ save'.dropped = save.dropped /\ save'.touched = save.touched
      /\ save'.switched = save.switched /\ save'.others = save.others
  BY <1>1, AnsweredOK
<1>4. /\ farms' \in [Farms -> FarmData \cup {NoFarm, Deleted}]
      /\ \E f \in Farms : Written(f)
  BY WriteFarmStores
<1>5. RecordsOK' /\ SaveOK' /\ ModeFixed' /\ DropsNoted'
  BY <1>1, <1>2, <1>3 DEF Parts, RecordsOK, SaveOK, ModeFixed, DropsNoted
<1>6. SaveTied'
  BY <1>1, <1>2, <1>3 DEF Parts, SaveTied
<1>7. SaveStored'
  <2>1. SUFFICES ASSUME ~save.touched
                 PROVE  \E f \in Farms :
                          /\ save'.target \in {f, NoFarm}
                          /\ Exists(farms, f)'
                          /\ \A y \in YearsOf(save'.harvests) : farms'[f][y] = save'.harvests[y]
                          /\ \A y \in save'.dropped : farms'[f][y] = NoHarvest
    BY <1>1, <1>2, <1>3 DEF Parts, ModeFixed, SaveStored
  <2>2. save.removed = save.dropped
    BY <1>1, <1>2, <2>1 DEF Parts, SaveTied, DropsNoted
  <2>3. PICK f \in Farms : Written(f)
    BY <1>4
  <2> QED
    BY <1>3, <2>2, <2>3 DEF Written
<1>8. ScreenOK' /\ ServerOK' /\ RestOK' /\ FormNoted' /\ WizardTyped'
  BY <1>1, <1>2, <1>4 DEF Parts, ScreenOK, ServerOK, RestOK, FormNoted, WizardTyped
<1> QED
  BY <1>5, <1>6, <1>7, <1>8, InvPartsNext DEF Parts

LEMMA RegisterKeeps == ASSUME FormInv, Register PROVE FormInv'
<1> DEFINE entry == [known |-> TRUE, farms |-> save.farms]
<1>1. /\ save.phase = "creating" /\ save' = [save EXCEPT !.phase = "answered"]
      /\ registered' = [registered EXCEPT ![save.document] = entry]
      /\ UNCHANGED <<mode, page, farms, existing, loadedProducer, refetching, form,
                     loadedYears, queue, wizard, dialog, saves, others>>
  BY DEF Register, fetched, screen, bounds
<1>2. Parts
  BY InvParts
<1>3. /\ save' \in Saves /\ save'.phase = "answered" /\ save'.removed = save.removed
      /\ save'.target = save.target /\ save'.harvests = save.harvests
      /\ save'.document = save.document /\ save'.farms = save.farms
      /\ save'.dropped = save.dropped /\ save'.touched = save.touched
      /\ save'.switched = save.switched /\ save'.others = save.others
  BY <1>1, AnsweredOK
<1>4. entry \in Registrations /\ entry.farms = save.farms
  BY <1>2 DEF Parts, RecordsOK, Saves, Registrations
<1> HIDE DEF entry
<1>5. registered' \in [Documents -> Registrations]
  BY <1>1, <1>2, <1>4 DEF Parts, RecordsOK
<1>6. RecordsOK' /\ SaveOK' /\ ModeFixed' /\ DropsNoted'
  BY <1>1, <1>2, <1>3, <1>5 DEF Parts, RecordsOK, SaveOK, ModeFixed, DropsNoted
<1>7. SaveTied'
  BY <1>1, <1>2, <1>3 DEF Parts, SaveTied
<1>8. SaveStored'
  <2>1. SUFFICES ASSUME ~save.touched
                 PROVE  registered'[save.document].farms = save.farms
    BY <1>1, <1>2, <1>3 DEF Parts, ModeFixed, SaveStored
  <2>2. save.document \in Documents
    BY <1>1, <1>2, <2>1 DEF Parts, ModeFixed, SaveTied, RecordsOK, Saves
  <2> QED
    BY <1>1, <1>2, <1>4, <2>2 DEF Parts, RecordsOK
<1>9. ScreenOK' /\ ServerOK' /\ RestOK' /\ FormNoted' /\ WizardTyped'
  BY <1>1, <1>2 DEF Parts, ScreenOK, ServerOK, RestOK, FormNoted, WizardTyped
<1> QED
  BY <1>6, <1>7, <1>8, <1>9, InvPartsNext DEF Parts

LEMMA SaveAnswersKeeps == ASSUME FormInv, SaveAnswers PROVE FormInv'
<1>1. /\ page' = "left" /\ save' = NoSave
      /\ UNCHANGED <<mode, farms, registered, existing, loadedProducer, refetching, form,
                     loadedYears, queue, wizard, dialog, saves, others>>
  BY DEF SaveAnswers, server, fetched, screen, bounds
<1>2. Parts
  BY InvParts
<1>3. RecordsOK' /\ DropsNoted' /\ SaveTied' /\ SaveStored' /\ (save.phase = "idle")'
  BY <1>1, NoSaveOK
<1>4. SaveOK' /\ ModeFixed'
  BY <1>1, <1>3 DEF SaveOK, ModeFixed, NoSave
<1>5. ScreenOK' /\ ServerOK' /\ RestOK' /\ FormNoted' /\ WizardTyped'
  BY <1>1, <1>2 DEF Parts, ScreenOK, ServerOK, RestOK, FormNoted, WizardTyped
<1> QED
  BY <1>3, <1>4, <1>5, InvPartsNext DEF Parts

LEMMA SaveFailsKeeps == ASSUME FormInv, SaveFails PROVE FormInv'
<1>1. /\ save' = NoSave /\ refetching' = (mode = "edit")
      /\ UNCHANGED <<mode, page, farms, registered, existing, loadedProducer, form,
                     loadedYears, queue, wizard, dialog, saves, others>>
  BY DEF SaveFails, server, screen, bounds
<1>2. Parts
  BY InvParts
<1>3. RecordsOK' /\ DropsNoted' /\ SaveTied' /\ SaveStored' /\ (save.phase = "idle")'
  BY <1>1, NoSaveOK
<1>4. SaveOK'
  BY <1>1 DEF SaveOK, NoSave
<1>5. ModeFixed'
  BY <1>1, <1>2, <1>3 DEF Parts, ModeFixed
<1>6. refetching' \in BOOLEAN
  BY <1>1
<1>7. ScreenOK' /\ ServerOK' /\ RestOK' /\ FormNoted' /\ WizardTyped'
  BY <1>1, <1>2, <1>6 DEF Parts, ScreenOK, ServerOK, RestOK, FormNoted, WizardTyped
<1> QED
  BY <1>3, <1>4, <1>5, <1>7, InvPartsNext DEF Parts

-----------------------------------------------------------------------------
(* Deleting, other clients, and opening the page again *)

\* The dialog opens and closes.
LEMMA DialogMoves ==
  ASSUME FormInv, dialog' \in [farm : Farms \cup {NoFarm}, busy : BOOLEAN], ~dialog'.busy,
         UNCHANGED <<mode, page, farms, registered, existing, loadedProducer, refetching, form,
                     loadedYears, queue, wizard, save, saves, others>>
  PROVE  FormInv'
<1>1. Parts
  BY InvParts
<1>2. RecordsOK' /\ SaveOK' /\ DropsNoted' /\ SaveTied' /\ SaveStored' /\ FormNoted'
  BY SaveKept
<1>3. ScreenOK' /\ ServerOK' /\ RestOK' /\ WizardTyped' /\ ModeFixed'
  BY <1>1 DEF Parts, ScreenOK, ServerOK, RestOK, WizardTyped, ModeFixed
<1> QED
  BY <1>2, <1>3, InvPartsNext DEF Parts

LEMMA AskDeleteKeeps == ASSUME FormInv, NEW f \in Farms, AskDelete(f) PROVE FormInv'
BY DialogMoves DEF AskDelete, server, fetched, screen, bounds

LEMMA CancelKeeps == ASSUME FormInv, Cancel PROVE FormInv'
BY DialogMoves DEF Cancel, NoDialog, server, fetched, screen, bounds

LEMMA ConfirmDeleteKeeps == ASSUME FormInv, ConfirmDelete PROVE FormInv'
<1>1. /\ saves < MaxSaves /\ dialog' = [dialog EXCEPT !.busy = TRUE] /\ saves' = saves + 1
      /\ Used
      /\ UNCHANGED <<mode, page, farms, registered, existing, loadedProducer, refetching, form,
                     loadedYears, queue, wizard, others>>
  BY DEF ConfirmDelete, server, fetched, screen
<1>2. Parts
  BY InvParts
<1>3. /\ RecordsOK' /\ DropsNoted' /\ SaveTied' /\ SaveStored'
      /\ save'.phase = save.phase
      /\ save'.harvests = save.harvests /\ save'.removed = save.removed
  BY <1>1, UsedOK
<1>4. SaveOK' /\ ModeFixed'
  BY <1>1, <1>2, <1>3 DEF Parts, SaveOK, ModeFixed
<1>5. RestOK'
  <2>1. RestOK
    BY <1>2 DEF Parts
  <2>2. saves' \in 0..MaxSaves
    BY <1>1, <2>1, ProducerFormAssumption DEF RestOK
  <2>3. dialog' \in [farm : Farms \cup {NoFarm}, busy : BOOLEAN]
    BY <1>1, <2>1 DEF RestOK
  <2> QED
    BY <1>1, <2>1, <2>2, <2>3 DEF RestOK
<1>6. ScreenOK' /\ ServerOK' /\ FormNoted' /\ WizardTyped'
  BY <1>1, <1>2 DEF Parts, ScreenOK, ServerOK, FormNoted, WizardTyped
<1> QED
  BY <1>3, <1>4, <1>5, <1>6, InvPartsNext DEF Parts

\* A deletion is only under way beside a save if the page was used meanwhile.
LEMMA DeletingTouches ==
  ASSUME FormInv, dialog.busy
  PROVE  save.phase = "idle" \/ save.touched
BY DEF FormInv, SaveTied

LEMMA DeleteAnswersKeeps == ASSUME FormInv, DeleteAnswers PROVE FormInv'
<1>1. /\ dialog.busy /\ dialog' = NoDialog /\ refetching' = TRUE
      /\ farms' = [farms EXCEPT ![dialog.farm] = Deleted]
      /\ \/ StartNewFarm /\ Switched
         \/ UNCHANGED <<form, loadedYears, save>>
      /\ UNCHANGED <<mode, page, registered, existing, loadedProducer, queue, wizard,
                     saves, others>>
  BY DEF DeleteAnswers, bounds
<1>2. Parts
  BY InvParts
<1>3. FormOK'
  <2>1. CASE StartNewFarm
    BY <2>1, StartNewFarmOK
  <2>2. CASE UNCHANGED <<form, loadedYears, save>>
    BY <1>2, <2>2 DEF Parts, ScreenOK, FormOK, FormNoted
  <2> QED
    BY <1>1, <2>1, <2>2
<1>4. /\ RecordsOK' /\ DropsNoted' /\ SaveTied' /\ SaveStored'
      /\ save'.phase = save.phase
      /\ save'.harvests = save.harvests /\ save'.removed = save.removed
  <2>1. CASE Switched
    BY <1>1, <2>1, SwitchedOK
  <2>2. CASE UNCHANGED <<form, loadedYears, save>>
    <3>1. RecordsOK' /\ DropsNoted'
      BY <1>1, <1>2, <2>2 DEF Parts, RecordsOK, DropsNoted
    <3>2. SaveTied' /\ SaveStored'
      BY <1>1, <2>2, DeletingTouches DEF SaveTied, SaveStored
    <3> QED
      BY <2>2, <3>1, <3>2
  <2> QED
    BY <1>1, <2>1, <2>2
<1>5. SaveOK' /\ ModeFixed'
  BY <1>1, <1>2, <1>4 DEF Parts, SaveOK, ModeFixed
<1>6. ScreenOK' /\ WizardTyped'
  BY <1>1, <1>2, <1>3 DEF Parts, ScreenOK, FormOK, WizardTyped
<1>7. ServerOK' /\ RestOK'
  BY <1>1, <1>2 DEF Parts, ServerOK, RestOK, NoDialog
<1> QED
  BY <1>3, <1>4, <1>5, <1>6, <1>7, InvPartsNext DEF Parts, FormOK

LEMMA DeleteFailsKeeps == ASSUME FormInv, DeleteFails PROVE FormInv'
<1>1. /\ dialog.busy /\ dialog' = [dialog EXCEPT !.busy = FALSE] /\ refetching' = TRUE
      /\ farms' = farms \/ farms' = [farms EXCEPT ![dialog.farm] = Deleted]
      /\ UNCHANGED <<mode, page, registered, existing, loadedProducer, form, loadedYears,
                     queue, wizard, save, saves, others>>
  BY DEF DeleteFails, screen, bounds
<1>2. Parts
  BY InvParts
<1>3. RecordsOK' /\ SaveOK' /\ DropsNoted' /\ ModeFixed'
  BY <1>1, <1>2 DEF Parts, RecordsOK, SaveOK, DropsNoted, ModeFixed
<1>4. SaveTied' /\ SaveStored'
  BY <1>1, DeletingTouches DEF SaveTied, SaveStored
<1>5. ServerOK' /\ RestOK'
  BY <1>1, <1>2 DEF Parts, ServerOK, RestOK
<1>6. ScreenOK' /\ FormNoted' /\ WizardTyped'
  BY <1>1, <1>2 DEF Parts, ScreenOK, FormNoted, WizardTyped
<1> QED
  BY <1>3, <1>4, <1>5, <1>6, InvPartsNext DEF Parts

LEMMA OtherWritesTypes ==
  ASSUME FormInv, OtherWrites
  PROVE  /\ farms' \in [Farms -> FarmData \cup {NoFarm, Deleted}]
         /\ registered' \in [Documents -> Registrations]
<1>1. /\ farms \in [Farms -> FarmData \cup {NoFarm, Deleted}]
      /\ registered \in [Documents -> Registrations]
  BY DEF FormInv, TypeOK, RecordsOK
<1>2. ASSUME NEW f \in Farms, NEW y \in Years, NEW c \in CropLists \cup {NoHarvest},
             Exists(farms, f), farms' = [farms EXCEPT ![f][y] = c], UNCHANGED registered
      PROVE  farms' \in [Farms -> FarmData \cup {NoFarm, Deleted}]
  <2> DEFINE farm == [farms[f] EXCEPT ![y] = c]
  <2>1. farm \in FarmData
    BY <1>1, <1>2, ExistingFarm DEF FarmData
  <2>2. farms' = [farms EXCEPT ![f] = farm]
    BY <1>1, <1>2
  <2> HIDE DEF farm
  <2> QED
    BY <1>1, <2>1, <2>2
<1>3. ASSUME NEW f \in Farms, farms' = [farms EXCEPT ![f] = Deleted]
      PROVE  farms' \in [Farms -> FarmData \cup {NoFarm, Deleted}]
  BY <1>1, <1>3
<1>4. ASSUME NEW d \in Documents, registered' = [registered EXCEPT ![d].known = TRUE]
      PROVE  registered' \in [Documents -> Registrations]
  <2> DEFINE entry == [registered[d] EXCEPT !.known = TRUE]
  <2>1. entry \in Registrations
    BY <1>1 DEF Registrations
  <2>2. registered' = [registered EXCEPT ![d] = entry]
    BY <1>1, <1>4
  <2> HIDE DEF entry
  <2> QED
    BY <1>1, <2>1, <2>2
<1> QED
  BY <1>1, <1>2, <1>3, <1>4 DEF OtherWrites

LEMMA OtherWritesKeeps == ASSUME FormInv, OtherWrites PROVE FormInv'
<1>1. /\ others < MaxOthers /\ others' = others + 1
      /\ UNCHANGED <<mode, page, existing, loadedProducer, refetching, form, loadedYears,
                     queue, wizard, save, dialog, saves>>
  BY DEF OtherWrites, fetched, screen
<1>2. Parts
  BY InvParts
<1>3. save.others \in Nat /\ others \in Nat /\ save.others <= others
  BY <1>2, ProducerFormAssumption DEF Parts, RecordsOK, Saves, RestOK
<1>4. RecordsOK' /\ ServerOK'
  BY <1>1, <1>2, <1>3, OtherWritesTypes DEF Parts, RecordsOK, ServerOK
<1>5. SaveStored'
  BY <1>1, <1>3 DEF SaveStored
<1>6. SaveOK' /\ DropsNoted' /\ ModeFixed'
  BY <1>1, <1>2 DEF Parts, SaveOK, DropsNoted, ModeFixed
<1>7. SaveTied'
  BY <1>1, <1>2 DEF Parts, SaveTied
<1>8. RestOK'
  BY <1>1, <1>2, ProducerFormAssumption DEF Parts, RestOK
<1>9. ScreenOK' /\ FormNoted' /\ WizardTyped'
  BY <1>1, <1>2 DEF Parts, ScreenOK, FormNoted, WizardTyped
<1> QED
  BY <1>4, <1>5, <1>6, <1>7, <1>8, <1>9, InvPartsNext DEF Parts

LEMMA ReopenKeeps == ASSUME FormInv, Reopen PROVE FormInv'
<1>1. /\ page' = FirstPage /\ wizard' = FirstWizard
      /\ existing' = NoTable /\ loadedProducer' = FALSE /\ refetching' = FALSE
      /\ StartNewFarm /\ queue' = <<>> /\ save' = NoSave /\ dialog' = NoDialog
      /\ UNCHANGED <<mode, farms, registered, saves, others>>
  BY DEF Reopen, NoExisting, server, bounds
<1>2. Parts
  BY InvParts
<1>3. RecordsOK' /\ DropsNoted' /\ SaveTied' /\ SaveStored' /\ (save.phase = "idle")'
  BY <1>1, NoSaveOK
<1>4. FormOK'
  BY <1>1, StartNewFarmOK
<1>5. SaveOK'
  BY <1>1 DEF SaveOK, NoSave
<1>6. WizardTyped' /\ ModeFixed'
  BY <1>1, <1>3 DEF WizardTyped, ModeFixed, FirstWizard, FirstPage
<1>7. ScreenOK'
  BY <1>1, <1>4, EmptySeq, ProducerFormAssumption DEF ScreenOK, FormOK, FirstWizard
<1>8. ServerOK'
  BY <1>1, <1>2 DEF Parts, ServerOK, NoTable
<1>9. RestOK'
  <2>1. page' \in {"loading", "failed", "open", "left"}
    BY <1>1 DEF FirstPage
  <2> QED
    BY <1>1, <1>2, <2>1 DEF Parts, RestOK, NoDialog
<1> QED
  BY <1>3, <1>4, <1>5, <1>6, <1>7, <1>8, <1>9, InvPartsNext DEF Parts, FormOK

\* Every step keeps the invariant.
LEMMA FormInvNext == FormInv /\ [Next]_vars => FormInv'
<1> SUFFICES ASSUME FormInv, [Next]_vars PROVE FormInv'
  OBVIOUS
<1>1. CASE FetchAnswers \/ FetchFails \/ Retry
  BY <1>1, FetchAnswersKeeps, FetchFailsKeeps, RetryKeeps
<1>2. CASE \E f \in Farms : ClickFarm(f) \/ AskDelete(f)
  BY <1>2, ClickFarmKeeps, AskDeleteKeeps
<1>3. CASE ClickNewFarm
  BY <1>3, ClickNewFarmKeeps
<1>4. CASE \E y \in Years, c \in CropLists \cup {NoHarvest} : EditYear(y, c)
  BY <1>4, EditYearKeeps
<1>5. CASE \E d \in Documents : TypeDocument(d)
  BY <1>5, TypeDocumentKeeps
<1>6. CASE Continue \/ SearchAnswers \/ Back \/ QueueCurrentFarm
  BY <1>6, ContinueKeeps, SearchAnswersKeeps, BackKeeps, QueueCurrentFarmKeeps
<1>7. CASE \E i \in DOMAIN queue : RemoveQueued(i)
  BY <1>7, RemoveQueuedKeeps
<1>8. CASE SubmitRegistration \/ SubmitFarm \/ RenameAnswers \/ WriteFarm \/ Register
  BY <1>8, SubmitRegistrationKeeps, SubmitFarmKeeps, RenameAnswersKeeps, WriteFarmKeeps,
     RegisterKeeps
<1>9. CASE SaveAnswers \/ SaveFails
  BY <1>9, SaveAnswersKeeps, SaveFailsKeeps
<1>10. CASE Cancel \/ ConfirmDelete \/ DeleteAnswers \/ DeleteFails
  BY <1>10, CancelKeeps, ConfirmDeleteKeeps, DeleteAnswersKeeps, DeleteFailsKeeps
<1>11. CASE OtherWrites \/ Reopen
  BY <1>11, OtherWritesKeeps, ReopenKeeps
<1>12. CASE UNCHANGED vars
  BY <1>12 DEF vars, FormInv, TypeOK, RecordsOK, FormNoted, WizardTyped, ModeFixed,
     DropsNoted, SaveTied, SaveStored, Exists
<1> QED
  BY <1>1, <1>2, <1>3, <1>4, <1>5, <1>6, <1>7, <1>8, <1>9, <1>10, <1>11, <1>12 DEF Next

-----------------------------------------------------------------------------
(* The theorems *)

\* The state of the page and of the server always keeps the inductive
\* invariant.
THEOREM FormInvariant == Spec => []FormInv
BY FormInvInit, FormInvNext, PTL DEF Spec

\* The types: the form, the queue and every request stay within what the page
\* and the API accept, and no year is both sent and removed, which
\* UpdateFarmUseCase refuses.
THEOREM FormTyped == Spec => []TypeOK
<1>1. FormInv => TypeOK
  BY DEF FormInv
<1> QED
  BY <1>1, FormInvariant, PTL

\* The step that performs an update is the server's, on a farm that exists.
LEMMA UpdateIsWrite ==
  ASSUME FormInv, [Next]_vars, Updates
  PROVE  /\ save.target \in Farms /\ Exists(farms, save.target)
         /\ farms' = [farms EXCEPT ![save.target] = Merged(@, save.harvests, save.removed)]
<1>1. save \in Saves /\ save.phase = "writing" /\ save'.phase = "answered"
  BY DEF Updates, FormInv, RecordsOK
<1>2. Used \/ Switched => save'.phase = save.phase
  BY <1>1 DEF Used, Switched, Saves
<1>3. save'.phase # save.phase /\ save' # save /\ save' # NoSave
  BY <1>1 DEF NoSave
<1>4. WriteFarm
  BY <1>1, <1>2, <1>3
     DEF Next, vars, FetchAnswers, FetchFails, Retry, ClickFarm, AskDelete, ClickNewFarm, EditYear,
         TypeDocument, Continue, SearchAnswers, Back, QueueCurrentFarm, RemoveQueued,
         SubmitRegistration, MaySubmit, Saving, SubmitFarm, RenameAnswers, Register, SaveAnswers,
         SaveFails, Cancel, ConfirmDelete, DeleteAnswers, DeleteFails, OtherWrites, Reopen
<1> QED
  BY <1>1, <1>4 DEF WriteFarm, Updates, Saves

\* Saving an edited farm does to the stored farm what was asked and no more,
\* unless another farm was put into the form meanwhile.
THEOREM SavesExact == Spec => SavesAreExact
<1>1. ASSUME FormInv, [Next]_vars, Updates, ~save.switched
      PROVE  farms'[save.target] = AsAsked(farms[save.target])
  <2>1. /\ save.target \in Farms
        /\ farms' = [farms EXCEPT ![save.target] = Merged(@, save.harvests, save.removed)]
    BY <1>1, UpdateIsWrite
  <2>2. save.removed = save.dropped
    BY <1>1 DEF Updates, FormInv, DropsNoted
  <2>3. farms'[save.target] = Merged(farms[save.target], save.harvests, save.dropped)
    BY <1>1, <2>1, <2>2 DEF FormInv, TypeOK
  <2>4. ASSUME NEW farm
        PROVE  Merged(farm, save.harvests, save.dropped) = AsAsked(farm)
    <3>1. ASSUME NEW y \in Years
          PROVE  (IF save.harvests[y] # NoHarvest THEN save.harvests[y]
                  ELSE IF y \in save.dropped THEN NoHarvest ELSE farm[y])
                 = CASE save.harvests[y] # NoHarvest -> save.harvests[y]
                     [] save.harvests[y] = NoHarvest /\ y \in save.dropped -> NoHarvest
                     [] OTHER -> farm[y]
      OBVIOUS
    <3> QED
      BY <3>1 DEF Merged, AsAsked
  <2> QED
    BY <2>3, <2>4
<1> QED
  BY <1>1, FormInvariant, PTL DEF Spec, SavesAreExact

\* The page is left only by the answer to a save.
LEMMA LeavingIsSaved ==
  ASSUME FormInv, [Next]_vars, page # "left", page' = "left"
  PROVE  SaveAnswers
BY DEF Next, vars, FetchAnswers, FetchFails, Retry, ClickFarm, AskDelete, ClickNewFarm, EditYear,
       TypeDocument, Continue, SearchAnswers, Back, QueueCurrentFarm, RemoveQueued,
       SubmitRegistration, SubmitFarm, RenameAnswers, WriteFarm, Register, SaveFails, Cancel,
       ConfirmDelete, DeleteAnswers, DeleteFails, OtherWrites, Reopen

\* When the page says that it saved, what it shows is stored, unless the page
\* was used or another client wrote while it saved.
THEOREM SavedIsStored == Spec => SavedMeansStored
<1>1. ASSUME FormInv, [Next]_vars, page # "left", page' = "left", ~save.touched,
             save.others = others
      PROVE  /\ mode = "create" =>
                  registered[wizard.typed].farms = Append(queue, form.harvests)
             /\ mode = "edit" => \E f \in Farms :
                  /\ form.adding \/ f = form.editing
                  /\ Exists(farms, f)
                  /\ \A y \in YearsOf(form.harvests) : farms[f][y] = form.harvests[y]
                  /\ \A y \in form.shown \ YearsOf(form.harvests) : farms[f][y] = NoHarvest
  <2>1. save.phase = "answered"
    BY <1>1, LeavingIsSaved DEF SaveAnswers
  <2>2. SaveTied /\ SaveStored /\ FormNoted
    BY <1>1 DEF FormInv
  <2>3. ASSUME mode = "create"
        PROVE  registered[wizard.typed].farms = Append(queue, form.harvests)
    BY <1>1, <2>1, <2>2, <2>3 DEF SaveTied, SaveStored
  <2>4. ASSUME mode = "edit"
        PROVE  \E f \in Farms :
                 /\ form.adding \/ f = form.editing
                 /\ Exists(farms, f)
                 /\ \A y \in YearsOf(form.harvests) : farms[f][y] = form.harvests[y]
                 /\ \A y \in form.shown \ YearsOf(form.harvests) : farms[f][y] = NoHarvest
    <3>1. /\ save.target = form.editing /\ save.harvests = form.harvests
          /\ save.dropped = form.shown \ YearsOf(form.harvests)
      BY <1>1, <2>1, <2>2, <2>4 DEF SaveTied
    <3>2. PICK f \in Farms :
            /\ save.target \in {f, NoFarm}
            /\ Exists(farms, f)
            /\ \A y \in YearsOf(save.harvests) : farms[f][y] = save.harvests[y]
            /\ \A y \in save.dropped : farms[f][y] = NoHarvest
      BY <1>1, <2>1, <2>2, <2>4 DEF SaveStored
    <3>3. form.adding \/ f = form.editing
      BY <2>2, <3>1, <3>2 DEF FormNoted
    <3> QED
      BY <3>1, <3>2, <3>3
  <2> QED
    BY <2>3, <2>4
<1> QED
  BY <1>1, FormInvariant, PTL DEF Spec, SavedMeansStored

\* Before the first answer the form of an edited producer is not touched.
Unfilled == mode = "edit" /\ ~loadedProducer => form.edits = 0

LEMMA UnfilledNext ==
  ASSUME FormInv, Unfilled, [Next]_vars
  PROVE  Unfilled'
<1>1. mode' = mode
  BY DEF Next, vars, FetchAnswers, FetchFails, Retry, ClickFarm, AskDelete, ClickNewFarm, EditYear,
         TypeDocument, Continue, SearchAnswers, Back, QueueCurrentFarm, RemoveQueued,
         SubmitRegistration, SubmitFarm, RenameAnswers, WriteFarm, Register, SaveAnswers,
         SaveFails, Cancel, ConfirmDelete, DeleteAnswers, DeleteFails, OtherWrites, Reopen
<1>2. CASE FetchAnswers
  BY <1>2 DEF FetchAnswers, OnExisting, Unfilled
<1>3. CASE \E y \in Years, c \in CropLists \cup {NoHarvest} : EditYear(y, c)
  BY <1>1, <1>3 DEF EditYear, Usable, fetched, FormInv, ModeFixed, Unfilled
<1>4. CASE StartNewFarm
  BY <1>4 DEF StartNewFarm, NewForm, Unfilled
<1>5. CASE \E f \in Farms : ClickFarm(f)
  BY <1>1, <1>5 DEF ClickFarm, LoadFarmIntoForm, FormOf, Unfilled
<1>6. ASSUME ~FetchAnswers, ~StartNewFarm, ~\E f \in Farms : ClickFarm(f),
             ~\E y \in Years, c \in CropLists \cup {NoHarvest} : EditYear(y, c)
      PROVE  UNCHANGED <<form, loadedProducer>>
  BY <1>6
     DEF Next, vars, fetched, screen, FetchFails, Retry, AskDelete, ClickNewFarm,
         TypeDocument, Continue, SearchAnswers, Back, QueueCurrentFarm, RemoveQueued,
         SubmitRegistration, SubmitFarm, RenameAnswers, WriteFarm, Register, SaveAnswers,
         SaveFails, Cancel, ConfirmDelete, DeleteAnswers, DeleteFails, OtherWrites, Reopen
<1> QED
  BY <1>1, <1>2, <1>3, <1>4, <1>5, <1>6 DEF Unfilled

\* What is being deleted was asked for.
Asked == dialog.busy => dialog.farm \in Farms

LEMMA AskedNext ==
  ASSUME FormInv, Asked, [Next]_vars
  PROVE  Asked'
<1>1. dialog \in [farm : Farms \cup {NoFarm}, busy : BOOLEAN]
  BY DEF FormInv, TypeOK
<1>2. CASE \E f \in Farms : AskDelete(f)
  BY <1>2 DEF AskDelete, Asked
<1>3. CASE dialog' = NoDialog
  BY <1>3 DEF NoDialog, Asked
<1>4. CASE ConfirmDelete
  BY <1>1, <1>4 DEF ConfirmDelete, Asked
<1>5. CASE DeleteFails
  BY <1>1, <1>5 DEF DeleteFails, Asked
<1>6. CASE UNCHANGED dialog
  BY <1>6 DEF Asked
<1> QED
  BY <1>2, <1>3, <1>4, <1>5, <1>6
     DEF Next, vars, FetchAnswers, FetchFails, Retry, ClickFarm, ClickNewFarm, EditYear,
         TypeDocument, Continue, SearchAnswers, Back, QueueCurrentFarm, RemoveQueued,
         SubmitRegistration, SubmitFarm, RenameAnswers, WriteFarm, Register, SaveAnswers,
         SaveFails, Cancel, DeleteAnswers, OtherWrites, Reopen

\* A use of the page that is no request exchanges nothing.
LEMMA UsesExchangeNothing ==
  ASSUME FormInv, [Next]_vars, page # "left",
         \/ ClickNewFarm \/ Back \/ QueueCurrentFarm
         \/ \E f \in Farms : ClickFarm(f)
         \/ \E y \in Years, c \in CropLists \cup {NoHarvest} : EditYear(y, c)
         \/ \E d \in Documents : TypeDocument(d)
         \/ \E i \in DOMAIN queue : RemoveQueued(i)
  PROVE  ~Exchange
<1>1. save \in Saves /\ wizard \in [step : 0..1, typed : Documents \cup {NoDocument},
                                   checking : Documents \cup {NoDocument}, duplicate : BOOLEAN]
  BY DEF FormInv, RecordsOK, TypeOK
<1>2. UNCHANGED <<existing, refetching, page, dialog>>
  BY DEF ClickNewFarm, Back, QueueCurrentFarm, ClickFarm, EditYear, TypeDocument, RemoveQueued,
         fetched
<1>3. Used \/ Switched
  BY DEF ClickNewFarm, Back, QueueCurrentFarm, ClickFarm, EditYear, TypeDocument, RemoveQueued
<1>4. save'.phase = save.phase
  BY <1>1, <1>3 DEF Used, Switched, Saves
<1>5. wizard'.checking = wizard.checking
  BY <1>1 DEF ClickNewFarm, Back, QueueCurrentFarm, ClickFarm, EditYear, TypeDocument,
              RemoveQueued
<1> QED
  BY <1>2, <1>4, <1>5 DEF Exchange

\* No request and no answer to one changes what the user typed, except that the
\* farm in the form was deleted as the user confirmed.
THEOREM TypedStays == Spec => TypedStaysTyped
<1>1. ASSUME FormInv, Unfilled, Asked, [Next]_vars, form.edits > 0, page # "left", Exchange
      PROVE  /\ queue' = queue /\ wizard'.typed = wizard.typed
             /\ <<form, loadedYears>>' = <<form, loadedYears>> \/ OwnDeletion
  <2>1. wizard \in [step : 0..1, typed : Documents \cup {NoDocument},
                   checking : Documents \cup {NoDocument}, duplicate : BOOLEAN]
    BY <1>1 DEF FormInv, TypeOK
  <2>2. CASE FetchAnswers
    <3>1. loadedProducer
      BY <1>1, <2>2 DEF FetchAnswers, Fetching, Unfilled
    <3> QED
      BY <2>2, <3>1 DEF FetchAnswers, OnExisting
  <2>3. CASE DeleteAnswers
    <3>1. queue' = queue /\ wizard' = wizard
      BY <2>3 DEF DeleteAnswers
    <3>2. CASE form.editing = dialog.farm
      <4>1. dialog.busy /\ Exists(farms, dialog.farm) /\ dialog.farm \in Farms
            /\ farms' = [farms EXCEPT ![dialog.farm] = Deleted]
        BY <1>1, <2>3 DEF DeleteAnswers, Asked
      <4> QED
        BY <1>1, <3>1, <3>2, <4>1 DEF OwnDeletion, FormInv, TypeOK
    <3>3. CASE form.editing # dialog.farm
      BY <2>3, <3>1, <3>3 DEF DeleteAnswers
    <3> QED
      BY <3>2, <3>3
  <2>4. CASE Continue \/ SearchAnswers
    <3>1. wizard'.typed = wizard.typed
      BY <2>1, <2>4 DEF Continue, SearchAnswers
    <3> QED
      BY <2>4, <3>1 DEF Continue, SearchAnswers
  <2>5. CASE FetchFails \/ Retry \/ SubmitRegistration \/ SubmitFarm \/ RenameAnswers
             \/ WriteFarm \/ Register \/ SaveAnswers \/ SaveFails
    BY <2>5 DEF FetchFails, Retry, SubmitRegistration, SubmitFarm, RenameAnswers, WriteFarm,
                Register, SaveAnswers, SaveFails, screen
  <2>6. CASE (\E f \in Farms : AskDelete(f)) \/ Cancel \/ ConfirmDelete \/ DeleteFails
             \/ OtherWrites \/ UNCHANGED vars
    BY <2>6 DEF AskDelete, Cancel, ConfirmDelete, DeleteFails, OtherWrites, screen, vars
  <2>7. ~Reopen
    BY <1>1 DEF Reopen, NoExisting
  <2>8. CASE \/ ClickNewFarm \/ Back \/ QueueCurrentFarm
             \/ \E f \in Farms : ClickFarm(f)
             \/ \E y \in Years, c \in CropLists \cup {NoHarvest} : EditYear(y, c)
             \/ \E d \in Documents : TypeDocument(d)
             \/ \E i \in DOMAIN queue : RemoveQueued(i)
    BY <1>1, <2>8, UsesExchangeNothing
  <2> QED
    BY <1>1, <2>2, <2>3, <2>4, <2>5, <2>6, <2>7, <2>8 DEF Next
<1>2. Init => Unfilled /\ Asked
  BY DEF Init, NewForm, NoDialog, Unfilled, Asked
<1>3. FormInv /\ Unfilled /\ Asked /\ [Next]_vars => Unfilled' /\ Asked'
  BY UnfilledNext, AskedNext
<1> QED
  BY <1>1, <1>2, <1>3, FormInvariant, PTL DEF Spec, TypedStaysTyped
=============================================================================
