----------------------------- MODULE ProducerForm -----------------------------
(***************************************************************************)
(* ProducerFormPage: the wizard that registers a producer with a queue of  *)
(* farms, and the editor of the farms of a registered producer.            *)
(*                                                                         *)
(* A save is one or two requests; while they are under way the user goes   *)
(* on clicking, other clients write, and answers may be lost.  What the    *)
(* callbacks captured when they were made is kept in save and dialog; what *)
(* they read later (the ref loadedYears) is read then.                     *)
(*                                                                         *)
(* A farm is its harvests, year -> crops, a year having one harvest; its   *)
(* other fields are one flag, whether they are filled in.  The name of the *)
(* producer is always valid.  A write is one step of the server, which     *)
(* FarmRows and ProducerRows model in detail.                              *)
(***************************************************************************)
EXTENDS Naturals, SequencesExt

CONSTANTS
  Farms,      \* ids that farms of the edited producer have or may get
  FirstFarms, \* those that exist at first
  Years, CropLists,
  DefaultYear, NoCrops, \* the harvest of a farm not yet filled in
  Documents,
  TakenDocuments,  \* of producers registered by others
  NoFarm, Deleted, NoHarvest, NoDocument,
  MaxQueue,   \* bound: farms in the queue
  MaxEdits,   \* bound: changes to a form before it is loaded or emptied again
  MaxSaves,   \* bound: saves and deletions asked for
  MaxOthers   \* bound: writes of other clients

ASSUME ProducerFormAssumption ==
  /\ FirstFarms \subseteq Farms
  /\ DefaultYear \in Years /\ NoCrops \in CropLists
  /\ TakenDocuments \subseteq Documents
  /\ {MaxQueue, MaxEdits, MaxSaves, MaxOthers} \subseteq Nat
  /\ NoFarm \notin Farms /\ NoHarvest \notin CropLists /\ NoDocument \notin Documents
  /\ NoFarm # Deleted

FarmData == [Years -> CropLists \cup {NoHarvest}]

ASSUME FarmsAssumption == NoFarm \notin FarmData /\ Deleted \notin FarmData

YearsOf(farm) == {y \in Years : farm[y] # NoHarvest}

VARIABLES
  mode,        \* "create" or "edit"
  page,        \* "loading", "failed", "open", or "left" after a successful save
  farms,       \* server: farms of the edited producer
  registered,  \* server: the farms each document was registered with
  existing,    \* the producer as last fetched
  loadedProducer, \* the form was filled from it
  refetching,  \* its tag has been invalidated
  form,        \* the farm in the form
  loadedYears, \* ref: the years of the farm the form was filled from
  queue,       \* draftFarms
  wizard,      \* step 0 and the step shown
  save,        \* the submit under way
  dialog,      \* deletion of a farm
  saves,       \* saves and deletions asked for so far
  others       \* writes of other clients so far

vars == <<mode, page, farms, registered, existing, loadedProducer, refetching, form,
          loadedYears, queue, wizard, save, dialog, saves, others>>
server == <<farms, registered>>
fetched == <<existing, loadedProducer, refetching>>
screen == <<form, loadedYears, queue, wizard>>
bounds == <<saves, others>>

NoTable == [f \in Farms |-> NoFarm]
Exists(table, f) == table[f] \notin {NoFarm, Deleted}
Unused == {f \in Farms : farms[f] = NoFarm}

DefaultFarm == [y \in Years |-> IF y = DefaultYear THEN NoCrops ELSE NoHarvest]

\* shown is a history variable: the years the user was shown of the stored farm.
NewForm == [harvests |-> DefaultFarm, filled |-> FALSE, editing |-> NoFarm, adding |-> TRUE,
            edits |-> 0, shown |-> {}]
FormOf(f, farm) ==
  [harvests |-> farm, filled |-> TRUE, editing |-> f, adding |-> FALSE, edits |-> 0,
   shown |-> YearsOf(farm)]

\* dropped, touched, switched and others are history variables: the years the
\* user took out of the form, whether the page was used while the save was
\* under way, whether that put another farm into the form, and the writes of
\* other clients before it.
NoSave == [phase |-> "idle", target |-> NoFarm, harvests |-> DefaultFarm, removed |-> {},
           document |-> NoDocument, farms |-> <<>>, dropped |-> {}, touched |-> FALSE,
           switched |-> FALSE, others |-> 0]
NoDialog == [farm |-> NoFarm, busy |-> FALSE]
NotRegistered == [known |-> FALSE, farms |-> <<>>]

Phases == {"idle", "renaming", "writing", "creating", "answered"}

\* The types; and no year is both sent and removed, which UpdateFarmUseCase
\* refuses.
TypeOK ==
  /\ mode \in {"create", "edit"} /\ page \in {"loading", "failed", "open", "left"}
  /\ {farms, existing} \subseteq [Farms -> FarmData \cup {NoFarm, Deleted}]
  /\ DOMAIN registered = Documents
  /\ {loadedProducer, refetching} \subseteq BOOLEAN
  /\ form \in [harvests : FarmData, filled : BOOLEAN, editing : Farms \cup {NoFarm},
               adding : BOOLEAN, edits : 0..MaxEdits, shown : SUBSET Years]
  /\ loadedYears \subseteq Years
  /\ queue \in Seq(FarmData) /\ Len(queue) <= MaxQueue
  /\ wizard \in [step : 0..1, typed : Documents \cup {NoDocument},
                 checking : Documents \cup {NoDocument}, duplicate : BOOLEAN]
  /\ save.phase \in Phases /\ save.target \in Farms \cup {NoFarm}
  /\ save.removed \subseteq Years \ YearsOf(save.harvests)
  /\ dialog \in [farm : Farms \cup {NoFarm}, busy : BOOLEAN]
  /\ saves \in 0..MaxSaves /\ others \in 0..MaxOthers

FirstPage == IF mode = "edit" THEN "loading" ELSE "open"

\* Step 0 asks for the name only when a producer is edited, and is left out.
FirstWizard ==
  [step |-> IF mode = "edit" THEN 1 ELSE 0, typed |-> NoDocument, checking |-> NoDocument,
   duplicate |-> FALSE]

Init ==
  /\ mode \in {"create", "edit"}
  /\ \E c \in CropLists :
       farms = [f \in Farms |-> IF f \in FirstFarms THEN [y \in Years |-> c] ELSE NoFarm]
  /\ registered = [d \in Documents |-> [NotRegistered EXCEPT !.known = d \in TakenDocuments]]
  /\ page = FirstPage /\ wizard = FirstWizard
  /\ existing = NoTable /\ loadedProducer = FALSE /\ refetching = FALSE
  /\ form = NewForm /\ loadedYears = {} /\ queue = <<>>
  /\ save = NoSave /\ dialog = NoDialog
  /\ saves = 0 /\ others = 0

-----------------------------------------------------------------------------
(* The form *)

Saving == save.phase # "idle" \/ dialog.busy

\* The dialog covers the page.
Usable(step) == page = "open" /\ wizard.step = step /\ dialog = NoDialog

Used == save' = [save EXCEPT !.touched = save.phase # "idle"]
Switched == save' = [save EXCEPT !.touched = save.phase # "idle",
                                 !.switched = save.phase # "idle"]

\* Variant of LoadFarmIntoForm: the years of the farm before stay noted.
LoadFarmOnly(f, table) == form' = FormOf(f, table[f]) /\ UNCHANGED loadedYears

LoadFarmIntoForm(f, table) ==
  /\ form' = FormOf(f, table[f])
  /\ loadedYears' = YearsOf(table[f])

StartNewFarm == form' = NewForm /\ loadedYears' = {}

\* Before the first answer the effect finds no producer and forgets the one it
\* had loaded; from then on the hook keeps the last data, failures included.
NoExisting == existing' = NoTable /\ loadedProducer' = FALSE

\* Variant of OnExisting: every answer fills the form.
OnEveryExisting(table) ==
  /\ loadedProducer' = TRUE
  /\ IF \E f \in Farms : Exists(table, f)
     THEN \E f \in Farms : Exists(table, f) /\ LoadFarmIntoForm(f, table)
     ELSE StartNewFarm

\* The first answer fills the form from the first farm of the answer, whose
\* order is not fixed; later ones leave it alone.
OnExisting(table) ==
  /\ loadedProducer' = TRUE
  /\ IF loadedProducer THEN UNCHANGED <<form, loadedYears>>
     ELSE IF \E f \in Farms : Exists(table, f)
     THEN \E f \in Farms : Exists(table, f) /\ LoadFarmIntoForm(f, table)
     ELSE StartNewFarm

Fetching ==
  /\ mode = "edit"
  /\ page = "loading" \/ (page \in {"open", "failed"} /\ refetching)

FetchAnswers ==
  /\ Fetching
  /\ page' = "open" /\ existing' = farms /\ refetching' = FALSE
  /\ OnExisting(farms)
  /\ UNCHANGED <<mode, server, queue, wizard, save, dialog, bounds>>

\* The panel with the retry button takes the place of the form and its dialog.
FetchFails ==
  /\ Fetching
  /\ page' = "failed" /\ refetching' = FALSE
  /\ UNCHANGED <<mode, server, existing, loadedProducer, screen, save, dialog, bounds>>

\* What was fetched before is shown again at once, the dialog included.
Retry ==
  /\ page = "failed"
  /\ page' = IF loadedProducer THEN "open" ELSE "loading"
  /\ refetching' = TRUE
  /\ UNCHANGED <<mode, server, existing, loadedProducer, screen, save, dialog, bounds>>

ClickFarm(f) ==
  /\ mode = "edit" /\ Usable(1) /\ Exists(existing, f)
  /\ LoadFarmIntoForm(f, existing) /\ Switched
  /\ UNCHANGED <<mode, page, server, fetched, queue, wizard, dialog, bounds>>

ClickNewFarm ==
  /\ mode = "edit" /\ Usable(1)
  /\ StartNewFarm /\ Switched
  /\ UNCHANGED <<mode, page, server, fetched, queue, wizard, dialog, bounds>>

\* Fills in the other fields as well.
EditYear(y, c) ==
  /\ Usable(1) /\ form.harvests[y] # c /\ form.edits < MaxEdits
  /\ form' = [form EXCEPT !.harvests[y] = c, !.filled = TRUE, !.edits = @ + 1]
  /\ Used
  /\ UNCHANGED <<mode, page, server, fetched, loadedYears, queue, wizard, dialog, bounds>>

-----------------------------------------------------------------------------
(* Registering: the document, the queue *)

InWizard(step) == mode = "create" /\ Usable(step)

TypeDocument(d) ==
  /\ InWizard(0) /\ wizard.typed # d
  /\ wizard' = [wizard EXCEPT !.typed = d]
  /\ Used
  /\ UNCHANGED <<mode, page, server, fetched, form, loadedYears, queue, dialog, bounds>>

\* goToStep1 with a valid document, up to the answer of the search
Continue ==
  /\ InWizard(0) /\ wizard.checking = NoDocument /\ wizard.typed # NoDocument
  /\ wizard' = [wizard EXCEPT !.checking = wizard.typed, !.duplicate = FALSE]
  /\ Used
  /\ UNCHANGED <<mode, page, server, fetched, form, loadedYears, queue, dialog, bounds>>

\* Only a 404 leads on; a failed search is told and may be repeated.
SearchAnswers ==
  /\ wizard.checking # NoDocument
  /\ \E failed \in BOOLEAN :
       LET known == registered[wizard.checking].known
       IN wizard' = [wizard EXCEPT !.checking = NoDocument,
                       !.duplicate = ~failed /\ known,
                       !.step = IF ~failed /\ ~known THEN 1 ELSE @]
  /\ UNCHANGED <<mode, page, server, fetched, form, loadedYears, queue, save, dialog, bounds>>

Back ==
  /\ InWizard(1)
  /\ wizard' = [wizard EXCEPT !.step = 0]
  /\ Used
  /\ UNCHANGED <<mode, page, server, fetched, form, loadedYears, queue, dialog, bounds>>

QueueCurrentFarm ==
  /\ InWizard(1) /\ form.filled /\ Len(queue) < MaxQueue
  /\ queue' = Append(queue, form.harvests)
  /\ StartNewFarm /\ Used
  /\ UNCHANGED <<mode, page, server, fetched, wizard, dialog, bounds>>

RemoveQueued(i) ==
  /\ InWizard(1)
  /\ queue' = RemoveAt(queue, i) /\ Used
  /\ UNCHANGED <<mode, page, server, fetched, form, loadedYears, wizard, dialog, bounds>>

-----------------------------------------------------------------------------
(* Saving *)

\* A button not disabled, and a farm the schema accepts
MaySubmit == Usable(1) /\ form.filled /\ ~Saving /\ saves < MaxSaves

\* Variant of FarmsToSend: the farm still in the form is forgotten.
QueueOnly == queue

FarmsToSend == Append(queue, form.harvests)

SubmitRegistration ==
  /\ mode = "create" /\ MaySubmit
  /\ save' = [NoSave EXCEPT !.phase = "creating", !.document = wizard.typed,
                            !.farms = FarmsToSend, !.others = others]
  /\ saves' = saves + 1
  /\ UNCHANGED <<mode, page, server, fetched, screen, dialog, others>>

\* The name is written first.  An added farm has no target; one needs an id.
SubmitFarm ==
  /\ mode = "edit" /\ MaySubmit
  /\ form.adding => Unused # {}
  /\ save' = [NoSave EXCEPT !.phase = "renaming",
                            !.target = IF form.adding THEN NoFarm ELSE form.editing,
                            !.harvests = form.harvests,
                            !.dropped = form.shown \ YearsOf(form.harvests),
                            !.others = others]
  /\ saves' = saves + 1
  /\ UNCHANGED <<mode, page, server, fetched, screen, dialog, others>>

RemovedHarvestYears(years, harvests) == years \ YearsOf(harvests)

\* The name is stored: the body of the second request is made now.
RenameAnswers ==
  /\ save.phase = "renaming"
  /\ save' = [save EXCEPT !.phase = "writing",
                          !.removed = RemovedHarvestYears(loadedYears, save.harvests)]
  /\ refetching' = TRUE
  /\ UNCHANGED <<mode, page, server, existing, loadedProducer, screen, dialog, bounds>>

\* UpdateFarmUseCase: the years sent are replaced, those listed removed.
Merged(farm, harvests, removed) ==
  [y \in Years |-> IF harvests[y] # NoHarvest THEN harvests[y]
                   ELSE IF y \in removed THEN NoHarvest ELSE farm[y]]

\* A farm that is gone answers 404, and SaveFails.
WriteFarm ==
  /\ save.phase = "writing"
  /\ \/ /\ save.target = NoFarm
        /\ \E f \in Unused : farms' = [farms EXCEPT ![f] = save.harvests]
     \/ /\ save.target # NoFarm /\ Exists(farms, save.target)
        /\ farms' = [farms EXCEPT ![save.target] = Merged(@, save.harvests, save.removed)]
  /\ save' = [save EXCEPT !.phase = "answered"]
  /\ UNCHANGED <<mode, page, registered, fetched, screen, dialog, bounds>>

\* A known document is a conflict, and SaveFails.
Register ==
  /\ save.phase = "creating" /\ ~registered[save.document].known
  /\ registered' = [registered EXCEPT ![save.document] = [known |-> TRUE, farms |-> save.farms]]
  /\ save' = [save EXCEPT !.phase = "answered"]
  /\ UNCHANGED <<mode, page, farms, fetched, screen, dialog, bounds>>

\* The toast says it was saved, and the page is left.
SaveAnswers ==
  /\ save.phase = "answered"
  /\ page' = "left" /\ save' = NoSave
  /\ UNCHANGED <<mode, server, fetched, screen, dialog, bounds>>

\* Refused, or a request or its answer was lost: the form stays as it is.
SaveFails ==
  /\ save.phase # "idle"
  /\ save' = NoSave /\ refetching' = (mode = "edit")
  /\ UNCHANGED <<mode, page, server, existing, loadedProducer, screen, dialog, bounds>>

-----------------------------------------------------------------------------
(* Deleting a farm *)

AskDelete(f) ==
  /\ mode = "edit" /\ Usable(1) /\ Exists(existing, f)
  /\ dialog' = [farm |-> f, busy |-> FALSE]
  /\ UNCHANGED <<mode, page, server, fetched, screen, save, bounds>>

Cancel ==
  /\ dialog.farm # NoFarm /\ ~dialog.busy /\ page = "open"
  /\ dialog' = NoDialog
  /\ UNCHANGED <<mode, page, server, fetched, screen, save, bounds>>

ConfirmDelete ==
  /\ dialog.farm # NoFarm /\ ~dialog.busy /\ page = "open" /\ saves < MaxSaves
  /\ dialog' = [dialog EXCEPT !.busy = TRUE] /\ saves' = saves + 1 /\ Used
  /\ UNCHANGED <<mode, page, server, fetched, screen, others>>

\* A deleted farm leaves the form; the callback sees the form as it was when
\* the deletion was confirmed, which the dialog kept from changing.
DeleteAnswers ==
  /\ dialog.busy /\ Exists(farms, dialog.farm)
  /\ farms' = [farms EXCEPT ![dialog.farm] = Deleted]
  /\ dialog' = NoDialog /\ refetching' = TRUE
  /\ IF form.editing = dialog.farm THEN StartNewFarm /\ Switched
                                   ELSE UNCHANGED <<form, loadedYears, save>>
  /\ UNCHANGED <<mode, page, registered, existing, loadedProducer, queue, wizard, bounds>>

\* Refused or lost on the way there, or the answer was lost: the dialog stays.
DeleteFails ==
  /\ dialog.busy
  /\ \/ UNCHANGED farms
     \/ /\ Exists(farms, dialog.farm)
        /\ farms' = [farms EXCEPT ![dialog.farm] = Deleted]
  /\ dialog' = [dialog EXCEPT !.busy = FALSE] /\ refetching' = TRUE
  /\ UNCHANGED <<mode, page, registered, existing, loadedProducer, screen, save, bounds>>

-----------------------------------------------------------------------------
\* Other clients
OtherWrites ==
  /\ others < MaxOthers /\ others' = others + 1
  /\ \/ \E f \in Farms, y \in Years, c \in CropLists \cup {NoHarvest} :
          /\ mode = "edit" /\ Exists(farms, f) /\ farms[f][y] # c
          /\ farms' = [farms EXCEPT ![f][y] = c] /\ UNCHANGED registered
     \/ \E f \in Farms :
          /\ mode = "edit" /\ Exists(farms, f)
          /\ farms' = [farms EXCEPT ![f] = Deleted] /\ UNCHANGED registered
     \/ \E d \in Documents :
          /\ mode = "create" /\ ~registered[d].known
          /\ registered' = [registered EXCEPT ![d].known = TRUE] /\ UNCHANGED farms
  /\ UNCHANGED <<mode, page, fetched, screen, save, dialog, saves>>

\* The page is opened again once nothing of the old one is under way.
Reopen ==
  /\ page = "left" /\ ~Saving /\ wizard.checking = NoDocument
  /\ UNCHANGED <<mode, server, bounds>>
  /\ page' = FirstPage /\ wizard' = FirstWizard
  /\ NoExisting /\ refetching' = FALSE
  /\ StartNewFarm /\ queue' = <<>>
  /\ save' = NoSave /\ dialog' = NoDialog

Next ==
  \/ FetchAnswers \/ FetchFails \/ Retry
  \/ \E f \in Farms : ClickFarm(f) \/ AskDelete(f)
  \/ ClickNewFarm
  \/ \E y \in Years, c \in CropLists \cup {NoHarvest} : EditYear(y, c)
  \/ \E d \in Documents : TypeDocument(d)
  \/ Continue \/ SearchAnswers \/ Back \/ QueueCurrentFarm
  \/ \E i \in DOMAIN queue : RemoveQueued(i)
  \/ SubmitRegistration \/ SubmitFarm \/ RenameAnswers \/ WriteFarm \/ Register
  \/ SaveAnswers \/ SaveFails
  \/ Cancel \/ ConfirmDelete \/ DeleteAnswers \/ DeleteFails
  \/ OtherWrites \/ Reopen

Spec == Init /\ [][Next]_vars

-----------------------------------------------------------------------------
\* An update of a farm: the step in which the server performs it
Updates == save.phase = "writing" /\ save'.phase = "answered" /\ save.target # NoFarm

\* What the user asked: the years in the form as they are there, the years
\* taken out of it gone, and every other year as it is stored.
AsAsked(farm) ==
  [y \in Years |-> CASE save.harvests[y] # NoHarvest -> save.harvests[y]
                     [] save.harvests[y] = NoHarvest /\ y \in save.dropped -> NoHarvest
                     [] OTHER -> farm[y]]

\* Saving an edited farm does to the stored farm what was asked and no more: a
\* year that another client added and the user never saw stays, a year the user
\* took out goes, whatever was loaded, deleted, refetched or failed before.
\* The years are noted in a ref that the save reads after the name was saved:
\* it holds as long as no other farm was put into the form in between.
SavesAreExact ==
  [][Updates /\ ~save.switched => farms'[save.target] = AsAsked(farms[save.target])]_vars

\* The test 'edição envia removedYears ao tirar a segunda safra': a year taken
\* out of the form is removed from the farm by the save.  It does not hold if
\* another farm is put into the form while the name is being saved.
RemovedYearsAreSent ==
  [][Updates => \A y \in save.dropped : farms'[save.target][y] = NoHarvest]_vars

\* When the page says that it saved, what it shows is stored: the registered
\* document has every farm of the queue and the one in the form, the edited or
\* added farm the harvests of the form and no year taken out of it.  It holds
\* unless the page was used, or another client wrote, while it saved.
SavedMeansStored ==
  [][page # "left" /\ page' = "left" /\ ~save.touched /\ save.others = others =>
       /\ mode = "create" => registered[wizard.typed].farms = Append(queue, form.harvests)
       /\ mode = "edit" => \E f \in Farms :
            /\ form.adding \/ f = form.editing
            /\ Exists(farms, f)
            /\ \A y \in YearsOf(form.harvests) : farms[f][y] = form.harvests[y]
            /\ \A y \in form.shown \ YearsOf(form.harvests) : farms[f][y] = NoHarvest]_vars

\* An answer arrives, or a request is made: of the producer, of the search by
\* document, of a save or of a deletion.
Exchange ==
  \/ <<existing, refetching, page>>' # <<existing, refetching, page>>
  \/ <<wizard.checking, save.phase, dialog.busy>>'
       # <<wizard.checking, save.phase, dialog.busy>>

\* The farm in the form was just deleted, on the user's own confirmation.
OwnDeletion ==
  /\ dialog.busy /\ form.editing = dialog.farm
  /\ Exists(farms, dialog.farm) /\ farms'[dialog.farm] = Deleted

\* What the user typed is lost to no answer: a save that failed, the refetch it
\* causes, a deletion of another farm, the farm gone from the answer, leave the
\* form, the queue and the document as they are.  Only the deletion of the very
\* farm in the form empties the form.
TypedStaysTyped ==
  [][form.edits > 0 /\ page # "left" /\ Exchange =>
       /\ queue' = queue /\ wizard'.typed = wizard.typed
       /\ <<form, loadedYears>>' = <<form, loadedYears>> \/ OwnDeletion]_vars
=============================================================================
