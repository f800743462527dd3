---------------------------- MODULE DashboardPage ----------------------------
(***************************************************************************)
(* DashboardPage in the browser: the filters of the bar, the transition    *)
(* that applies them, the two queries, the retry panel, and the saves of   *)
(* the other pages, which invalidate what the queries have cached.         *)
(*                                                                         *)
(* External are React (a transition is rendered later, the latest one      *)
(* wins, and useDeferredValue has the new value in that render) and RTK    *)
(* Query: one entry per endpoint and arguments, requests shared while they *)
(* are pending, the last data kept while the next are fetched, unused      *)
(* entries dropped after a minute, tags that wait for all that is pending. *)
(* The server answers with what it reads; how old that may be is           *)
(* AnswersFresh of Dashboard.                                              *)
(***************************************************************************)
EXTENDS Integers

CONSTANTS
  Unset,      \* a filter that is undefined
  Options,    \* filter -> the values its control offers
  Unaccepted, \* climate risks that the server's schema refuses
  NoData,     \* a hook or an entry has no data
  NoChoice,   \* no transition is under way
  Unread,     \* the server has not run the statements of a request
  MaxChoices, \* bound: changes of the filters
  MaxFailures,\* bound: requests that fail for another reason than their filters
  MaxWrites   \* bound: saves on other pages

ASSUME DashboardPageAssumption ==
  /\ {MaxChoices, MaxFailures, MaxWrites} \subseteq Nat
  /\ "minClimateRisk" \in DOMAIN Options

Endpoints == {"summary", "analytics"}
Filters ==
  {f \in [DOMAIN Options -> {Unset} \cup UNION {Options[k] : k \in DOMAIN Options}] :
     \A k \in DOMAIN Options : f[k] = Unset \/ f[k] \in Options[k]}
NoFilters == [k \in DOMAIN Options |-> Unset]

\* undefined is no data, no choice of filters and no number.
ASSUME AbsentAssumption ==
  /\ NoData \notin [filters : Filters, writes : Nat]
  /\ NoChoice \notin Filters
  /\ Unread \notin Nat

-----------------------------------------------------------------------------
(* cleanFilters *)

Given(f, S) == [k \in S |-> f[k]]

\* Variant of CleanFilters: a risk is tested like a string is.
TruthyFilters(f) == Given(f, {k \in DOMAIN f : f[k] \notin {Unset, 0}})

\* cleanFilters: what is undefined is no argument; a risk of 0 is one.
CleanFilters(f) == Given(f, {k \in DOMAIN f : f[k] # Unset})

Arguments == {CleanFilters(f) : f \in Filters}

\* The filters the server reads from the arguments.
Received(args) ==
  [k \in DOMAIN Options |-> IF k \in DOMAIN args THEN args[k] ELSE Unset]

-----------------------------------------------------------------------------
VARIABLES
  open,       \* the page is mounted
  filters,    \* filters, and deferredFilters with them
  choice,     \* what startTransition will set filters to
  entries,    \* endpoint, arguments -> entry of the query cache
  shown,      \* data of the two hooks
  loading,    \* summaryLoading
  saving,     \* a mutation of another page: none, sent, or stored by the server
  stale,      \* the tag Dashboard waits to be invalidated
  writes,     \* history: mutations stored
  choices, failures

vars == <<open, filters, choice, entries, shown, loading, saving, stale, writes,
          choices, failures>>

NoEntry == [status |-> "none", read |-> Unread, data |-> NoData]
Nothing == [e \in Endpoints |-> NoData]

Init ==
  /\ open = FALSE
  /\ filters = NoFilters
  /\ choice = NoChoice
  /\ entries = [e \in Endpoints |-> [f \in Arguments |-> NoEntry]]
  /\ shown = Nothing
  /\ loading = FALSE
  /\ saving = "none"
  /\ stale = FALSE
  /\ writes = 0
  /\ choices = 0
  /\ failures = 0

Answers == [filters : Filters, writes : 0..MaxWrites]
Entries ==
  [status : {"none", "pending", "answered", "rejected"},
   read : {Unread} \cup 0..MaxWrites, data : {NoData} \cup Answers]

TypeOK ==
  /\ open \in BOOLEAN
  /\ filters \in Filters
  /\ choice \in {NoChoice} \cup Filters
  /\ entries \in [Endpoints -> [Arguments -> Entries]]
  /\ shown \in [Endpoints -> {NoData} \cup Answers]
  /\ loading \in BOOLEAN
  /\ saving \in {"none", "sent", "stored"}
  /\ stale \in BOOLEAN
  /\ writes \in 0..MaxWrites
  /\ choices \in 0..MaxChoices
  /\ failures \in 0..MaxFailures

-----------------------------------------------------------------------------
(* Queries *)

\* Variant of Tagged: analytics provides no tag.
SummaryTagged == {"summary"}

\* Endpoints whose entries carry the tag Dashboard.
Tagged == Endpoints

Pending(es) == \E e \in Endpoints, f \in Arguments : es[e][f].status = "pending"

Asked(entry) == [entry EXCEPT !.status = "pending", !.read = Unread]

\* initiate: what is pending is shared; what has data is asked again if forced.
Initiated(es, f, forced) ==
  [e \in Endpoints |->
     IF es[e][f].status # "pending" /\ (forced \/ es[e][f].data = NoData)
     THEN [es[e] EXCEPT ![f] = Asked(@)] ELSE es[e]]

\* The tag is invalidated: entries in use are asked again, others removed.
Invalidated(es, used) ==
  [e \in Endpoints |->
     IF e \notin Tagged THEN es[e]
     ELSE [f \in Arguments |-> IF f \in used THEN Asked(es[e][f]) ELSE NoEntry]]

InUse == IF open THEN {CleanFilters(filters)} ELSE {}

\* A request or a save has ended: the tag goes if nothing else is under way.
Ended(es, mutation, tag) ==
  LET now == tag /\ mutation = "none" /\ ~Pending(es)
  IN /\ entries' = IF now THEN Invalidated(es, InUse) ELSE es
     /\ stale' = (tag /\ ~now)

\* What the hooks return next: the data of the entry, or the last there were.
Follow(f, last, wasLoading) ==
  LET entry(e) == entries'[e][CleanFilters(f)]
  IN /\ shown' = [e \in Endpoints |->
                    IF entry(e).status # "answered" /\ last[e] # NoData
                    THEN last[e] ELSE entry(e).data]
     /\ loading' = (/\ wasLoading /\ shown'["summary"] = NoData
                    /\ entry("summary").status = "pending")

FollowIfOpen ==
  IF open THEN Follow(filters, shown, loading) ELSE UNCHANGED <<shown, loading>>

-----------------------------------------------------------------------------
(* The page *)

Current(e) == entries[e][CleanFilters(filters)]

\* ErrorRetryPanel in place of the page.
Panel ==
  /\ open /\ ~loading
  /\ Current("summary").status = "rejected" \/ shown["summary"] = NoData

Page == open /\ ~loading /\ ~Panel

\* The payload that each chart is drawn from, the cards above them included.
Charts ==
  [cards |-> "summary", landUse |-> "summary", crops |-> "summary", states |-> "summary",
   carStatus |-> "summary", esgStatus |-> "summary",
   riskByState |-> "analytics", riskByCrop |-> "analytics", cropsByYear |-> "analytics",
   farmsByMonth |-> "analytics", topCities |-> "analytics"]

\* A spinner stands for the charts of analytics until there have been any.
Drawn == {c \in DOMAIN Charts : Page /\ shown[Charts[c]] # NoData}

\* The payload of each sheet of the exported file.
Sheets ==
  [kpis |-> "summary", byState |-> "summary", byCrop |-> "summary", landUse |-> "summary",
   car |-> "summary", esg |-> "summary",
   riskByState |-> "analytics", riskByCrop |-> "analytics", cropsByYear |-> "analytics",
   farmsByMonth |-> "analytics", topCities |-> "analytics"]

\* What a click on the export button writes: the payloads of the render that
\* was clicked, whatever arrives while the exporter is loaded.
CanExport == Page /\ shown["analytics"] # NoData
Exported == [s \in DOMAIN Sheets |-> shown[Sheets[s]]]

Refreshing ==
  \/ choice # NoChoice
  \/ \E e \in Endpoints : Current(e).status = "pending"

Elsewhere == <<saving, writes, failures>>

Open ==
  /\ ~open
  /\ open' = TRUE
  /\ filters' = NoFilters
  /\ choice' = NoChoice
  /\ entries' = Initiated(entries, CleanFilters(NoFilters), FALSE)
  /\ Follow(NoFilters, Nothing, TRUE)
  /\ UNCHANGED <<Elsewhere, stale, choices>>

Leave ==
  /\ open
  /\ open' = FALSE
  /\ filters' = NoFilters
  /\ choice' = NoChoice
  /\ shown' = Nothing
  /\ loading' = FALSE
  /\ UNCHANGED <<Elsewhere, entries, stale, choices>>

\* onChange: computed from the filters the bar shows, not from the choice that
\* waits to be rendered, which it replaces.
Choose(next) ==
  /\ Page /\ choices < MaxChoices
  /\ next # filters
  /\ choice' = next
  /\ choices' = choices + 1
  /\ UNCHANGED <<open, filters, entries, shown, loading, Elsewhere, stale>>

\* patch: a control or a chip
Patch(key, value) == Choose([filters EXCEPT ![key] = value])

Clear == Choose(NoFilters)

\* The transition is rendered.
Render ==
  /\ open /\ choice # NoChoice
  /\ filters' = choice
  /\ choice' = NoChoice
  /\ entries' = Initiated(entries, CleanFilters(choice), FALSE)
  /\ Follow(choice, shown, loading)
  /\ UNCHANGED <<open, Elsewhere, stale, choices>>

HandleRetry ==
  /\ Panel
  /\ entries' = Initiated(entries, CleanFilters(filters), TRUE)
  /\ Follow(filters, shown, loading)
  /\ UNCHANGED <<open, filters, choice, Elsewhere, stale, choices>>

-----------------------------------------------------------------------------
(* The server and the other pages *)

Refused(f) == "minClimateRisk" \in DOMAIN f /\ f.minClimateRisk \in Unaccepted

\* The statements of a request run.
Read(e, f) ==
  /\ entries[e][f].status = "pending" /\ entries[e][f].read = Unread
  /\ ~Refused(f)
  /\ entries' = [entries EXCEPT ![e][f].read = writes]
  /\ UNCHANGED <<open, filters, choice, shown, loading, Elsewhere, stale, choices>>

Answer(e, f) ==
  LET entry == entries[e][f]
      answer == [filters |-> Received(f), writes |-> entry.read]
  IN /\ entry.status = "pending" /\ entry.read # Unread
     /\ Ended([entries EXCEPT ![e][f] = [status |-> "answered", read |-> Unread,
                                         data |-> answer]], saving, stale)
     /\ FollowIfOpen
     /\ UNCHANGED <<open, filters, choice, Elsewhere, choices>>

\* The request is refused for its filters, or fails; data of before are kept.
Reject(e, f) ==
  /\ entries[e][f].status = "pending"
  /\ Refused(f) \/ failures < MaxFailures
  /\ failures' = IF Refused(f) THEN failures ELSE failures + 1
  /\ Ended([entries EXCEPT ![e][f].status = "rejected", ![e][f].read = Unread],
           saving, stale)
  /\ FollowIfOpen
  /\ UNCHANGED <<open, filters, choice, saving, writes, choices>>

\* An entry that was not used for a minute is dropped.
Drop(e, f) ==
  /\ f \notin InUse /\ entries[e][f].status \in {"answered", "rejected"}
  /\ entries' = [entries EXCEPT ![e][f] = NoEntry]
  /\ UNCHANGED <<open, filters, choice, shown, loading, Elsewhere, stale, choices>>

\* A save that invalidates Dashboard is sent from another page; whoever sent
\* it may open this page before it has ended.
Save ==
  /\ ~open /\ saving = "none" /\ writes < MaxWrites
  /\ saving' = "sent"
  /\ UNCHANGED <<open, filters, choice, entries, shown, loading, stale, writes,
                 choices, failures>>

SaveStored ==
  /\ saving = "sent"
  /\ saving' = "stored"
  /\ writes' = writes + 1
  /\ UNCHANGED <<open, filters, choice, entries, shown, loading, stale, choices,
                 failures>>

\* Its answer, good or bad, or the loss of it.
SaveEnds ==
  /\ saving # "none"
  /\ saving' = "none"
  /\ Ended(entries, "none", TRUE)
  /\ FollowIfOpen
  /\ UNCHANGED <<open, filters, choice, writes, choices, failures>>

Next ==
  \/ Open \/ Leave \/ Clear \/ Render \/ HandleRetry
  \/ \E key \in DOMAIN Options : \E value \in {Unset} \cup Options[key] : Patch(key, value)
  \/ \E e \in Endpoints, f \in Arguments :
       Read(e, f) \/ Answer(e, f) \/ Reject(e, f) \/ Drop(e, f)
  \/ Save \/ SaveStored \/ SaveEnds

Spec == Init /\ [][Next]_vars

-----------------------------------------------------------------------------
\* A page that says it is up to date shows cards and charts, and exports
\* sheets, of exactly the filters its bar shows, in whatever order answers,
\* failures, retries and choices came.  The exception the code makes: a
\* failure of analytics alone is not told, and what is made of them stays what
\* it was.
SettledPageAgrees ==
  Page /\ ~Refreshing =>
    /\ \A c \in Drawn :
         Current(Charts[c]).status # "rejected" => shown[Charts[c]].filters = filters
    /\ CanExport /\ Current("analytics").status # "rejected" =>
         \A s \in DOMAIN Sheets : Exported[s].filters = filters

\* What was saved on the other pages reaches the page even if it is opened
\* while the save is under way and asks before the save is stored: once
\* nothing is pending, what the hooks took from an answer was read after every
\* save that was stored.
OwnWritesReach ==
  open /\ ~Refreshing /\ ~Pending(entries) /\ saving = "none" =>
    \A e \in Endpoints :
      Current(e).status = "answered" => shown[e].writes = writes
=============================================================================
