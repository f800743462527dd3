----------------------------- MODULE ProducersList -----------------------------
(***************************************************************************)
(* The producer table under its two readers: an API client that walks the  *)
(* list by cursor, and ProducersListPage with its pager, search boxes and  *)
(* deletions; other clients write, and the server is restarted with a new  *)
(* encryption key.                                                         *)
(*                                                                         *)
(* RTK Query is external: an entry per argument, data of the last argument *)
(* shown until the next answer, invalidation when nothing is pending,      *)
(* which refetches the entry in use and removes the others.  The chips     *)
(* that filter the rows shown are left out.                                *)
(***************************************************************************)
EXTENDS ProducerListing

CONSTANTS
  Ids,
  Documents, DocumentOf, \* id -> document
  NoDocument, NoId,
  NoData,      \* nothing has been answered yet
  PageSizes, PageSizeDefault,
  DigitNames,  \* filters made of digits, which the page looks for in documents
  Behaviours,  \* [role, table, queries, writes, typed] with which a run starts: the
               \* role is "walk", "browse" or "search"; writes bounds those of
               \* others, typed the changes of the two search boxes
  MaxKey       \* bound: keys, that is rotations

\* What the page gets of its list
Answers == [items : Seq(Nat), total : Nat]

ASSUME ProducersListAssumption ==
  /\ Ids \subseteq Nat /\ IsFiniteSet(Ids)
  /\ DocumentOf \in [Ids -> Documents]
  /\ PageSizeDefault \in PageSizes /\ PageSizes \subseteq Nat \ {0}
  /\ DigitNames \subseteq DOMAIN Containing
  /\ MaxKey \in Nat
  /\ NoData \notin Answers \cup Pages \cup Nat
  /\ NoId \notin Ids /\ NoDocument \notin Documents

Names == UNION {Containing[n] : n \in DOMAIN Containing}
Filters == DOMAIN Containing \cup {NoName}

\* A walk starts at the first page of a table whose rows are all of the first key.
ASSUME ProducersListBehaviours ==
  \A b \in Behaviours :
    /\ b.role \in {"walk", "browse", "search"} /\ {b.writes, b.typed} \subseteq Nat
    /\ DOMAIN b.table \subseteq Ids /\ b.table \in [DOMAIN b.table -> Rows]
    /\ \A id \in DOMAIN b.table : b.table[id].key = 0
    /\ b.queries \subseteq [page : {1}, pageSize : Nat \ {0}, sortBy : {"createdAt", "name"},
                            sortOrder : {"asc", "desc"}, name : Filters, cursor : {NoCursor}]
    /\ NoId \notin b.queries

VARIABLES
  behaviour,  \* the reader and what it starts from
  table,      \* producers
  ring,       \* keys of the running server: active and previous
  writes,     \* writes of other clients so far
  walk,       \* the API client
  list,       \* useListProducersQuery: its arguments, its entries, its data
  boxes,      \* the search boxes
  search,     \* searches by document
  dialog,     \* deletion of a producer
  deleted     \* history: producers whose deletion the page was told of

page == <<list, boxes, search, dialog, deleted>>
vars == <<behaviour, table, ring, writes, walk, page>>

Args == [page : Nat \ {0}, size : PageSizes, name : Filters]
NoWalk == [on |-> FALSE, done |-> FALSE, cursor |-> NoCursor, seen |-> <<>>, steady |-> {},
           split |-> {}, query |-> NoId]

\* total and found are what the server has read for a request under way.
NoEntry == [status |-> "none", value |-> NoData, total |-> NoData, found |-> NoData]

FirstArgs == [page |-> 1, size |-> PageSizeDefault, name |-> NoName]
Requested(entries, args) ==
  IF args \in DOMAIN entries /\ entries[args].status # "rejected" THEN entries
  ELSE [a \in DOMAIN entries \cup {args} |->
          IF a = args THEN [NoEntry EXCEPT !.status = "pending"] ELSE entries[a]]

TypeOK ==
  /\ behaviour \in Behaviours
  /\ DOMAIN table \subseteq Ids
  /\ ring \in [active : 0..MaxKey, previous : 0..MaxKey]
  /\ writes \in 0..behaviour.writes
  /\ walk.on \in BOOLEAN /\ walk.done \in BOOLEAN
  /\ list.args \in Args
  /\ \A a \in DOMAIN list.entries :
       /\ list.entries[a].status \in {"pending", "answered", "rejected"}
       /\ list.entries[a].status = "answered" => list.entries[a].value # NoData
       /\ list.entries[a].status # "pending" => list.entries[a].found = NoData
  /\ list.args \in DOMAIN list.entries
  /\ boxes \in [typed : Filters, document : Documents \cup {NoDocument}, changes : 0..behaviour.typed]
  /\ search.timers \subseteq Documents /\ search.flight \subseteq Documents
  /\ search.found \subseteq Ids /\ search.hit \in Ids \cup {NoId}
  /\ dialog \in [id : Ids \cup {NoId}, busy : BOOLEAN]
  /\ deleted \subseteq Ids

Init ==
  /\ behaviour \in Behaviours
  /\ table = behaviour.table
  /\ ring = [active |-> 0, previous |-> 0]
  /\ writes = 0
  /\ walk = NoWalk
  /\ list = [args |-> FirstArgs, entries |-> Requested(<<>>, FirstArgs), data |-> NoData,
             invalid |-> FALSE]
  /\ boxes = [typed |-> NoName, document |-> NoDocument, changes |-> 0]
  /\ search = [timers |-> {}, flight |-> {}, found |-> {}, hit |-> NoId, overtaken |-> FALSE]
  /\ dialog = [id |-> NoId, busy |-> FALSE]
  /\ deleted = {}

-----------------------------------------------------------------------------
(* The table *)

Live == {id \in DOMAIN table : table[id].live}

\* Rows that were there, unchanged as far as the walk can tell, all along
Steady(ids) == walk' = [walk EXCEPT !.steady = @ \cap ids]

\* created_at is the time of the request, in milliseconds: not before any other.
\* A document has one producer.
Create(id) ==
  /\ writes < behaviour.writes /\ id \notin DOMAIN table
  /\ \A other \in Live : DocumentOf[other] # DocumentOf[id]
  /\ \E n \in Names, t \in 1..3 :
       /\ \A other \in DOMAIN table : table[other].created <= t
       /\ table' = [i \in DOMAIN table \cup {id} |->
                      IF i = id THEN Encrypted([NoRow EXCEPT !.live = TRUE, !.name = n,
                                                             !.created = t], ring)
                                ELSE table[i]]
  /\ writes' = writes + 1
  /\ UNCHANGED <<behaviour, ring, walk, page>>

\* Use cases that load the entity decrypt its document.
Loadable(id) == id \in Live /\ Readable(table[id], ring)

\* The document is encrypted again with every update.
Update(id) ==
  /\ writes < behaviour.writes /\ Loadable(id)
  /\ \E n \in Names :
       /\ table' = [table EXCEPT ![id] = Encrypted([@ EXCEPT !.name = n], ring)]
       /\ Steady({i \in Ids : i # id \/ table[id].name = n})
  /\ writes' = writes + 1
  /\ UNCHANGED <<behaviour, ring, page>>

Delete(id) ==
  /\ writes < behaviour.writes /\ Loadable(id)
  /\ table' = [table EXCEPT ![id].live = FALSE]
  /\ Steady(Ids \ {id})
  /\ writes' = writes + 1
  /\ UNCHANGED <<behaviour, ring, page>>

\* A restart with ENCRYPTION_KEY_PREVIOUS set to the key that was active
Rotate ==
  /\ ring.active < MaxKey /\ behaviour.role = "walk"
  /\ ring' = [active |-> ring.active + 1, previous |-> ring.active]
  /\ UNCHANGED <<behaviour, table, writes, walk, page>>

-----------------------------------------------------------------------------
(* The API client *)

StartWalk ==
  /\ behaviour.role = "walk" /\ ~walk.on
  /\ \E q \in behaviour.queries :
       walk' = [NoWalk EXCEPT !.on = TRUE, !.query = q, !.steady = Listed(table, q.name)]
  /\ UNCHANGED <<behaviour, table, ring, writes, page>>

\* History: the value of the last producer of a page, if others have it, too.
SplitBy(query, next) ==
  {v \in {SortValue(table[id], query) : id \in Listed(table, query.name)} :
     /\ next # NoCursor /\ next.value = v
     /\ \E id \in Listed(table, query.name) : id # next.id /\ SortValue(table[id], query) = v}

\* A page that fails is asked for again.
NextPage ==
  LET query == [walk.query EXCEPT !.cursor = walk.cursor]
      answer == FindPage(table, query, ring)
  IN /\ walk.on /\ ~walk.done /\ answer # Failed
     /\ walk' = [walk EXCEPT !.seen = @ \o answer.items, !.cursor = answer.next,
                             !.done = answer.next = NoCursor,
                             !.split = @ \cup SplitBy(query, answer.next)]
     /\ UNCHANGED <<behaviour, table, ring, writes, page>>

-----------------------------------------------------------------------------
(* The page: its list *)

Current == list.entries[list.args]

\* What useQuery gives as data
Data == IF Current.value # NoData THEN Current.value ELSE list.data

OnPage == behaviour.role # "walk"

\* The spinner and the error panel take the place of the page; the dialog
\* covers it.
OnScreen == OnPage /\ Data # NoData /\ Current.status # "rejected"
Usable == OnScreen /\ dialog.id = NoId

\* filterProducersBySearch: digits are looked for in the masked documents only.
Matching(ids, name) == IF name \in DigitNames THEN <<>> ELSE ids

\* mergeById: an exact hit that is not on the page comes first.
Shown ==
  LET rows == Range(Matching(Data.items, list.args.name))
  IN rows \cup (IF search.hit = NoId THEN {} ELSE {search.hit})

Searching == boxes.typed # NoName \/ boxes.document # NoDocument
PagerUsable == behaviour.role = "browse" /\ Usable /\ ~(Shown = {} /\ Searching) /\ Current.status # "pending"

TotalPages(total, size) == IF total = 0 THEN 1 ELSE (total + size - 1) \div size

\* New arguments: a request unless the entry is there, its data kept meanwhile.
Show(args) ==
  list' = [list EXCEPT !.args = args, !.entries = Requested(@, args), !.data = Data]

GoToPage(p) ==
  /\ PagerUsable /\ p # list.args.page /\ p \in 1..TotalPages(Data.total, list.args.size)
  /\ Show([list.args EXCEPT !.page = p])
  /\ UNCHANGED <<behaviour, table, ring, writes, walk, boxes, search, dialog, deleted>>

\* Variant of Resized: the page number stays.
ResizedInPlace(args, size) == [args EXCEPT !.size = size]

Resized(args, size) == [args EXCEPT !.size = size, !.page = 1]

ChangePageSize(size) ==
  /\ PagerUsable /\ size # list.args.size
  /\ Show(Resized(list.args, size))
  /\ UNCHANGED <<behaviour, table, ring, writes, walk, boxes, search, dialog, deleted>>

TypeName(n) ==
  /\ behaviour.role = "browse" /\ Usable /\ boxes.typed # n /\ boxes.changes < behaviour.typed
  /\ boxes' = [boxes EXCEPT !.typed = n, !.changes = @ + 1]
  /\ UNCHANGED <<behaviour, table, ring, writes, walk, list, search, dialog, deleted>>

\* The deferred value follows: the page number is reset by an effect, after a
\* request with the old one.
DeferredQuery ==
  /\ OnPage /\ list.args.name # boxes.typed
  /\ LET late == [list.args EXCEPT !.name = boxes.typed]
         args == [late EXCEPT !.page = 1]
     IN list' = [list EXCEPT !.args = args, !.data = Data,
                             !.entries = Requested(Requested(@, late), args)]
  /\ UNCHANGED <<behaviour, table, ring, writes, walk, boxes, search, dialog, deleted>>

ListQuery(a) ==
  [page |-> a.page, pageSize |-> a.size, name |-> a.name, cursor |-> NoCursor,
   sortBy |-> "createdAt", sortOrder |-> "desc"]

\* The server reads the total and the page in two statements, in either order.
ServerCounts(a) ==
  /\ OnPage /\ list.entries[a].status = "pending" /\ list.entries[a].total = NoData
  /\ list' = [list EXCEPT !.entries[a].total = Total(table, a.name)]
  /\ UNCHANGED <<behaviour, table, ring, writes, walk, boxes, search, dialog, deleted>>

ServerSelects(a) ==
  /\ OnPage /\ list.entries[a].status = "pending" /\ list.entries[a].found = NoData
  /\ list' = [list EXCEPT !.entries[a].found = FindPage(table, ListQuery(a), ring)]
  /\ UNCHANGED <<behaviour, table, ring, writes, walk, boxes, search, dialog, deleted>>

\* What was read then arrives now; or the request fails, wherever it is.
ListAnswers(a) ==
  /\ OnPage /\ list.entries[a].status = "pending"
  /\ LET entry == list.entries[a]
     IN \/ list' = [list EXCEPT !.entries[a] = [NoEntry EXCEPT !.status = "rejected",
                                                             !.value = entry.value]]
        \/ /\ entry.total # NoData /\ entry.found \notin {NoData, Failed}
           /\ list' = [list EXCEPT !.entries[a] =
                          [NoEntry EXCEPT !.status = "answered",
                             !.value = [items |-> entry.found.items, total |-> entry.total]]]
  /\ UNCHANGED <<behaviour, table, ring, writes, walk, boxes, search, dialog, deleted>>

Refetched(entries, args) == [entries EXCEPT ![args].status = "pending"]

\* The error panel takes the place of the page and of its dialog.
Retry ==
  /\ OnPage /\ Current.status = "rejected"
  /\ list' = [list EXCEPT !.entries = Refetched(@, list.args)]
  /\ UNCHANGED <<behaviour, table, ring, writes, walk, boxes, search, dialog, deleted>>

InUse == {a \in DOMAIN list.entries : a = list.args \/ list.entries[a].status = "pending"}

\* Unused entries are dropped after a minute.
Expire ==
  /\ OnPage /\ InUse # DOMAIN list.entries
  /\ list' = [list EXCEPT !.entries = Restrict(@, InUse)]
  /\ UNCHANGED <<behaviour, table, ring, writes, walk, boxes, search, dialog, deleted>>

\* Variant of Delayed: invalidationBehavior 'immediately'.
Immediately == TRUE

\* invalidationBehavior is the default, 'delayed': tags wait until nothing is
\* pending, the mutation included.
Delayed ==
  /\ ~dialog.busy /\ search.flight = {}
  /\ \A a \in DOMAIN list.entries : list.entries[a].status # "pending"

Invalidate ==
  /\ list.invalid /\ Delayed
  /\ list' = [list EXCEPT !.invalid = FALSE,
                          !.entries = Refetched(Restrict(@, {list.args}), list.args)]
  /\ UNCHANGED <<behaviour, table, ring, writes, walk, boxes, search, dialog, deleted>>

-----------------------------------------------------------------------------
(* The page: the search by document, and deletions *)

\* Variant of RestartTimer: the timer of the text before goes on.
AddTimer(document) ==
  [search EXCEPT !.timers = (@ \cup {document}) \ {NoDocument},
                 !.overtaken = search.flight # {},
                 !.hit = IF document = NoDocument THEN NoId ELSE @]

\* overtaken is a history variable: a search was under way when the box changed.
RestartTimer(document) ==
  [search EXCEPT !.timers = {document} \ {NoDocument},
                 !.overtaken = search.flight # {},
                 !.hit = IF document = NoDocument THEN NoId ELSE @]

TypeDocument(d) ==
  /\ behaviour.role = "search" /\ Usable /\ boxes.document # d /\ boxes.changes < behaviour.typed
  /\ boxes' = [boxes EXCEPT !.document = d, !.changes = @ + 1]
  /\ search' = RestartTimer(d)
  /\ UNCHANGED <<behaviour, table, ring, writes, walk, list, dialog, deleted>>

\* 400 ms later
TimerFires(d) ==
  /\ d \in search.timers
  /\ search' = [search EXCEPT !.timers = @ \ {d}, !.flight = @ \cup {d}]
  /\ UNCHANGED <<behaviour, table, ring, writes, walk, list, boxes, dialog, deleted>>

Found(d) == {id \in search.found : DocumentOf[id] = d}

\* The server finds the producer; the answer is on its way.
ServerFinds(id) ==
  /\ DocumentOf[id] \in search.flight /\ Found(DocumentOf[id]) = {} /\ Loadable(id)
  /\ search' = [search EXCEPT !.found = @ \cup {id}]
  /\ UNCHANGED <<behaviour, table, ring, writes, walk, list, boxes, dialog, deleted>>

\* No producer, or an error, clears the hit; an answer is taken whatever the
\* box holds, or has become of the producer, by then.
SearchAnswers(d) ==
  /\ d \in search.flight
  /\ \E hit \in {NoId} \cup Found(d) :
       search' = [search EXCEPT !.flight = @ \ {d}, !.found = @ \ Found(d), !.hit = hit]
  /\ UNCHANGED <<behaviour, table, ring, writes, walk, list, boxes, dialog, deleted>>

AskDelete(id) ==
  /\ Usable /\ id \in Shown
  /\ dialog' = [id |-> id, busy |-> FALSE]
  /\ UNCHANGED <<behaviour, table, ring, writes, walk, list, boxes, search, deleted>>

Cancel ==
  /\ OnScreen /\ dialog.id # NoId /\ ~dialog.busy
  /\ dialog' = [id |-> NoId, busy |-> FALSE]
  /\ UNCHANGED <<behaviour, table, ring, writes, walk, list, boxes, search, deleted>>

ConfirmDelete ==
  /\ OnScreen /\ dialog.id # NoId /\ ~dialog.busy
  /\ dialog' = [dialog EXCEPT !.busy = TRUE]
  /\ UNCHANGED <<behaviour, table, ring, writes, walk, list, boxes, search, deleted>>

\* deleteProducer has a tag for the list.
DeleteInvalidates == TRUE

DeleteAnswers ==
  /\ dialog.busy /\ Loadable(dialog.id)
  /\ table' = [table EXCEPT ![dialog.id].live = FALSE]
  /\ dialog' = [id |-> NoId, busy |-> FALSE]
  /\ deleted' = deleted \cup {dialog.id}
  /\ list' = [list EXCEPT !.invalid = DeleteInvalidates]
  /\ UNCHANGED <<behaviour, ring, writes, walk, boxes, search>>

\* Gone already, refused or lost, or its answer lost: the dialog stays open.
DeleteFails ==
  /\ dialog.busy
  /\ \/ UNCHANGED table
     \/ /\ Loadable(dialog.id)
        /\ table' = [table EXCEPT ![dialog.id].live = FALSE]
  /\ dialog' = [dialog EXCEPT !.busy = FALSE]
  /\ list' = [list EXCEPT !.invalid = DeleteInvalidates]
  /\ UNCHANGED <<behaviour, ring, writes, walk, boxes, search, deleted>>

-----------------------------------------------------------------------------
Next ==
  \/ \E id \in Ids : Create(id) \/ Update(id) \/ Delete(id) \/ AskDelete(id)
  \/ Rotate \/ StartWalk \/ NextPage
  \/ \E p \in 1..Cardinality(Ids) : GoToPage(p)
  \/ \E size \in PageSizes : ChangePageSize(size)
  \/ \E n \in Filters : TypeName(n)
  \/ DeferredQuery
  \/ \E a \in DOMAIN list.entries : ServerCounts(a) \/ ServerSelects(a) \/ ListAnswers(a)
  \/ Expire \/ Retry \/ Invalidate
  \/ \E d \in Documents \cup {NoDocument} : TypeDocument(d)
  \/ \E id \in Ids : ServerFinds(id)
  \/ \E d \in Documents : TimerFires(d) \/ SearchAnswers(d)
  \/ Cancel \/ ConfirmDelete \/ DeleteAnswers \/ DeleteFails

Spec == Init /\ [][Next]_vars

-----------------------------------------------------------------------------
Occurrences(id) == Cardinality({i \in DOMAIN walk.seen : walk.seen[i] = id})

\* README: 'Lista paginada (OFFSET e/ou `cursor` keyset)'.  A walk by cursor
\* lists every producer that was there all the time exactly once, whatever is
\* created, renamed or deleted meanwhile.
WalkIsComplete == walk.done => \A id \in walk.steady : Occurrences(id) = 1

\* The same for the producers it holds for: in ascending order for all, in
\* descending order for those whose name or millisecond was not shared by the
\* last one of a page: the cursor compares ids against the order the page is
\* sorted in.
UntiedWalkIsComplete ==
  walk.done => \A id \in walk.steady :
    \/ Occurrences(id) = 1
    \/ /\ walk.query.sortOrder = "desc"
       /\ SortValue(table[id], walk.query) \in walk.split

\* README: 'Rotação opcional (decrypt da chave anterior)'.  A walk only fails,
\* rotation or not, at a producer last written two rotations ago or before
\* payloads carried a key id.
RotationKeepsReading ==
  walk.on /\ ~walk.done /\ FindPage(table, [walk.query EXCEPT !.cursor = walk.cursor], ring) = Failed
    => \E id \in Live : \/ table[id].key + 1 < ring.active
                        \/ ~table[id].named /\ table[id].key # ring.active

Quiet ==
  /\ OnScreen /\ Current.status = "answered" /\ ~list.invalid
  /\ list.args.name = boxes.typed

\* A producer whose deletion was reported is not in the list once the list has
\* settled, on whichever page, whatever was cached when it was deleted, and
\* even if a page was read before and arrives after it was deleted; only the hit
\* of the search by document still shows it.
DeletedLeavesList ==
  Quiet => \A id \in deleted : id \in Shown => id = search.hit

\* As long as nobody writes, the pager, the page sizes and the name box never
\* lead past the end: a page beyond the first has a row.
PagesExist ==
  Quiet /\ list.args.page > 1 /\ writes = 0 /\ table = behaviour.table => Data.items # <<>>

\* Once the search has settled, the hit is the producer of the document in the
\* box, unless the box was changed while a search was under way: its answer is
\* taken whenever it comes.
HitIsForBox ==
  search.timers = {} /\ search.flight = {} /\ ~search.overtaken /\ search.hit # NoId
    => DocumentOf[search.hit] = boxes.document
=============================================================================
