------------------------- MODULE DashboardPageProofs -------------------------
(***************************************************************************)
(* Proofs about DashboardPage: its type, that a page that says it is up to *)
(* date shows what its filter bar says, and that it shows every save of    *)
(* the other pages.                                                        *)
(***************************************************************************)
EXTENDS DashboardPage, TLAPS

(* The inductive invariant *)

\* An entry holds answers for its own arguments, has been answered if it says
\* so, and only a pending request can have read the tables.
EntryOK(entry, args) ==
  /\ entry \in Entries
  /\ entry.status = "none" => entry.data = NoData
  /\ entry.status = "answered" => entry.data # NoData
  /\ entry.data # NoData => entry.data.filters = Received(args)
  /\ entry.read # Unread => entry.status = "pending"

CacheOK(es) == \A e \in Endpoints, args \in Arguments : EntryOK(es[e][args], args)

\* Nothing answered, and nothing read for an answer, is older than w.
FreshAt(es, w) ==
  \A e \in Endpoints, args \in Arguments :
    /\ es[e][args].status = "answered" => es[e][args].data.writes = w
    /\ es[e][args].read # Unread => es[e][args].read = w

\* The tag waits only for a request or for a save.
TagWaits == stale => saving # "none" \/ Pending(entries)

\* The hooks follow the entries of the filters that are shown.
HooksFollow ==
  open => \A e \in Endpoints :
            /\ Current(e).status # "none"
            /\ Current(e).status = "answered" => shown[e] = Current(e).data

PageInv ==
  /\ TypeOK
  /\ saving = "sent" => writes < MaxWrites
  /\ CacheOK(entries)
  /\ saving = "none" /\ ~stale => FreshAt(entries, writes)
  /\ TagWaits
  /\ HooksFollow

-----------------------------------------------------------------------------
(* Filters and arguments *)

\* The empty bar is a choice of filters, and so is one control changed.
LEMMA NoFiltersType == NoFilters \in Filters
BY DEF NoFilters, Filters

LEMMA PatchType ==
  ASSUME NEW f \in Filters, NEW key \in DOMAIN Options,
         NEW value \in {Unset} \cup Options[key]
  PROVE  [f EXCEPT ![key] = value] \in Filters
BY DEF Filters

\* cleanFilters loses nothing: the server reads from the arguments the filters
\* they were made from.
LEMMA CleanReceived ==
  ASSUME NEW f \in Filters
  PROVE  CleanFilters(f) \in Arguments /\ Received(CleanFilters(f)) = f
<1>1. DOMAIN f = DOMAIN Options /\ f = [k \in DOMAIN Options |-> f[k]]
  BY DEF Filters
<1>2. CleanFilters(f) = [k \in {k \in DOMAIN Options : f[k] # Unset} |-> f[k]]
  BY <1>1 DEF CleanFilters, Given
<1>3. Received(CleanFilters(f)) = [k \in DOMAIN Options |-> f[k]]
  BY <1>2 DEF Received
<1>4. QED  BY <1>1, <1>3 DEF Arguments

LEMMA ReceivedType ==
  ASSUME NEW args \in Arguments
  PROVE  Received(args) \in Filters
<1>1. PICK f \in Filters : args = CleanFilters(f)
  BY DEF Arguments
<1>2. QED  BY <1>1, CleanReceived

-----------------------------------------------------------------------------
(* Entries of the cache *)

LEMMA NoDataIsNoAnswer == NoData \notin Answers
BY AbsentAssumption, DashboardPageAssumption DEF Answers

LEMMA NoEntryOK == \A args \in Arguments : EntryOK(NoEntry, args)
BY DEF EntryOK, NoEntry, Entries

LEMMA AskedOK ==
  ASSUME NEW args \in Arguments, NEW entry, EntryOK(entry, args)
  PROVE  /\ EntryOK(Asked(entry), args)
         /\ Asked(entry).status = "pending" /\ Asked(entry).read = Unread
BY DEF EntryOK, Asked, Entries

\* initiate leaves every entry as it is or asks it again; afterwards the two
\* entries of f are pending or have data.
LEMMA InitiatedOK ==
  ASSUME NEW es \in [Endpoints -> [Arguments -> Entries]], CacheOK(es),
         NEW f \in Arguments, NEW forced \in BOOLEAN
  PROVE  LET next == Initiated(es, f, forced)
         IN /\ next \in [Endpoints -> [Arguments -> Entries]]
            /\ CacheOK(next)
            /\ \A e \in Endpoints, args \in Arguments :
                 next[e][args] \in {es[e][args], Asked(es[e][args])}
            /\ \A e \in Endpoints : next[e][f].status # "none"
<1> DEFINE next == Initiated(es, f, forced)
<1>1. ASSUME NEW e \in Endpoints, NEW args \in Arguments
      PROVE  /\ next[e][args] \in {es[e][args], Asked(es[e][args])}
             /\ EntryOK(next[e][args], args)
  BY AskedOK DEF Initiated, CacheOK
<1>2. ASSUME NEW e \in Endpoints
      PROVE  /\ next[e] \in [Arguments -> Entries]
             /\ next[e][f].status # "none"
  <2>1. EntryOK(es[e][f], f)
    BY DEF CacheOK
  <2>2. Asked(es[e][f]).status = "pending" /\ Asked(es[e][f]) \in Entries
    BY <2>1, AskedOK DEF EntryOK
  <2>3. CASE es[e][f].status # "pending" /\ (forced \/ es[e][f].data = NoData)
    <3>1. next[e] = [es[e] EXCEPT ![f] = Asked(es[e][f])]
      BY <2>3 DEF Initiated
    <3>2. QED  BY <2>2, <3>1
  <2>4. CASE ~(es[e][f].status # "pending" /\ (forced \/ es[e][f].data = NoData))
    <3>1. next[e] = es[e]
      BY <2>4 DEF Initiated
    <3>2. QED  BY <2>1, <2>4, <3>1 DEF EntryOK
  <2>5. QED  BY <2>3, <2>4
<1>3. next = [e \in Endpoints |-> next[e]]
  BY DEF Initiated
<1>4. QED
  <2> HIDE DEF next
  <2>1. next \in [Endpoints -> [Arguments -> Entries]]
    BY <1>2, <1>3
  <2>2. QED  BY <2>1, <1>1, <1>2 DEF CacheOK, next

\* Invalidation leaves nothing answered and nothing read.
LEMMA InvalidatedOK ==
  ASSUME NEW es \in [Endpoints -> [Arguments -> Entries]], CacheOK(es),
         NEW used \in SUBSET Arguments
  PROVE  LET next == Invalidated(es, used)
         IN /\ next \in [Endpoints -> [Arguments -> Entries]]
            /\ CacheOK(next)
            /\ \A e \in Endpoints, args \in Arguments :
                 next[e][args].status # "answered" /\ next[e][args].read = Unread
            /\ \A e \in Endpoints, args \in used : next[e][args].status = "pending"
<1> DEFINE next == Invalidated(es, used)
<1>1. next = [e \in Endpoints |->
                [args \in Arguments |->
                   IF args \in used THEN Asked(es[e][args]) ELSE NoEntry]]
  BY DEF Invalidated, Tagged
<1>2. ASSUME NEW e \in Endpoints, NEW args \in Arguments
      PROVE  /\ EntryOK(next[e][args], args)
             /\ next[e][args].status # "answered" /\ next[e][args].read = Unread
             /\ args \in used => next[e][args].status = "pending"
  <2>1. next[e][args] = IF args \in used THEN Asked(es[e][args]) ELSE NoEntry
    BY <1>1
  <2>2. EntryOK(es[e][args], args)
    BY DEF CacheOK
  <2> HIDE DEF next
  <2>3. CASE args \in used
    BY <2>1, <2>2, <2>3, AskedOK
  <2>4. CASE args \notin used
    BY <2>1, <2>4, NoEntryOK DEF NoEntry
  <2>5. QED  BY <2>3, <2>4
<1>3. next \in [Endpoints -> [Arguments -> Entries]]
  BY <1>1, <1>2 DEF EntryOK
<1>4. QED
  <2> HIDE DEF next
  <2>1. QED  BY <1>2, <1>3 DEF CacheOK, next

LEMMA InUseType == TypeOK => InUse \in SUBSET Arguments
BY CleanReceived DEF TypeOK, InUse

\* The end of a request or of a save: the tag is dropped when nothing is under
\* way, and what was read before is then no longer an answer.
LEMMA EndedOK ==
  ASSUME InUse \in SUBSET Arguments,
         NEW es \in [Endpoints -> [Arguments -> Entries]], CacheOK(es),
         \A e \in Endpoints, args \in InUse : es[e][args].status # "none",
         NEW mutation, NEW tag \in BOOLEAN, NEW w,
         mutation = "none" /\ ~tag => FreshAt(es, w),
         Ended(es, mutation, tag)
  PROVE  /\ entries' \in [Endpoints -> [Arguments -> Entries]]
         /\ CacheOK(entries')
         /\ \A e \in Endpoints, args \in InUse : entries'[e][args].status # "none"
         /\ stale' \in BOOLEAN
         /\ mutation = "none" /\ ~stale' => FreshAt(entries', w)
         /\ stale' => mutation # "none" \/ Pending(entries')
<1> DEFINE now == tag /\ mutation = "none" /\ ~Pending(es)
<1>1. entries' = (IF now THEN Invalidated(es, InUse) ELSE es) /\ stale' = (tag /\ ~now)
  BY DEF Ended
<1>2. CASE now
  <2>1. entries' = Invalidated(es, InUse) /\ stale' = FALSE
    BY <1>1, <1>2
  <2>2. \A e \in Endpoints, args \in Arguments :
          entries'[e][args].status # "answered" /\ entries'[e][args].read = Unread
    BY <2>1, InvalidatedOK
  <2>3. /\ entries' \in [Endpoints -> [Arguments -> Entries]]
        /\ CacheOK(entries')
        /\ \A e \in Endpoints, args \in InUse : entries'[e][args].status = "pending"
    BY <2>1, InvalidatedOK
  <2>4. QED  BY <2>1, <2>2, <2>3 DEF FreshAt
<1>3. CASE ~now
  BY <1>1, <1>3
<1>4. QED  BY <1>2, <1>3

-----------------------------------------------------------------------------
(* The hooks *)

\* What the hooks return next is data, and that of an entry that is answered.
LEMMA FollowOK ==
  ASSUME entries' \in [Endpoints -> [Arguments -> Entries]], CacheOK(entries'),
         NEW f \in Filters, NEW last \in [Endpoints -> {NoData} \cup Answers],
         NEW was \in BOOLEAN,
         Follow(f, last, was)
  PROVE  /\ shown' \in [Endpoints -> {NoData} \cup Answers]
         /\ loading' \in BOOLEAN
         /\ \A e \in Endpoints :
              entries'[e][CleanFilters(f)].status = "answered" =>
                shown'[e] = entries'[e][CleanFilters(f)].data
<1>1. CleanFilters(f) \in Arguments
  BY CleanReceived
<1>2. \A e \in Endpoints : entries'[e][CleanFilters(f)].data \in {NoData} \cup Answers
  BY <1>1 DEF Entries
<1>3. shown' = [e \in Endpoints |->
                  IF entries'[e][CleanFilters(f)].status # "answered" /\ last[e] # NoData
                  THEN last[e] ELSE entries'[e][CleanFilters(f)].data]
  BY DEF Follow
<1>4. loading' \in BOOLEAN
  BY DEF Follow
<1>5. QED  BY <1>2, <1>3, <1>4

LEMMA FollowIfOpenOK ==
  ASSUME TypeOK, UNCHANGED <<open, filters>>,
         entries' \in [Endpoints -> [Arguments -> Entries]], CacheOK(entries'),
         \A e \in Endpoints, args \in InUse : entries'[e][args].status # "none",
         FollowIfOpen
  PROVE  /\ shown' \in [Endpoints -> {NoData} \cup Answers]
         /\ loading' \in BOOLEAN
         /\ HooksFollow'
<1>1. CASE open
  <2>1. Follow(filters, shown, loading)
    BY <1>1 DEF FollowIfOpen
  <2>2. QED
    BY <1>1, <2>1, FollowOK DEF TypeOK, HooksFollow, Current, InUse
<1>2. CASE ~open
  BY <1>2 DEF TypeOK, FollowIfOpen, HooksFollow
<1>3. QED  BY <1>1, <1>2 DEF TypeOK

-----------------------------------------------------------------------------
(* The invariant is inductive *)

LEMMA PageInvInit == Init => PageInv
<1> SUFFICES ASSUME Init PROVE PageInv
  OBVIOUS
<1>1. NoEntry \in Entries
  BY DEF NoEntry, Entries
<1>2. \A e \in Endpoints, args \in Arguments : entries[e][args] = NoEntry
  BY DEF Init
<1>3. TypeOK
  <2>1. entries \in [Endpoints -> [Arguments -> Entries]]
    BY <1>1 DEF Init
  <2>2. shown \in [Endpoints -> {NoData} \cup Answers]
    BY DEF Init, Nothing
  <2>3. writes \in 0..MaxWrites /\ choices \in 0..MaxChoices /\ failures \in 0..MaxFailures
    BY DashboardPageAssumption DEF Init
  <2>4. QED  BY <2>1, <2>2, <2>3, NoFiltersType DEF Init, TypeOK
<1>4. CacheOK(entries)
  BY <1>2, NoEntryOK DEF CacheOK
<1>5. FreshAt(entries, writes)
  BY <1>2 DEF FreshAt, NoEntry
<1>6. TagWaits /\ HooksFollow /\ saving # "sent"
  BY DEF Init, TagWaits, HooksFollow
<1>7. QED  BY <1>3, <1>4, <1>5, <1>6 DEF PageInv

\* Of two entries one is the other or the other asked again: what is fresh
\* stays fresh and what is pending stays pending.
LEMMA InitiatedKeeps ==
  ASSUME PageInv, NEW f \in Arguments, NEW forced \in BOOLEAN,
         entries' = Initiated(entries, f, forced)
  PROVE  /\ entries' \in [Endpoints -> [Arguments -> Entries]]
         /\ CacheOK(entries')
         /\ saving = "none" /\ ~stale => FreshAt(entries', writes)
         /\ stale => saving # "none" \/ Pending(entries')
         /\ \A e \in Endpoints : entries'[e][f].status # "none"
<1>1. /\ entries' \in [Endpoints -> [Arguments -> Entries]]
      /\ CacheOK(entries')
      /\ \A e \in Endpoints, args \in Arguments :
           entries'[e][args] \in {entries[e][args], Asked(entries[e][args])}
      /\ \A e \in Endpoints : entries'[e][f].status # "none"
  BY InitiatedOK DEF PageInv, TypeOK
<1>2. \A e \in Endpoints, args \in Arguments :
        Asked(entries[e][args]).status = "pending" /\ Asked(entries[e][args]).read = Unread
  BY AskedOK DEF PageInv, CacheOK
<1>3. saving = "none" /\ ~stale => FreshAt(entries', writes)
  BY <1>1, <1>2 DEF PageInv, FreshAt
<1>4. Pending(entries) => Pending(entries')
  BY <1>1, <1>2 DEF Pending
<1>5. QED  BY <1>1, <1>3, <1>4 DEF PageInv, TagWaits

LEMMA OpenKeeps == ASSUME PageInv, Open PROVE PageInv'
<1>1. /\ open' = TRUE /\ filters' = NoFilters /\ choice' = NoChoice
      /\ entries' = Initiated(entries, CleanFilters(NoFilters), FALSE)
      /\ Follow(NoFilters, Nothing, TRUE)
      /\ UNCHANGED <<saving, writes, failures, stale, choices>>
  BY DEF Open, Elsewhere
<1>2. NoFilters \in Filters /\ CleanFilters(NoFilters) \in Arguments
  BY NoFiltersType, CleanReceived
<1>3. /\ entries' \in [Endpoints -> [Arguments -> Entries]]
      /\ CacheOK(entries')
      /\ saving = "none" /\ ~stale => FreshAt(entries', writes)
      /\ stale => saving # "none" \/ Pending(entries')
      /\ \A e \in Endpoints : entries'[e][CleanFilters(NoFilters)].status # "none"
  BY <1>1, <1>2, InitiatedKeeps
<1>4. Nothing \in [Endpoints -> {NoData} \cup Answers]
  BY DEF Nothing
<1>5. /\ shown' \in [Endpoints -> {NoData} \cup Answers]
      /\ loading' \in BOOLEAN
      /\ \A e \in Endpoints :
           entries'[e][CleanFilters(NoFilters)].status = "answered" =>
             shown'[e] = entries'[e][CleanFilters(NoFilters)].data
  BY <1>1, <1>2, <1>3, <1>4, FollowOK
<1>6. TypeOK'
  BY <1>1, <1>2, <1>3, <1>5 DEF PageInv, TypeOK
<1>7. HooksFollow'
  BY <1>1, <1>3, <1>5 DEF HooksFollow, Current
<1>8. QED  BY <1>1, <1>3, <1>6, <1>7 DEF PageInv, TagWaits

LEMMA RenderKeeps == ASSUME PageInv, Render PROVE PageInv'
<1>1. /\ open /\ open' = open /\ filters' = choice /\ choice' = NoChoice
      /\ entries' = Initiated(entries, CleanFilters(choice), FALSE)
      /\ Follow(choice, shown, loading)
      /\ UNCHANGED <<saving, writes, failures, stale, choices>>
  BY DEF Render, Elsewhere
<1>2. choice \in Filters /\ CleanFilters(choice) \in Arguments
  BY CleanReceived DEF Render, PageInv, TypeOK
<1>3. /\ entries' \in [Endpoints -> [Arguments -> Entries]]
      /\ CacheOK(entries')
      /\ saving = "none" /\ ~stale => FreshAt(entries', writes)
      /\ stale => saving # "none" \/ Pending(entries')
      /\ \A e \in Endpoints : entries'[e][CleanFilters(choice)].status # "none"
  BY <1>1, <1>2, InitiatedKeeps
<1>4. /\ shown' \in [Endpoints -> {NoData} \cup Answers]
      /\ loading' \in BOOLEAN
      /\ \A e \in Endpoints :
           entries'[e][CleanFilters(choice)].status = "answered" =>
             shown'[e] = entries'[e][CleanFilters(choice)].data
  BY <1>1, <1>2, <1>3, FollowOK DEF PageInv, TypeOK
<1>5. TypeOK'
  BY <1>1, <1>2, <1>3, <1>4 DEF PageInv, TypeOK
<1>6. HooksFollow'
  BY <1>1, <1>3, <1>4 DEF HooksFollow, Current
<1>7. QED  BY <1>1, <1>3, <1>5, <1>6 DEF PageInv, TagWaits

LEMMA RetryKeeps == ASSUME PageInv, HandleRetry PROVE PageInv'
<1>1. /\ open /\ entries' = Initiated(entries, CleanFilters(filters), TRUE)
      /\ Follow(filters, shown, loading)
      /\ UNCHANGED <<open, filters, choice, saving, writes, failures, stale, choices>>
  BY DEF HandleRetry, Panel, Elsewhere
<1>2. filters \in Filters /\ CleanFilters(filters) \in Arguments
  BY CleanReceived DEF PageInv, TypeOK
<1>3. /\ entries' \in [Endpoints -> [Arguments -> Entries]]
      /\ CacheOK(entries')
      /\ saving = "none" /\ ~stale => FreshAt(entries', writes)
      /\ stale => saving # "none" \/ Pending(entries')
      /\ \A e \in Endpoints : entries'[e][CleanFilters(filters)].status # "none"
  BY <1>1, <1>2, InitiatedKeeps
<1>4. /\ shown' \in [Endpoints -> {NoData} \cup Answers]
      /\ loading' \in BOOLEAN
      /\ \A e \in Endpoints :
           entries'[e][CleanFilters(filters)].status = "answered" =>
             shown'[e] = entries'[e][CleanFilters(filters)].data
  BY <1>1, <1>2, <1>3, FollowOK DEF PageInv, TypeOK
<1>5. TypeOK'
  BY <1>1, <1>3, <1>4 DEF PageInv, TypeOK
<1>6. HooksFollow'
  BY <1>1, <1>3, <1>4 DEF HooksFollow, Current
<1>7. QED  BY <1>1, <1>3, <1>5, <1>6 DEF PageInv, TagWaits

LEMMA LeaveKeeps == ASSUME PageInv, Leave PROVE PageInv'
<1>1. Nothing \in [Endpoints -> {NoData} \cup Answers]
  BY DEF Nothing
<1>2. TypeOK'
  BY <1>1, NoFiltersType DEF PageInv, TypeOK, Leave, Elsewhere
<1>3. QED  BY <1>2 DEF PageInv, Leave, Elsewhere, TagWaits, HooksFollow, CacheOK, FreshAt, Pending

LEMMA ChooseKeeps ==
  ASSUME PageInv, NEW next \in Filters, Choose(next)
  PROVE  PageInv'
<1>1. TypeOK'
  BY DashboardPageAssumption DEF PageInv, TypeOK, Choose, Elsewhere
<1>2. QED  BY <1>1 DEF PageInv, Choose, Elsewhere, TagWaits, HooksFollow, Current, CacheOK, FreshAt, Pending

LEMMA ReadKeeps ==
  ASSUME PageInv, NEW e \in Endpoints, NEW args \in Arguments, Read(e, args)
  PROVE  PageInv'
<1> DEFINE entry == entries[e][args]
           asked == [entry EXCEPT !.read = writes]
<1>1. /\ entry.status = "pending" /\ entry.read = Unread
      /\ entries' = [entries EXCEPT ![e] = [entries[e] EXCEPT ![args] = asked]]
      /\ UNCHANGED <<open, filters, choice, shown, loading, saving, writes, failures,
                     stale, choices>>
  BY DEF Read, Elsewhere, PageInv, TypeOK
<1>2. EntryOK(entry, args)
  BY DEF PageInv, CacheOK
<1>3. EntryOK(asked, args) /\ asked.status = "pending" /\ asked.read = writes
  BY <1>1, <1>2 DEF EntryOK, Entries, PageInv, TypeOK
<1> HIDE DEF asked
<1>4. entries' \in [Endpoints -> [Arguments -> Entries]]
  BY <1>1, <1>3 DEF EntryOK, PageInv, TypeOK
<1>5. \A d \in Endpoints, x \in Arguments :
        entries'[d][x] = IF d = e /\ x = args THEN asked ELSE entries[d][x]
  BY <1>1 DEF PageInv, TypeOK
<1>6. CacheOK(entries')
  BY <1>3, <1>5 DEF PageInv, CacheOK
<1>7. FreshAt(entries, writes) => FreshAt(entries', writes)
  BY <1>3, <1>5 DEF FreshAt
<1>8. Pending(entries')
  BY <1>3, <1>5 DEF Pending
<1>9. TypeOK'
  BY <1>1, <1>4 DEF PageInv, TypeOK
<1>10. HooksFollow'
  <2>1. CleanFilters(filters) \in Arguments
    BY CleanReceived DEF PageInv, TypeOK
  <2>2. QED
    BY <1>1, <1>3, <1>5, <2>1 DEF PageInv, HooksFollow, Current
<1>11. QED  BY <1>1, <1>6, <1>7, <1>8, <1>9, <1>10 DEF PageInv, TagWaits

\* What Answer and Reject share: one entry is replaced by one that was
\* answered or rejected, and the request ends.
LEMMA RequestEnds ==
  ASSUME PageInv, NEW e \in Endpoints, NEW args \in Arguments,
         NEW entry, EntryOK(entry, args), entry.status # "none",
         entry.read = Unread,
         saving = "none" /\ ~stale /\ entry.status = "answered" =>
           entry.data.writes = writes,
         Ended([entries EXCEPT ![e] = [entries[e] EXCEPT ![args] = entry]], saving, stale),
         FollowIfOpen,
         UNCHANGED <<open, filters, choice, saving, writes, choices>>,
         failures' \in 0..MaxFailures
  PROVE  PageInv'
<1> DEFINE es == [entries EXCEPT ![e] = [entries[e] EXCEPT ![args] = entry]]
<1>1. es \in [Endpoints -> [Arguments -> Entries]]
  BY DEF PageInv, TypeOK, EntryOK
<1>2. \A d \in Endpoints, x \in Arguments :
        es[d][x] = IF d = e /\ x = args THEN entry ELSE entries[d][x]
  BY DEF PageInv, TypeOK
<1>3. Ended(es, saving, stale)
  OBVIOUS
<1> HIDE DEF es
<1>4. CacheOK(es)
  BY <1>2 DEF PageInv, CacheOK
<1>5. saving = "none" /\ ~stale => FreshAt(es, writes)
  BY <1>2 DEF PageInv, FreshAt
<1>6. InUse \in SUBSET Arguments
  BY InUseType DEF PageInv
<1>7. \A d \in Endpoints, x \in InUse : es[d][x].status # "none"
  BY <1>2, <1>6 DEF PageInv, HooksFollow, Current, InUse
<1>8. /\ entries' \in [Endpoints -> [Arguments -> Entries]]
      /\ CacheOK(entries')
      /\ \A d \in Endpoints, x \in InUse : entries'[d][x].status # "none"
      /\ stale' \in BOOLEAN
      /\ saving = "none" /\ ~stale' => FreshAt(entries', writes)
      /\ stale' => saving # "none" \/ Pending(entries')
  <2>1. stale \in BOOLEAN
    BY DEF PageInv, TypeOK
  <2>2. QED  BY <1>1, <1>3, <1>4, <1>5, <1>6, <1>7, <2>1, EndedOK
<1>9. /\ shown' \in [Endpoints -> {NoData} \cup Answers]
      /\ loading' \in BOOLEAN
      /\ HooksFollow'
  BY <1>8, FollowIfOpenOK DEF PageInv
<1>10. TypeOK'
  BY <1>8, <1>9 DEF PageInv, TypeOK
<1>11. QED  BY <1>8, <1>9, <1>10 DEF PageInv, TagWaits

LEMMA AnswerKeeps ==
  ASSUME PageInv, NEW e \in Endpoints, NEW args \in Arguments, Answer(e, args)
  PROVE  PageInv'
<1> DEFINE entry == entries[e][args]
           answer == [filters |-> Received(args), writes |-> entry.read]
           answered == [status |-> "answered", read |-> Unread, data |-> answer]
<1>1. /\ entry.status = "pending" /\ entry.read # Unread
      /\ Ended([entries EXCEPT ![e] = [entries[e] EXCEPT ![args] = answered]], saving, stale)
      /\ FollowIfOpen
      /\ UNCHANGED <<open, filters, choice, saving, writes, failures, choices>>
  BY DEF Answer, Elsewhere, PageInv, TypeOK
<1>2. EntryOK(entry, args)
  BY DEF PageInv, CacheOK
<1>3. answer \in Answers /\ answer # NoData
  <2>1. entry.read \in 0..MaxWrites
    BY <1>1, <1>2 DEF EntryOK, Entries
  <2>2. QED  BY <2>1, ReceivedType, NoDataIsNoAnswer DEF Answers
<1>4. EntryOK(answered, args)
  BY <1>3 DEF EntryOK, Entries
<1>5. saving = "none" /\ ~stale => answered.data.writes = writes
  BY <1>1 DEF PageInv, FreshAt
<1>6. failures' \in 0..MaxFailures
  BY <1>1 DEF PageInv, TypeOK
<1>7. answered.status # "none" /\ answered.read = Unread
  OBVIOUS
<1> HIDE DEF answered
<1>8. QED  BY <1>1, <1>4, <1>5, <1>6, <1>7, RequestEnds

LEMMA RejectKeeps ==
  ASSUME PageInv, NEW e \in Endpoints, NEW args \in Arguments, Reject(e, args)
  PROVE  PageInv'
<1> DEFINE entry == entries[e][args]
           rejected == [entry EXCEPT !.status = "rejected", !.read = Unread]
           es == [entries EXCEPT ![e] = [entries[e] EXCEPT ![args] = rejected]]
<1>1. EntryOK(entry, args)
  BY DEF PageInv, CacheOK
<1>2. EntryOK(rejected, args) /\ rejected.status = "rejected" /\ rejected.read = Unread
  BY <1>1 DEF EntryOK, Entries
<1>3. [entries EXCEPT ![e][args].status = "rejected", ![e][args].read = Unread] = es
  BY DEF PageInv, TypeOK
<1>4. /\ Refused(args) \/ failures < MaxFailures
      /\ failures' = IF Refused(args) THEN failures ELSE failures + 1
      /\ Ended(es, saving, stale)
      /\ FollowIfOpen
      /\ UNCHANGED <<open, filters, choice, saving, writes, choices>>
  BY <1>3 DEF Reject
<1>5. failures' \in 0..MaxFailures
  BY <1>4, DashboardPageAssumption DEF PageInv, TypeOK
<1> HIDE DEF rejected
<1>6. QED  BY <1>2, <1>4, <1>5, RequestEnds

LEMMA DropKeeps ==
  ASSUME PageInv, NEW e \in Endpoints, NEW args \in Arguments, Drop(e, args)
  PROVE  PageInv'
<1>1. /\ args \notin InUse /\ entries[e][args].status \in {"answered", "rejected"}
      /\ entries' = [entries EXCEPT ![e] = [entries[e] EXCEPT ![args] = NoEntry]]
      /\ UNCHANGED <<open, filters, choice, shown, loading, saving, writes, failures,
                     stale, choices>>
  BY DEF Drop, Elsewhere, PageInv, TypeOK
<1>2. EntryOK(NoEntry, args) /\ NoEntry.status = "none" /\ NoEntry.read = Unread
  BY NoEntryOK DEF NoEntry
<1>3. entries' \in [Endpoints -> [Arguments -> Entries]]
  BY <1>1, <1>2 DEF EntryOK, PageInv, TypeOK
<1>4. \A d \in Endpoints, x \in Arguments :
        entries'[d][x] = IF d = e /\ x = args THEN NoEntry ELSE entries[d][x]
  BY <1>1 DEF PageInv, TypeOK
<1>5. CacheOK(entries')
  BY <1>2, <1>4 DEF PageInv, CacheOK
<1>6. FreshAt(entries, writes) => FreshAt(entries', writes)
  BY <1>2, <1>4 DEF FreshAt
<1>7. Pending(entries) => Pending(entries')
  BY <1>1, <1>4 DEF Pending
<1>8. TypeOK'
  BY <1>1, <1>3 DEF PageInv, TypeOK
<1>9. HooksFollow'
  <2>1. CleanFilters(filters) \in Arguments
    BY CleanReceived DEF PageInv, TypeOK
  <2>2. QED  BY <1>1, <1>4, <2>1 DEF PageInv, HooksFollow, Current, InUse
<1>10. QED  BY <1>1, <1>5, <1>6, <1>7, <1>8, <1>9 DEF PageInv, TagWaits

LEMMA SaveKeeps == ASSUME PageInv, Save PROVE PageInv'
BY DEF PageInv, Save, TypeOK, CacheOK, TagWaits, HooksFollow, Current

LEMMA SaveStoredKeeps == ASSUME PageInv, SaveStored PROVE PageInv'
<1>1. writes' \in 0..MaxWrites
  BY DashboardPageAssumption DEF PageInv, TypeOK, SaveStored
<1>2. TypeOK'
  BY <1>1 DEF PageInv, TypeOK, SaveStored
<1>3. QED  BY <1>2 DEF PageInv, SaveStored, CacheOK, TagWaits, HooksFollow, Current

\* Whatever the save did, nothing that was read before it ended stays an
\* answer without the tag that has it asked again.
LEMMA SaveEndsKeeps == ASSUME PageInv, SaveEnds PROVE PageInv'
<1>1. /\ saving' = "none" /\ Ended(entries, "none", TRUE) /\ FollowIfOpen
      /\ UNCHANGED <<open, filters, choice, writes, choices, failures>>
  BY DEF SaveEnds
<1>2. InUse \in SUBSET Arguments
  BY InUseType DEF PageInv
<1>3. \A d \in Endpoints, x \in InUse : entries[d][x].status # "none"
  BY DEF PageInv, HooksFollow, Current, InUse
<1>4. entries \in [Endpoints -> [Arguments -> Entries]] /\ CacheOK(entries)
  BY DEF PageInv, TypeOK
<1>5. /\ entries' \in [Endpoints -> [Arguments -> Entries]]
      /\ CacheOK(entries')
      /\ \A d \in Endpoints, x \in InUse : entries'[d][x].status # "none"
      /\ stale' \in BOOLEAN
      /\ ~stale' => FreshAt(entries', writes)
      /\ stale' => Pending(entries')
  BY <1>1, <1>2, <1>3, <1>4, EndedOK
<1>6. /\ shown' \in [Endpoints -> {NoData} \cup Answers]
      /\ loading' \in BOOLEAN
      /\ HooksFollow'
  BY <1>1, <1>5, FollowIfOpenOK DEF PageInv
<1>7. TypeOK'
  BY <1>1, <1>5, <1>6 DEF PageInv, TypeOK
<1>8. QED  BY <1>1, <1>5, <1>6, <1>7 DEF PageInv, TagWaits

LEMMA PageInvStep == PageInv /\ [Next]_vars => PageInv'
<1> SUFFICES ASSUME PageInv, [Next]_vars PROVE PageInv'
  OBVIOUS
<1>1. CASE Open     BY <1>1, OpenKeeps
<1>2. CASE Leave    BY <1>2, LeaveKeeps
<1>3. CASE Clear    BY <1>3, NoFiltersType, ChooseKeeps DEF Clear
<1>4. CASE Render   BY <1>4, RenderKeeps
<1>5. CASE HandleRetry  BY <1>5, RetryKeeps
<1>6. ASSUME NEW key \in DOMAIN Options, NEW value \in {Unset} \cup Options[key],
             Patch(key, value)
      PROVE  PageInv'
  BY <1>6, PatchType, ChooseKeeps DEF Patch, PageInv, TypeOK
<1>7. ASSUME NEW e \in Endpoints, NEW f \in Arguments,
             Read(e, f) \/ Answer(e, f) \/ Reject(e, f) \/ Drop(e, f)
      PROVE  PageInv'
  BY <1>7, ReadKeeps, AnswerKeeps, RejectKeeps, DropKeeps
<1>8. CASE Save     BY <1>8, SaveKeeps
<1>9. CASE SaveStored  BY <1>9, SaveStoredKeeps
<1>10. CASE SaveEnds   BY <1>10, SaveEndsKeeps
<1>11. CASE UNCHANGED vars
  BY <1>11 DEF vars, PageInv, TypeOK, CacheOK, FreshAt, TagWaits, HooksFollow, Current, Pending
<1>12. QED
  BY <1>1, <1>2, <1>3, <1>4, <1>5, <1>6, <1>7, <1>8, <1>9, <1>10, <1>11 DEF Next

\* The inductive invariant of DashboardPage.
THEOREM PageInvariant == Spec => []PageInv
BY PageInvInit, PageInvStep, PTL DEF Spec

\* Filters, entries, hooks, tag and counters stay in their sets.
THEOREM PageTyped == Spec => []TypeOK
<1>1. PageInv => TypeOK
  BY DEF PageInv
<1>2. QED  BY <1>1, PageInvariant, PTL

\* A page that says it is up to date shows cards and charts, and exports
\* sheets, of exactly the filters its bar shows, except what is made of an
\* answer whose renewal failed.
THEOREM SettledPageAgreement == Spec => []SettledPageAgrees
<1>1. PageInv => SettledPageAgrees
  <2> SUFFICES ASSUME PageInv, Page, ~Refreshing
               PROVE  \A e \in Endpoints :
                        shown[e] # NoData /\ Current(e).status # "rejected" =>
                          shown[e].filters = filters
    <3>1. \A c \in DOMAIN Charts : Charts[c] \in Endpoints
      BY DEF Charts, Endpoints
    <3>2. \A s \in DOMAIN Sheets : Sheets[s] \in Endpoints
      BY DEF Sheets, Endpoints
    <3>3. \A s \in DOMAIN Sheets : Exported[s] = shown[Sheets[s]]
      BY DEF Exported
    <3>4. Page => shown["summary"] # NoData /\ Current("summary").status # "rejected"
      BY DEF Page, Panel
    <3>5. \A s \in DOMAIN Sheets : Sheets[s] \in {"summary", "analytics"}
      BY <3>2 DEF Endpoints
    <3>6. QED
      BY <3>1, <3>2, <3>3, <3>4, <3>5 DEF SettledPageAgrees, Drawn, CanExport, Endpoints
  <2> SUFFICES ASSUME NEW e \in Endpoints, Current(e).status # "rejected"
               PROVE  shown[e].filters = filters
    OBVIOUS
  <2>1. filters \in Filters /\ CleanFilters(filters) \in Arguments
        /\ Received(CleanFilters(filters)) = filters
    BY CleanReceived DEF PageInv, TypeOK
  <2>2. EntryOK(Current(e), CleanFilters(filters))
    BY <2>1 DEF PageInv, CacheOK, Current
  <2>3. Current(e).status = "answered"
    BY <2>2 DEF EntryOK, Entries, Refreshing, Page, PageInv, HooksFollow
  <2>4. QED
    BY <2>1, <2>2, <2>3 DEF EntryOK, PageInv, HooksFollow, Page
<1>2. QED  BY <1>1, PageInvariant, PTL

\* What was saved on the other pages reaches the page even if it is opened
\* while the save is under way and asks before the save is stored.
THEOREM OwnWritesReached == Spec => []OwnWritesReach
<1>1. PageInv => OwnWritesReach
  <2> SUFFICES ASSUME PageInv, open, ~Pending(entries), saving = "none",
                      NEW e \in Endpoints, Current(e).status = "answered"
               PROVE  shown[e].writes = writes
    BY DEF OwnWritesReach
  <2>1. CleanFilters(filters) \in Arguments
    BY CleanReceived DEF PageInv, TypeOK
  <2>2. FreshAt(entries, writes)
    BY DEF PageInv, TagWaits
  <2>3. QED  BY <2>1, <2>2 DEF FreshAt, Current, PageInv, HooksFollow
<1>2. QED  BY <1>1, PageInvariant, PTL
=============================================================================
