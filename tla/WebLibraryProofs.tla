-------------------------- MODULE WebLibraryProofs --------------------------
(* What the library parts of the web application keep, for every value of    *)
(* the constants: the cache does not forget this client's writes and does    *)
(* not ask for ever, a form asks before the document takes an edit with it,  *)
(* and an element bears one chart at most.                                   *)
EXTENDS WebLibrary, FiniteSetTheorems, TLAPS

\* ----------------------------------------------------------- the cache
\* To the cache, a step of the library is one of the cache, the end of the
\* document or none.
LEMMA CacheSteps ==
    ASSUME [Next]_vars
    PROVE  \/ UNCHANGED cacheVars
           \/ MountQuery \/ UnmountQuery \/ ServerReads \/ AnswerArrives
           \/ FetchFails \/ GoesStale \/ Collected \/ OthersWrite
           \/ SendWrite \/ ServerWrites \/ WriteSucceeds \/ WriteFails
           \/ ForgetAll
<1>1. CASE InForm
  BY <1>1 DEF InForm, FormNext, EditField, SubmitForm, LeaveDocument, FollowLink,
              Read, Write
<1>2. CASE InTable \/ InUpload \/ InTimeline \/ UNCHANGED vars
  BY <1>2 DEF InTable, InUpload, InTimeline, vars
<1> QED BY <1>1, <1>2 DEF Next

\* A version was read after every write that was confirmed, unless the fetch
\* is known to have raced with one; and so is what the cache takes for valid
\* while nothing is under way.
CacheTyped ==
    /\ server \in Nat /\ acked \in 0 .. server
    /\ cache \in [data : {None} \cup Nat, invalidated : BOOLEAN, fresh : BOOLEAN]
    /\ fetch \in [phase : {"idle", "sent", "read"}, version : Nat, failures : Nat]
    /\ write \in [phase : {"idle", "sent", "made"}, version : Nat]

CacheInv ==
    /\ CacheTyped
    /\ write.phase = "made" => write.version <= server
    /\ fetch.phase = "read" /\ ~raced => fetch.version >= acked
    /\ OwnWritesNotForgotten

\* What this client had confirmed is shown, being fetched or known to be out of
\* date, however reads, failures, retries, mounts and others' writes interleave
\* (useApiMutation's invalidateKeys), but for the race named in the property.
THEOREM WritesAreKept == Spec => []OwnWritesNotForgotten
<1>1. Init => CacheInv
  <2> SUFFICES ASSUME Init PROVE CacheInv
    OBVIOUS
  <2>1. CacheTyped
    BY DEF Init, CacheInit, CacheTyped, Idle, NoWrite, Empty
  <2>2. cache.data = None /\ write.phase = "idle" /\ fetch.phase = "idle"
    BY DEF Init, CacheInit, Idle, NoWrite, Empty
  <2> QED BY <2>1, <2>2 DEF CacheInv, OwnWritesNotForgotten
<1>2. CacheInv /\ [Next]_vars => CacheInv'
  <2> SUFFICES ASSUME CacheInv, [Next]_vars
               PROVE  CacheInv'
    OBVIOUS
  <2> USE DEF CacheTyped, CacheInv, OwnWritesNotForgotten
  <2>1. CASE UNCHANGED cacheVars
    BY <2>1 DEF cacheVars
  <2>2. CASE MountQuery
    <3>1. CASE Stale /\ fetch.phase = "idle"
      BY <2>2, <3>1 DEF MountQuery, Idle
    <3>2. CASE ~(Stale /\ fetch.phase = "idle")
      BY <2>2, <3>2 DEF MountQuery
    <3> QED BY <3>1, <3>2
  <2>3. CASE UnmountQuery
    BY <2>3 DEF UnmountQuery
  <2>4. CASE ServerReads
    <3>1. /\ fetch' \in [phase : {"idle", "sent", "read"}, version : Nat,
                         failures : Nat]
          /\ fetch'.phase = "read" /\ fetch'.version = server
      BY <2>4 DEF ServerReads
    <3>2. UNCHANGED <<server, acked, cache, write>> /\ server >= acked
      BY <2>4 DEF ServerReads
    <3> QED BY <3>1, <3>2
  <2>5. CASE AnswerArrives
    BY <2>5 DEF AnswerArrives, Idle
  <2>6. CASE FetchFails
    <3> PICK status \in {"4xx", "5xx"} :
          IF Retries(fetch.failures, status)
            THEN /\ fetch' = [phase |-> "sent", version |-> 0,
                              failures |-> fetch.failures + 1]
                 /\ UNCHANGED cache
            ELSE fetch' = Idle /\ cache' = [cache EXCEPT !.invalidated = TRUE]
      BY <2>6 DEF FetchFails
    <3>1. CASE Retries(fetch.failures, status)
      BY <2>6, <3>1 DEF FetchFails
    <3>2. CASE ~Retries(fetch.failures, status)
      <4>1. /\ cache' \in [data : {None} \cup Nat, invalidated : BOOLEAN,
                           fresh : BOOLEAN]
            /\ cache'.invalidated
        BY <3>2
      <4>2. UNCHANGED <<server, acked, write>> /\ fetch' = Idle
        BY <2>6, <3>2 DEF FetchFails
      <4> QED BY <4>1, <4>2 DEF Idle
    <3> QED BY <3>1, <3>2
  <2>7. CASE GoesStale
    BY <2>7 DEF GoesStale
  <2>8. CASE Collected
    BY <2>8 DEF Collected, Empty
  <2>9. CASE OthersWrite
    BY <2>9 DEF OthersWrite
  <2>10. CASE SendWrite
    BY <2>10 DEF SendWrite, NoWrite
  <2>11. CASE ServerWrites
    BY <2>11 DEF ServerWrites
  <2>12. CASE WriteSucceeds
    <3> DEFINE inFlight == fetch.phase # "idle"
               again == mounted /\ (inFlight => cache.data # None)
    <3>1. /\ acked' = write.version /\ UNCHANGED server
          /\ write' = NoWrite
          /\ cache' = [cache EXCEPT !.invalidated = cache # Empty \/ inFlight]
      BY <2>12 DEF WriteSucceeds
    <3>2. cache'.data # None => cache'.invalidated
      <4>1. cache'.data = cache.data
        BY <3>1
      <4>2. cache'.invalidated = (cache # Empty \/ inFlight)
        BY <3>1
      <4>3. Empty.data = None
        BY DEF Empty
      <4> QED BY ONLY <4>1, <4>2, <4>3
    <3>3. /\ cache' \in [data : {None} \cup Nat, invalidated : BOOLEAN,
                         fresh : BOOLEAN]
          /\ write' \in [phase : {"idle", "sent", "made"}, version : Nat]
          /\ write'.phase = "idle" /\ acked' \in 0 .. server'
      <4> DEFINE forgotten == cache # Empty \/ inFlight
      <4>1. forgotten \in BOOLEAN
        OBVIOUS
      <4>2. cache' = [cache EXCEPT !.invalidated = forgotten]
        BY <3>1
      <4> HIDE DEF forgotten
      <4>3. cache' \in [data : {None} \cup Nat, invalidated : BOOLEAN,
                        fresh : BOOLEAN]
        BY <4>1, <4>2
      <4> QED BY <2>12, <3>1, <4>3 DEF WriteSucceeds, NoWrite
    <3>4. CASE again
      <4>1. fetch' = [Idle EXCEPT !.phase = "sent"]
        BY <2>12, <3>4 DEF WriteSucceeds
      <4> QED BY <3>1, <3>2, <3>3, <4>1 DEF Idle
    <3>5. CASE ~again
      <4>1. UNCHANGED fetch /\ raced' = inFlight
        BY <2>12, <3>5 DEF WriteSucceeds
      <4> QED BY <3>1, <3>2, <3>3, <4>1
    <3> QED BY <3>4, <3>5
  <2>13. CASE WriteFails
    BY <2>13 DEF WriteFails, NoWrite
  <2>14. CASE ForgetAll
    BY <2>14 DEF ForgetAll, Empty, Idle, NoWrite
  <2> QED
    BY <2>1, <2>2, <2>3, <2>4, <2>5, <2>6, <2>7, <2>8, <2>9, <2>10, <2>11, <2>12,
       <2>13, <2>14, CacheSteps
<1>3. CacheInv => OwnWritesNotForgotten
  BY DEF CacheInv
<1> QED BY <1>1, <1>2, <1>3, PTL DEF Spec

\* Of a fetch under way, one request is out for each failure and one more.
RetryInv ==
    /\ fetch \in [phase : {"idle", "sent", "read"}, version : {fetch.version},
                  failures : 0 .. 2]
    /\ sends \in 0 .. 3
    /\ fetch.phase # "idle" => sends = fetch.failures + 1

\* No fetch asks the server more than three times, whatever it answers and
\* however often the page is left and opened meanwhile (the client's retry).
THEOREM ThreeRequestsAtMost == Spec => []AtMostThreeRequests
<1>1. Init => RetryInv
  BY DEF Init, CacheInit, RetryInv, Idle
<1>2. RetryInv /\ [Next]_vars => RetryInv'
  <2> SUFFICES ASSUME RetryInv, [Next]_vars
               PROVE  RetryInv'
    OBVIOUS
  <2> USE DEF RetryInv
  <2>1. CASE UNCHANGED <<fetch, sends>>
    BY <2>1
  <2>2. CASE fetch' = [Idle EXCEPT !.phase = "sent"] /\ sends' = 1
    BY <2>2 DEF Idle
  <2>3. CASE fetch' = Idle /\ sends' \in {sends, 0}
    BY <2>3 DEF Idle
  <2>4. CASE ServerReads
    BY <2>4 DEF ServerReads
  <2>5. CASE FetchFails
    <3> PICK status \in {"4xx", "5xx"} :
          IF Retries(fetch.failures, status)
            THEN /\ fetch' = [phase |-> "sent", version |-> 0,
                              failures |-> fetch.failures + 1]
                 /\ sends' = sends + 1
            ELSE fetch' = Idle /\ UNCHANGED sends
      BY <2>5 DEF FetchFails
    <3>1. CASE Retries(fetch.failures, status)
      BY <2>5, <3>1 DEF FetchFails, Retries
    <3>2. CASE ~Retries(fetch.failures, status)
      BY <2>3, <3>2
    <3> QED BY <3>1, <3>2
  <2>6. CASE MountQuery
    BY <2>1, <2>2, <2>6 DEF MountQuery
  <2>7. CASE WriteSucceeds
    BY <2>1, <2>2, <2>7 DEF WriteSucceeds
  <2>8. CASE AnswerArrives \/ ForgetAll
    BY <2>3, <2>8 DEF AnswerArrives, ForgetAll
  <2>9. CASE UnmountQuery \/ GoesStale \/ Collected \/ OthersWrite
    BY <2>1, <2>9 DEF UnmountQuery, GoesStale, Collected, OthersWrite
  <2>10. CASE SendWrite \/ ServerWrites \/ WriteFails \/ UNCHANGED cacheVars
    BY <2>1, <2>10 DEF SendWrite, ServerWrites, WriteFails, cacheVars
  <2> QED
    BY <2>4, <2>5, <2>6, <2>7, <2>8, <2>9, <2>10, CacheSteps
<1>3. RetryInv => AtMostThreeRequests
  BY DEF RetryInv, AtMostThreeRequests
<1> QED BY <1>1, <1>2, <1>3, PTL DEF Spec

\* ------------------------------------------------------------ the form
\* The listener's value of isDirty is never an older one.
FormInv ==
    /\ form \in [default : Values, now : Values, guard : BOOLEAN]
    /\ form.guard <=> IsDirty
    /\ ~lost

\* The document never takes an edit with it unasked (FormWrapper's
\* beforeunload), for any values of the fields.
THEOREM UnloadsAsk == Spec => []NoEditLostOnUnload
<1>1. Init => FormInv
  BY DEF Init, FormInit, FormInv, FormMounted, IsDirty
<1>2. FormInv /\ [Next]_vars => FormInv'
  <2> SUFFICES ASSUME FormInv, [Next]_vars
               PROVE  FormInv'
    OBVIOUS
  <2> USE DEF FormInv, IsDirty
  <2>1. CASE UNCHANGED formVars
    BY <2>1 DEF formVars
  <2>2. CASE EditField
    <3> PICK v \in Values :
          form' = [form EXCEPT !.now = v, !.guard = v # form.default]
      BY <2>2 DEF EditField
    <3> QED BY <2>2 DEF EditField
  <2>3. CASE LeaveDocument
    BY <2>3 DEF LeaveDocument, FormMounted
  <2>4. CASE FollowLink
    BY <2>4 DEF FollowLink, FormMounted
  <2>5. CASE InTable \/ InUpload \/ InTimeline \/ UNCHANGED vars
    BY <2>1, <2>5 DEF InTable, InUpload, InTimeline, vars
  <2> QED
    BY <2>1, <2>2, <2>3, <2>4, <2>5 DEF Next, InForm, FormNext, SubmitForm
<1>3. FormInv => NoEditLostOnUnload
  BY DEF FormInv, NoEditLostOnUnload
<1> QED BY <1>1, <1>2, <1>3, PTL DEF Spec

\* ----------------------------------------------------------- the chart
\* A chart is live and observed.
Whole(c) == c = Chart(c.option, c.size)

\* No effect is due on a page that is gone; the option is the filter's, and if
\* no effect is due it is the chart's.
ChartInv ==
    /\ timeline \in [mounted : BOOLEAN, filter : SignalTypeFilters,
                     option : SignalTypeFilters, due : BOOLEAN]
    /\ timeline.due => timeline.mounted
    /\ timeline.option = timeline.filter
    /\ charts = {} \/ (timeline.mounted /\ \E c : charts = {c} /\ Whole(c))
    /\ timeline.mounted /\ ~timeline.due =>
          \E c \in charts : c.option = timeline.option

\* The cleanup of the effect leaves nothing on the element.
LEMMA NothingIsLeft == ASSUME ChartInv PROVE Cleaned = {}
<1>1. ASSUME NEW c \in charts
      PROVE  ~Cleanup(c).live /\ ~Cleanup(c).observed
  <2>1. Whole(c)
    BY <1>1 DEF ChartInv
  <2> QED BY <2>1 DEF Whole, Chart, Cleanup
<1> QED BY <1>1 DEF Cleaned

\* A chart as it is made.
LEMMA ChartIsWhole ==
    \A option, size : Whole(Chart(option, size)) /\ Chart(option, size).option = option
  BY DEF Whole, Chart

LEMMA ChartInit == Init => ChartInv
  BY DEF Init, TimelineInit, ChartInv, NoTimeline, SignalTypeFilters

\* The timeline's steps; the other parts leave it alone.
LEMMA ChartInductive == ChartInv /\ [Next]_vars => ChartInv'
<1> SUFFICES ASSUME ChartInv, [Next]_vars
             PROVE  ChartInv'
  OBVIOUS
<1>1. CASE UNCHANGED <<timeline, charts>>
  BY <1>1 DEF ChartInv, Whole
<1>2. CASE MountTimeline
  BY <1>2 DEF MountTimeline, NoTimeline, ChartInv, SignalTypeFilters
<1>3. CASE SelectType
  BY <1>3 DEF SelectType, ChartInv, Whole
<1>4. CASE RunEffect
  <2>1. charts' = {Chart(timeline.option, width)}
    BY <1>4, NothingIsLeft DEF RunEffect, Afterwards
  <2>2. timeline' = [timeline EXCEPT !.due = FALSE] /\ timeline.mounted
    BY <1>4 DEF RunEffect, ChartInv
  <2> QED BY <2>1, <2>2, ChartIsWhole DEF ChartInv
<1>5. CASE UnmountTimeline
  BY <1>5, NothingIsLeft DEF UnmountTimeline, NoTimeline, ChartInv, SignalTypeFilters
<1>6. CASE ObserverCalls
  <2> PICK option, size : charts = {Chart(option, size)}
    BY <1>6 DEF ObserverCalls, ChartInv, Whole
  <2>0. ~timeline.due => option = timeline.option
    BY ChartIsWhole DEF ChartInv
  <2>1. timeline.mounted /\ UNCHANGED timeline
    BY <1>6 DEF ObserverCalls, ChartInv
  <2>2. /\ Chart(option, size).observed
        /\ [Chart(option, size) EXCEPT !.size = width] = Chart(option, width)
    <3> DEFINE resized == [Chart(option, size) EXCEPT !.size = width]
    <3>1. Chart(option, size).observed
      BY DEF Chart
    <3>2. /\ DOMAIN Chart(option, size) = {"option", "size", "live", "observed"}
          /\ DOMAIN Chart(option, width) = {"option", "size", "live", "observed"}
      BY DEF Chart
    <3>3. resized = [field \in {"option", "size", "live", "observed"} |->
                      IF field = "size" THEN width ELSE Chart(option, size)[field]]
      BY <3>2
    <3>4. Chart(option, width) = [field \in {"option", "size", "live", "observed"} |->
                                   Chart(option, width)[field]]
      BY DEF Chart
    <3>5. \A field \in {"option", "size", "live", "observed"} :
            Chart(option, width)[field]
              = IF field = "size" THEN width ELSE Chart(option, size)[field]
      <4>1. /\ Chart(option, width).option = Chart(option, size).option
            /\ Chart(option, width).size = width
        BY DEF Chart
      <4>2. /\ Chart(option, width).live = TRUE /\ Chart(option, size).live = TRUE
            /\ Chart(option, width).observed = TRUE
            /\ Chart(option, size).observed = TRUE
        BY DEF Chart
      <4> QED BY <4>1, <4>2
    <3> QED BY <3>1, <3>3, <3>4, <3>5
  <2>3. charts' = {Chart(option, width)}
    BY <1>6, <2>2 DEF ObserverCalls
  <2> QED BY <2>0, <2>1, <2>3, ChartIsWhole DEF ChartInv
<1>7. CASE InForm \/ InTable \/ InUpload \/ UNCHANGED vars
  BY <1>1, <1>7 DEF InForm, InTable, InUpload, vars, timelineVars
<1>8. CASE ResizeElement
  BY <1>1, <1>8 DEF ResizeElement
<1> QED
  BY <1>2, <1>3, <1>4, <1>5, <1>6, <1>7, <1>8 DEF Next, InTimeline, TimelineNext

\* There is never a second chart on the element, and nothing of a chart is left
\* behind when the timeline goes (the effect of EChartsWrapper and what it
\* returns), for any widths.
THEOREM OneChartOnly == Spec => []OneChartAtMost
<1>1. ChartInv => OneChartAtMost
  <2>1. CASE charts = {}
    BY <2>1, FS_EmptySet DEF ChartInv, OneChartAtMost
  <2>2. ASSUME NEW c, charts = {c}, Whole(c), timeline.mounted
        PROVE  OneChartAtMost
    <3>1. c.live /\ c.observed
      BY <2>2 DEF Whole, Chart
    <3>2. Cardinality(charts) = 1
      BY <2>2, FS_Singleton
    <3> QED BY <2>2, <3>1, <3>2 DEF OneChartAtMost
  <2> QED BY <2>1, <2>2 DEF ChartInv
<1> QED BY ChartInit, ChartInductive, <1>1, PTL DEF Spec

\* Each signal of the timeline is in the series of its type.
LEMMA SeriesHaveAll ==
    ASSUME NEW filter
    PROVE  UNION {Series(filter)[t] : t \in SignalTypeFilters \ {"All"}}
             = EventsOf(filter)
<1>1. \A e \in ToSet(MockEvents) : e.type \in SignalTypeFilters \ {"All"}
  <2>1. DOMAIN MockEvents = 1 .. 8
    BY DEF MockEvents
  <2>2. \A i \in 1 .. 8 : MockEvents[i].type \in SignalTypeFilters \ {"All"}
    <3>1. \A i \in 1 .. 8 : i \in {1, 2, 3, 4, 5, 6, 7, 8}
      OBVIOUS
    <3>2. /\ MockEvents[1].type = "SOC 2" /\ MockEvents[2].type = "Security Hiring"
          /\ MockEvents[3].type = "Trust Center" /\ MockEvents[4].type = "ISO 27001"
          /\ MockEvents[5].type = "SOC 2" /\ MockEvents[6].type = "Trust Center"
          /\ MockEvents[7].type = "Security Hiring" /\ MockEvents[8].type = "SOC 2"
      BY DEF MockEvents, SignalEvent
    <3> QED BY <3>1, <3>2 DEF SignalTypeFilters
  <2> QED BY <2>1, <2>2 DEF ToSet
<1>2. \A t \in SignalTypeFilters \ {"All"} :
         Series(filter)[t] = {e \in EventsOf(filter) : e.type = t}
  BY DEF Series
<1>3. EventsOf(filter) \subseteq ToSet(MockEvents)
  BY DEF EventsOf
<1> QED BY <1>1, <1>2, <1>3

\* Whenever no effect is due the chart shows the signals the table lists
\* (chartOption's memo and the wrapper's effect), for any widths.
THEOREM ChartShowsTable == Spec => []ChartAsTable
<1>1. ChartInv => ChartAsTable
  BY SeriesHaveAll DEF ChartInv, ChartAsTable
<1> QED BY ChartInit, ChartInductive, <1>1, PTL DEF Spec

\* ----------------------------------------------------------- the table
\* To the table, a step of the library is one of the table or none.
LEMMA TableSteps ==
    ASSUME [Next]_vars
    PROVE  UNCHANGED tableVars \/ TableNext
  BY DEF Next, InForm, InTable, InUpload, InTimeline, vars

TableFields == {"sort", "search", "page"}

\* The page, with what the table consists of.
TableInv ==
    /\ data \in Versions
    /\ DOMAIN table = TableFields /\ table.page \in Nat
    /\ PageExists

\* There are so many pages.
LEMMA PagesCounted == ASSUME data \in Versions PROVE PageCount \in Int
<1>1. Found \in SUBSET (1 .. Len(data)) /\ Len(data) \in Nat
  BY TableAssumption DEF Found
<1>2. IsFiniteSet(Found)
  <2>1. IsFiniteSet(1 .. Len(data))
    BY <1>1, FS_Interval
  <2> QED BY <1>1, <2>1, FS_Subset
<1>3. PICK n \in Nat : n = Cardinality(Found)
  BY <1>2, FS_CardinalityType
<1> QED BY <1>3, TableAssumption DEF PageCount

LEMMA TableInit == Init => TableInv
  BY DEF Init, TableMounted, TableFields, TableInv, PageExists

LEMMA TableInductive == TableInv /\ [Next]_vars => TableInv'
<1> SUFFICES ASSUME TableInv, [Next]_vars PROVE TableInv'
  OBVIOUS
<1> USE DEF TableInv
\* A step that searches, sorts or replaces the data goes to the first page.
<1>1. ASSUME data' \in Versions, DOMAIN table' = TableFields, table'.page = 0
      PROVE  TableInv'
  BY <1>1 DEF PageExists
\* A step that turns the page knows how many there are.
<1>2. ASSUME UNCHANGED data, DOMAIN table' = TableFields,
             table'.search = table.search,
             table'.page \in Nat, table'.page = 0 \/ table'.page < PageCount
      PROVE  TableInv'
  <2>1. PageCount' = PageCount
    BY <1>2 DEF PageCount, Found
  <2> QED BY <1>2, <2>1 DEF PageExists
<1>3. CASE UNCHANGED tableVars
  BY <1>3 DEF tableVars, PageExists, PageCount, Found
<1>4. CASE TypeTableSearch
  BY <1>1, <1>4 DEF TypeTableSearch, TableFields
<1>5. CASE ToggleSort
  BY <1>1, <1>5 DEF ToggleSort, TableFields
<1>6. CASE NextPage
  BY <1>2, <1>6 DEF NextPage, TableFields
<1>7. CASE PreviousPage
  <2>1. table.page < PageCount /\ PageCount \in Int
    BY <1>7, PagesCounted DEF PreviousPage, PageExists
  <2>2. table'.page = table.page - 1 /\ table.page - 1 \in Nat
    BY <1>7 DEF PreviousPage, TableFields
  <2> QED BY <1>2, <1>7, <2>1, <2>2 DEF PreviousPage, TableFields
<1>8. CASE DataReplaced
  BY <1>1, <1>8 DEF DataReplaced, TableFields
<1> QED
  BY <1>3, <1>4, <1>5, <1>6, <1>7, <1>8, TableSteps DEF TableNext

\* The table never stands on a page that is gone, whatever is searched, sorted,
\* paged and refetched, for any data and size of the pages.
THEOREM PagesExist == Spec => []PageExists
<1>1. TableInv => PageExists
  BY DEF TableInv
<1> QED BY TableInit, TableInductive, <1>1, PTL DEF Spec
=============================================================================
