------------------------- MODULE StoreCrawl_proofs -------------------------
(***************************************************************************)
(* Proofs about StoreCrawl, for any stores, technologies, pages and        *)
(* workers and any number of crawls and failures.                          *)
(***************************************************************************)
EXTENDS StoreCrawl, FiniteSetTheorems, TLAPS

Busy(w) == ~At(w, "idle")

LEMMA BusyCrawl ==
  ASSUME TypeOK, NEW w \in Worker, Busy(w)
  PROVE  crawl[w] \in Crawling
  BY DEF TypeOK, Busy, At, Idle

LEMMA StatusOfPage ==
  ASSUME NEW page \in Page
  PROVE  /\ statusFor(page) \in Status
         /\ statusFor(page) = "active" => page \in Response
  BY DEF Page, statusFor, Status

LEMMA TableAppendType ==
  ASSUME NEW R, NEW table \in [Store -> Seq(R)], NEW s \in Store, NEW row \in R
  PROVE  [table EXCEPT ![s] = Append(@, row)] \in [Store -> Seq(R)]
  OBVIOUS

LEMMA DiffType ==
  ASSUME NEW s \in Store, NEW detected \in SUBSET Tech
  PROVE  Diff(s, detected) \in [Tech -> EventType \cup {"none"}]
  BY DEF Diff, EventType

LEMMA AppendedType ==
  ASSUME TypeOK, NEW s \in Store, NEW events \in [Tech -> EventType \cup {"none"}]
  PROVE  Appended(s, events) \in [Tech -> Seq(EventType)]
<1>1. \A n \in Tech : log[s][n] \in Seq(EventType)
  BY DEF TypeOK
<1>2. \A n \in Tech : events[n] # "none" => events[n] \in EventType
  OBVIOUS
<1>3. \A n \in Tech : events[n] # "none" => Append(log[s][n], events[n]) \in Seq(EventType)
  BY <1>1, <1>2
<1>4. QED
  BY <1>1, <1>3 DEF Appended

LEMMA NewRowsType ==
  ASSUME TypeOK, NEW s \in Store, NEW events
  PROVE  NewRows(s, events) \in SUBSET Row
<1>1. \A n \in Tech : Len(log[s][n]) \in Nat
  BY DEF TypeOK
<1>2. QED
  BY <1>1 DEF NewRows, Row

LEMMA NextTypeOK == TypeOK /\ [Next]_vars => TypeOK'
<1> SUFFICES ASSUME TypeOK, [Next]_vars PROVE TypeOK'
  OBVIOUS
<1> USE DEF TypeOK
<1>1. ASSUME NEW w \in Worker, NEW s \in Store, NEW page \in Page,
             Attempt(w, s, page)
      PROVE  TypeOK'
  <2>1. crawls' \in [Store -> Seq(Status)]
    BY <1>1, StatusOfPage DEF Attempt
  <2>2. CASE statusFor(page) = "active"
    <3>1. page \in Response /\ page.detected \in SUBSET Tech
      BY <2>2, StatusOfPage, StoreCrawlAssumption
    <3>2. [pc |-> "metadata", store |-> s, page |-> page, events |-> NoEvents, pending |-> {}]
            \in Crawling
      BY <3>1 DEF Crawling, NoEvents
    <3>3. crawl' \in [Worker -> {Idle} \cup Crawling]
      BY <1>1, <2>2, <3>2 DEF Attempt
    <3>4. live' \in [Store -> Seq(SUBSET Tech)]
      <4>1. [live EXCEPT ![s] = Append(@, page.detected)] \in [Store -> Seq(SUBSET Tech)]
        BY <3>1, TableAppendType, Zenon
      <4>2. QED
        BY <1>1, <2>2, <4>1 DEF Attempt
    <3>5. QED
      BY <1>1, <2>1, <3>3, <3>4 DEF Attempt
  <2>3. CASE statusFor(page) # "active"
    BY <1>1, <2>1, <2>3 DEF Attempt
  <2>4. QED
    BY <2>2, <2>3
<1>2. ASSUME NEW w \in Worker, ReadMetadata(w) PROVE TypeOK'
  <2>1. crawl[w] \in Crawling
    BY <1>2, BusyCrawl DEF ReadMetadata, At, Busy
  <2>2. PICK pc \in {"metadata insert", "technologies"} : crawl' = [crawl EXCEPT ![w].pc = pc]
    BY <1>2 DEF ReadMetadata
  <2>3. crawl' \in [Worker -> {Idle} \cup Crawling]
    BY <2>1, <2>2 DEF Crawling
  <2>4. QED
    BY <1>2, <2>3 DEF ReadMetadata
<1>3. ASSUME NEW w \in Worker, InsertMetadata(w) PROVE TypeOK'
  <2>1. crawl[w] \in Crawling
    BY <1>3, BusyCrawl DEF InsertMetadata, At, Busy
  <2>2. crawl' \in [Worker -> {Idle} \cup Crawling]
    BY <1>3, <2>1 DEF InsertMetadata, Crawling
  <2>3. crawl[w].store \in Store /\ crawl[w].page \in Response
    BY <2>1 DEF Crawling
  <2>4. MetadataOf(crawl[w].page) \in Metadata
    BY <2>3 DEF MetadataOf, Metadata
  <2>5. metadata' \in [Store -> Seq(Metadata)]
    BY <1>3, <2>3, <2>4, TableAppendType DEF InsertMetadata
  <2>6. QED
    BY <1>3, <2>2, <2>5 DEF InsertMetadata
<1>4. ASSUME NEW w \in Worker, ReadTechnologies(w) PROVE TypeOK'
  <2>1. crawl[w] \in Crawling
    BY <1>4, BusyCrawl DEF ReadTechnologies, At, Busy
  <2>2. Diff(crawl[w].store, crawl[w].page.detected) \in [Tech -> EventType \cup {"none"}]
    BY <2>1, DiffType, StoreCrawlAssumption DEF Crawling
  <2>3. crawl' \in [Worker -> {Idle} \cup Crawling]
    BY <1>4, <2>1, <2>2 DEF ReadTechnologies, Crawling
  <2>4. QED
    BY <1>4, <2>3 DEF ReadTechnologies
<1>5. ASSUME NEW w \in Worker, InsertTechnologies(w) PROVE TypeOK'
  <2>1. crawl[w] \in Crawling
    BY <1>5, BusyCrawl DEF InsertTechnologies, At, Busy
  <2>2. Appended(crawl[w].store, crawl[w].events) \in [Tech -> Seq(EventType)]
    BY <2>1, AppendedType DEF Crawling
  <2>3. NewRows(crawl[w].store, crawl[w].events) \in SUBSET Row
    BY <2>1, NewRowsType DEF Crawling
  <2>4. crawl' \in [Worker -> {Idle} \cup Crawling]
    BY <1>5, <2>1, <2>3 DEF InsertTechnologies, Crawling
  <2>5. log' \in [Store -> [Tech -> Seq(EventType)]]
    BY <1>5, <2>1, <2>2 DEF InsertTechnologies, Crawling
  <2>6. QED
    BY <1>5, <2>4, <2>5 DEF InsertTechnologies
<1>6. ASSUME NEW w \in Worker, PublishEvent(w) PROVE TypeOK'
  <2>1. crawl[w] \in Crawling
    BY <1>6, BusyCrawl DEF PublishEvent, At, Busy
  <2>2. PICK row \in crawl[w].pending :
          /\ sent' = sent \cup {row}
          /\ crawl' = [crawl EXCEPT ![w].pending = @ \ {row}]
    BY <1>6 DEF PublishEvent
  <2>3. crawl' \in [Worker -> {Idle} \cup Crawling]
    BY <2>1, <2>2 DEF Crawling
  <2>4. sent' \in SUBSET Row
    BY <2>1, <2>2 DEF Crawling
  <2>5. QED
    BY <1>6, <2>3, <2>4 DEF PublishEvent
<1>7. ASSUME NEW w \in Worker, Finish(w) PROVE TypeOK'
  BY <1>7 DEF Finish
<1>8. ASSUME NEW w \in Worker, Abort(w) PROVE TypeOK'
  <2>1. crawl[w] \in Crawling
    BY <1>8, BusyCrawl DEF Abort, Busy
  <2>2. sent' \in SUBSET Row
    BY <1>8, <2>1 DEF Abort, Crawling
  <2>3. QED
    BY <1>8, <2>2 DEF Abort
<1>9. CASE UNCHANGED vars
  BY <1>9 DEF vars
<1>10. QED
  BY <1>1, <1>2, <1>3, <1>4, <1>5, <1>6, <1>7, <1>8, <1>9 DEF Next, Step

LEMMA InitTypeOK == Init => TypeOK
  BY DEF Init, TypeOK, Idle

(* The state is always of its type, whatever is crawled concurrently. *)
THEOREM TypeCorrect == Spec => []TypeOK
  BY InitTypeOK, NextTypeOK, PTL DEF Spec

-----------------------------------------------------------------------------
(* Publishing follows recording, for any interleaving of crawls and failures. *)

LEMMA RowsSurvive ==
  ASSUME TypeOK, [Next]_vars, NEW row \in Row, RowExists(row)
  PROVE  RowExists(row)'
<1>1. row[1] \in Store /\ row[2] \in Tech
  BY DEF Row
<1>2. CASE UNCHANGED log
  BY <1>2 DEF RowExists
<1>3. ASSUME NEW w \in Worker, InsertTechnologies(w) PROVE RowExists(row)'
  <2>1. crawl[w] \in Crawling
    BY <1>3, BusyCrawl DEF InsertTechnologies, At, Busy
  <2> DEFINE rows == log[row[1]][row[2]]
             event == crawl[w].events[row[2]]
  <2>2. rows \in Seq(EventType) /\ row[3] \in DOMAIN rows
    BY <1>1 DEF TypeOK, RowExists
  <2>3. log'[row[1]][row[2]] = rows \/ log'[row[1]][row[2]] = Append(rows, event)
    BY <1>1, <1>3, <2>1 DEF InsertTechnologies, Appended, TypeOK, Crawling
  <2>4. row[3] \in DOMAIN Append(rows, event)
    BY <2>2
  <2>5. QED
    BY <2>2, <2>3, <2>4 DEF RowExists
<1>4. UNCHANGED log \/ \E w \in Worker : InsertTechnologies(w)
  BY DEF Next, Step, vars, Attempt, ReadMetadata, InsertMetadata, ReadTechnologies,
         PublishEvent, Finish, Abort
<1>5. QED
  BY <1>2, <1>3, <1>4

LEMMA NewRowsExist ==
  ASSUME TypeOK, NEW w \in Worker, InsertTechnologies(w)
  PROVE  \A row \in crawl'[w].pending : RowExists(row)'
<1>1. crawl[w] \in Crawling
  BY BusyCrawl DEF InsertTechnologies, At, Busy
<1> DEFINE s == crawl[w].store
           events == crawl[w].events
<1>2. crawl'[w].pending = NewRows(s, events)
  BY <1>1 DEF InsertTechnologies, TypeOK, Crawling
<1>3. ASSUME NEW n \in Tech, events[n] # "none"
      PROVE  Len(log[s][n]) + 1 \in DOMAIN log'[s][n]
  <2>1. s \in Store /\ log[s][n] \in Seq(EventType)
    BY <1>1 DEF TypeOK, Crawling
  <2>2. log'[s][n] = Append(log[s][n], events[n])
    BY <1>1, <1>3, <2>1 DEF InsertTechnologies, Appended, TypeOK
  <2>3. QED
    BY <2>1, <2>2
<1>4. QED
  BY <1>2, <1>3 DEF NewRows, RowExists

LEMMA NextOnlyRecorded ==
  TypeOK /\ OnlyRecordedEventsArePublished /\ [Next]_vars => OnlyRecordedEventsArePublished'
<1> SUFFICES ASSUME TypeOK, OnlyRecordedEventsArePublished, [Next]_vars,
                    NEW row \in (sent \cup Unsent)'
             PROVE  RowExists(row)'
  BY DEF OnlyRecordedEventsArePublished
<1>1. sent \cup Unsent \subseteq Row
  <2>1. ASSUME NEW w \in Worker, ~At(w, "idle") PROVE crawl[w].pending \subseteq Row
    BY <2>1, BusyCrawl DEF Busy, Crawling
  <2>2. QED
    BY <2>1 DEF TypeOK, Unsent
<1>2. ASSUME row \in sent \cup Unsent PROVE RowExists(row)'
  BY <1>1, <1>2, RowsSurvive DEF OnlyRecordedEventsArePublished
<1>3. \/ row \in sent \cup Unsent
      \/ \E w \in Worker : InsertTechnologies(w) /\ row \in crawl'[w].pending
  <2> USE DEF Unsent, At
  <2>1. CASE UNCHANGED vars
    BY <2>1 DEF vars
  <2>2. ASSUME NEW w \in Worker, NEW s \in Store, NEW page \in Page,
               Attempt(w, s, page)
        PROVE  row \in sent \cup Unsent
    <3>1. sent' = sent /\ \A v \in Worker \ {w} : crawl'[v] = crawl[v]
      BY <2>2 DEF Attempt, TypeOK
    <3>2. crawl'[w].pc = "idle" \/ crawl'[w].pending = {}
      BY <2>2 DEF Attempt, TypeOK
    <3>3. QED
      BY <3>1, <3>2
  <2>3. ASSUME NEW w \in Worker, ReadMetadata(w) \/ InsertMetadata(w) \/ ReadTechnologies(w)
        PROVE  row \in sent \cup Unsent
    <3>1. crawl[w] \in Crawling
      BY <2>3, BusyCrawl DEF ReadMetadata, InsertMetadata, ReadTechnologies, Busy
    <3>2. /\ sent' = sent
          /\ \A v \in Worker \ {w} : crawl'[v] = crawl[v]
          /\ crawl'[w].pending = crawl[w].pending
      <4>1. CASE ReadMetadata(w)
        BY <4>1, <3>1 DEF ReadMetadata, TypeOK, Crawling
      <4>2. CASE InsertMetadata(w)
        BY <4>2, <3>1 DEF InsertMetadata, TypeOK, Crawling
      <4>3. CASE ReadTechnologies(w)
        BY <4>3, <3>1 DEF ReadTechnologies, TypeOK, Crawling
      <4>4. QED
        BY <2>3, <4>1, <4>2, <4>3
    <3>3. crawl[w].pc # "idle"
      BY <3>1 DEF Crawling
    <3>4. QED
      BY <3>2, <3>3
  <2>4. ASSUME NEW w \in Worker, InsertTechnologies(w), row \notin crawl'[w].pending
        PROVE  row \in sent \cup Unsent
    <3>1. sent' = sent /\ \A v \in Worker \ {w} : crawl'[v] = crawl[v]
      BY <2>4 DEF InsertTechnologies, TypeOK
    <3>2. QED
      BY <2>4, <3>1
  <2>5. ASSUME NEW w \in Worker, PublishEvent(w) \/ Finish(w) \/ Abort(w)
        PROVE  row \in sent \cup Unsent
    <3>1. crawl[w] \in Crawling
      BY <2>5, BusyCrawl DEF PublishEvent, Finish, Abort, Busy
    <3>2. /\ sent' \subseteq sent \cup crawl[w].pending
          /\ \A v \in Worker \ {w} : crawl'[v] = crawl[v]
          /\ crawl'[w].pc = "idle" \/ crawl'[w].pending \subseteq crawl[w].pending
      <4>1. CASE PublishEvent(w)
        <5>1. PICK r \in crawl[w].pending :
                /\ sent' = sent \cup {r}
                /\ crawl' = [crawl EXCEPT ![w].pending = @ \ {r}]
          BY <4>1 DEF PublishEvent
        <5>2. crawl'[w].pending = crawl[w].pending \ {r}
          BY <3>1, <5>1 DEF TypeOK, Crawling
        <5>3. QED
          BY <5>1, <5>2
      <4>2. CASE Finish(w)
        BY <4>2 DEF Finish, TypeOK, Idle
      <4>3. CASE Abort(w)
        BY <4>3 DEF Abort, TypeOK, Idle
      <4>4. QED
        BY <2>5, <4>1, <4>2, <4>3
    <3>3. crawl[w].pc # "idle"
      BY <3>1 DEF Crawling
    <3>4. QED
      BY <3>2, <3>3
  <2>6. ASSUME NEW w \in Worker, Step(w)
        PROVE  \/ row \in sent \cup Unsent
               \/ InsertTechnologies(w) /\ row \in crawl'[w].pending
    BY <2>2, <2>3, <2>4, <2>5, <2>6 DEF Step
  <2>7. QED
    BY <2>1, <2>6 DEF Next
<1>4. QED
  BY <1>2, <1>3, NewRowsExist

(* No event is published, or about to be, that is not a row of the log. *)
THEOREM PublishingFollowsRecording == Spec => []OnlyRecordedEventsArePublished
<1>1. Init => OnlyRecordedEventsArePublished
  BY DEF Init, OnlyRecordedEventsArePublished, Unsent, At, Idle
<1>2. QED
  BY <1>1, NextOnlyRecorded, TypeCorrect, PTL DEF Spec

-----------------------------------------------------------------------------
(* Reconciliation is right as long as no store is crawled twice at once.   *)
(* Progress says what each crawl relies on between its reads and its       *)
(* inserts; only another crawl of the same store could break it.           *)

Progress(w) ==
  LET s == crawl[w].store
      page == crawl[w].page
      rows == metadata[s]
      pc == crawl[w].pc
  IN  /\ pc = "metadata insert" => rows = <<>> \/ rows[Len(rows)] # MetadataOf(page)
      /\ pc \in {"technologies", "technologies insert", "publishing"} =>
           rows # <<>> /\ rows[Len(rows)] = MetadataOf(page)
      /\ pc = "technologies insert" => crawl[w].events = Diff(s, page.detected)
      /\ pc = "publishing" => Active(s) = page.detected

SerialInv ==
  /\ TypeOK
  /\ Serial
  /\ EventsAlternate
  /\ MetadataGrowsOnChange
  /\ \A w \in Worker : Progress(w)

(* Appending the difference to a page's names keeps the alternation and     *)
(* leaves exactly the page's names active.                                  *)
LEMMA DiffReconciles ==
  ASSUME TypeOK, EventsAlternate, NEW s \in Store, NEW detected \in SUBSET Tech, NEW n \in Tech
  PROVE  LET rows == Appended(s, Diff(s, detected))[n]
         IN  Alternates(rows) /\ (Latest(rows) = "added" <=> n \in detected)
<1> DEFINE old == log[s][n]
           event == Diff(s, detected)[n]
           new == Appended(s, Diff(s, detected))[n]
<1>1. old \in Seq(EventType) /\ Alternates(old)
  BY DEF TypeOK, EventsAlternate
<1>2. event = IF n \in detected /\ Latest(old) # "added" THEN "added"
              ELSE IF n \notin detected /\ Latest(old) = "added" THEN "removed" ELSE "none"
  BY DEF Diff
<1>3. new = IF event = "none" THEN old ELSE Append(old, event)
  BY DEF Appended
<1>4. CASE event = "none"
  BY <1>1, <1>2, <1>3, <1>4
<1>5. CASE event # "none"
  <2>1. event \in EventType /\ new = Append(old, event) /\ new # <<>>
    BY <1>1, <1>2, <1>3, <1>5 DEF EventType
  <2>2. Latest(new) = event
    BY <1>1, <2>1 DEF Latest
  <2>3. old = <<>> => event = "added"
    BY <1>2, <1>5 DEF Latest
  <2>4. old # <<>> => old[Len(old)] # event
    BY <1>1, <1>2, <1>5 DEF Latest
  <2>5. Alternates(new)
    BY <1>1, <2>1, <2>3, <2>4 DEF Alternates
  <2>6. QED
    BY <1>2, <1>5, <2>2, <2>5
<1>6. QED
  BY <1>4, <1>5

LEMMA ProgressFrame ==
  ASSUME NEW v \in Worker, Progress(v), crawl'[v] = crawl[v],
         \/ At(v, "idle")
         \/ /\ metadata'[crawl[v].store] = metadata[crawl[v].store]
            /\ log'[crawl[v].store] = log[crawl[v].store]
  PROVE  Progress(v)'
<1>1. CASE At(v, "idle")
  BY <1>1 DEF Progress, At
<1>2. CASE /\ metadata'[crawl[v].store] = metadata[crawl[v].store]
           /\ log'[crawl[v].store] = log[crawl[v].store]
  <2> DEFINE s == crawl[v].store
             pc == crawl[v].pc
             page == crawl[v].page
             kept(n) == Latest(log[s][n])
  <2>1. \A n : Latest(log'[s][n]) = kept(n)
    BY <1>2 DEF Latest
  <2>2. pc = "technologies insert" => (crawl[v].events = Diff(s, page.detected))'
    <3>1. pc = "technologies insert" => crawl[v].events = Diff(s, page.detected)
      BY DEF Progress
    <3>2. (Diff(s, page.detected))' = Diff(s, page.detected)
      BY <2>1 DEF Diff
    <3>3. QED
      BY <3>1, <3>2
  <2>3. pc = "publishing" => (Active(s) = page.detected)'
    <3>1. pc = "publishing" => Active(s) = page.detected
      BY DEF Progress
    <3>2. Active(s)' = Active(s)
      BY <2>1 DEF Active
    <3>3. QED
      BY <3>1, <3>2
  <2>4. QED
    BY <1>2, <2>2, <2>3 DEF Progress, MetadataOf
<1>3. QED
  BY <1>1, <1>2

LEMMA OthersKeepProgress ==
  ASSUME SerialInv, NEW w \in Worker, Busy(w),
         \A v \in Worker \ {w} : crawl'[v] = crawl[v],
         \A s \in Store \ {crawl[w].store} : metadata'[s] = metadata[s] /\ log'[s] = log[s]
  PROVE  \A v \in Worker \ {w} : Progress(v)'
<1> SUFFICES ASSUME NEW v \in Worker \ {w} PROVE Progress(v)'
  OBVIOUS
<1>1. CASE At(v, "idle")
  BY <1>1, ProgressFrame DEF SerialInv
<1>2. CASE Busy(v)
  <2>1. crawl[v].store \in Store
    BY <1>2, BusyCrawl DEF SerialInv, Crawling
  <2>2. crawl[v].store # crawl[w].store
    BY <1>2 DEF SerialInv, Serial, Busy
  <2>3. QED
    BY <2>1, <2>2, ProgressFrame DEF SerialInv
<1>3. QED
  BY <1>1, <1>2 DEF Busy

LEMMA InitSerialInv == Init => SerialInv
<1> SUFFICES ASSUME Init PROVE SerialInv
  OBVIOUS
<1>1. EventsAlternate
  BY DEF Init, EventsAlternate, Alternates
<1>2. MetadataGrowsOnChange
  BY DEF Init, MetadataGrowsOnChange
<1>3. Serial /\ \A w \in Worker : Progress(w)
  BY DEF Init, Serial, Progress, At, Idle
<1>4. QED
  BY <1>1, <1>2, <1>3, InitTypeOK DEF SerialInv

LEMMA NextSerialInv == SerialInv /\ [Next /\ Serial']_vars => SerialInv'
<1> SUFFICES ASSUME SerialInv, [Next /\ Serial']_vars PROVE SerialInv'
  OBVIOUS
<1> USE DEF SerialInv
<1>t. TypeOK'
  BY NextTypeOK
<1>s. Serial'
  BY DEF Serial, At, vars
<1>1. ASSUME NEW w \in Worker, NEW s \in Store, NEW page \in Page,
             Attempt(w, s, page)
      PROVE  SerialInv'
  <2>1. EventsAlternate' /\ MetadataGrowsOnChange'
    BY <1>1 DEF Attempt, EventsAlternate, MetadataGrowsOnChange
  <2>2. \A v \in Worker \ {w} : Progress(v)'
    BY <1>1, ProgressFrame DEF Attempt, TypeOK
  <2>3. Progress(w)'
    <3>1. crawl'[w].pc = "metadata" \/ crawl'[w].pc = "idle"
      BY <1>1 DEF Attempt, At, TypeOK
    <3>2. QED
      BY <3>1 DEF Progress
  <2>4. QED
    BY <1>t, <1>s, <2>1, <2>2, <2>3
<1>2. ASSUME NEW w \in Worker, ReadMetadata(w) PROVE SerialInv'
  <2>1. Busy(w) /\ crawl[w] \in Crawling
    BY <1>2, BusyCrawl DEF ReadMetadata, At, Busy
  <2>2. EventsAlternate' /\ MetadataGrowsOnChange'
    BY <1>2 DEF ReadMetadata, EventsAlternate, MetadataGrowsOnChange
  <2>3. \A v \in Worker \ {w} : Progress(v)'
    BY <1>2, <2>1, OthersKeepProgress DEF ReadMetadata, TypeOK
  <2>4. Progress(w)'
    BY <1>2, <2>1 DEF ReadMetadata, Progress, TypeOK, Crawling
  <2>5. QED
    BY <1>t, <1>s, <2>2, <2>3, <2>4
<1>3. ASSUME NEW w \in Worker, InsertMetadata(w) PROVE SerialInv'
  <2>1. Busy(w) /\ crawl[w] \in Crawling
    BY <1>3, BusyCrawl DEF InsertMetadata, At, Busy
  <2> DEFINE s == crawl[w].store
             row == MetadataOf(crawl[w].page)
  <2>2. s \in Store /\ metadata[s] \in Seq(Metadata)
    BY <2>1 DEF Crawling, TypeOK
  <2>3. metadata' = [metadata EXCEPT ![s] = Append(metadata[s], row)]
    BY <1>3 DEF InsertMetadata
  <2>4. crawl' = [crawl EXCEPT ![w].pc = "technologies"] /\ log' = log
    BY <1>3 DEF InsertMetadata
  <2>5. metadata[s] = <<>> \/ metadata[s][Len(metadata[s])] # row
    BY <1>3 DEF InsertMetadata, Progress, At
  <2>6. MetadataGrowsOnChange'
    <3>1. \A i \in 1..(Len(Append(metadata[s], row)) - 1) :
            Append(metadata[s], row)[i] # Append(metadata[s], row)[i + 1]
      BY <2>2, <2>5 DEF MetadataGrowsOnChange
    <3>2. QED
      BY <2>2, <2>3, <3>1 DEF MetadataGrowsOnChange, TypeOK
  <2>7. EventsAlternate'
    BY <2>4 DEF EventsAlternate
  <2>8. \A v \in Worker \ {w} : Progress(v)'
    BY <2>1, <2>3, <2>4, OthersKeepProgress DEF TypeOK
  <2>9. Progress(w)'
    <3>1. metadata'[s] # <<>> /\ metadata'[s][Len(metadata'[s])] = row
      <4>1. metadata'[s] = Append(metadata[s], row)
        BY <2>2, <2>3 DEF TypeOK
      <4>2. row \in Metadata
        <5>1. crawl[w].page \in Response
          BY <2>1 DEF Crawling
        <5>2. QED
          BY <5>1 DEF MetadataOf, Metadata
      <4>3. QED
        BY <2>2, <4>1, <4>2
    <3>2. crawl'[w].pc = "technologies" /\ crawl'[w].store = s /\ crawl'[w].page = crawl[w].page
      BY <2>1, <2>4 DEF TypeOK, Crawling
    <3>3. QED
      BY <3>1, <3>2 DEF Progress, MetadataOf
  <2>10. QED
    BY <1>t, <1>s, <2>6, <2>7, <2>8, <2>9
<1>4. ASSUME NEW w \in Worker, ReadTechnologies(w) PROVE SerialInv'
  <2>1. Busy(w) /\ crawl[w] \in Crawling
    BY <1>4, BusyCrawl DEF ReadTechnologies, At, Busy
  <2>2. EventsAlternate' /\ MetadataGrowsOnChange'
    BY <1>4 DEF ReadTechnologies, EventsAlternate, MetadataGrowsOnChange
  <2>3. \A v \in Worker \ {w} : Progress(v)'
    BY <1>4, <2>1, OthersKeepProgress DEF ReadTechnologies, TypeOK
  <2> DEFINE s == crawl[w].store
             detected == crawl[w].page.detected
             events == Diff(s, detected)
  <2>4. /\ crawl'[w].pc = IF events = NoEvents THEN "publishing" ELSE "technologies insert"
        /\ crawl'[w].events = events
        /\ crawl'[w].store = s /\ crawl'[w].page = crawl[w].page
        /\ metadata' = metadata /\ log' = log
    BY <1>4, <2>1 DEF ReadTechnologies, TypeOK, Crawling
  <2>5. events = NoEvents => Active(s) = detected
    <3>1. detected \subseteq Tech
      BY <2>1, StoreCrawlAssumption DEF Crawling
    <3>2. events = NoEvents => \A n \in Tech : n \in detected <=> Latest(log[s][n]) = "added"
      BY DEF Diff, NoEvents
    <3>3. QED
      BY <3>1, <3>2 DEF Active
  <2>6. Progress(w)'
    <3>1. metadata[s] # <<>> /\ metadata[s][Len(metadata[s])] = MetadataOf(crawl[w].page)
      BY <1>4 DEF ReadTechnologies, Progress, At
    <3>2. Diff(s, detected)' = events /\ Active(s)' = Active(s)
      BY <2>4 DEF Diff, Active, Latest
    <3>3. QED
      BY <2>4, <2>5, <3>1, <3>2 DEF Progress, MetadataOf, Diff, Active, Latest
  <2>7. QED
    BY <1>t, <1>s, <2>2, <2>3, <2>6
<1>5. ASSUME NEW w \in Worker, InsertTechnologies(w) PROVE SerialInv'
  <2>1. Busy(w) /\ crawl[w] \in Crawling
    BY <1>5, BusyCrawl DEF InsertTechnologies, At, Busy
  <2> DEFINE s == crawl[w].store
             detected == crawl[w].page.detected
  <2>2. s \in Store /\ detected \in SUBSET Tech
    BY <2>1, StoreCrawlAssumption DEF Crawling
  <2>3. log' = [log EXCEPT ![s] = Appended(s, Diff(s, detected))] /\ metadata' = metadata
    BY <1>5 DEF InsertTechnologies, Progress, At
  <2>4. /\ crawl'[w].pc = "publishing" /\ crawl'[w].store = s /\ crawl'[w].page = crawl[w].page
        /\ \A v \in Worker \ {w} : crawl'[v] = crawl[v]
    BY <1>5, <2>1 DEF InsertTechnologies, TypeOK, Crawling
  <2>5. \A n \in Tech : Alternates(log'[s][n]) /\ (Latest(log'[s][n]) = "added" <=> n \in detected)
    BY <2>2, <2>3, DiffReconciles DEF TypeOK
  <2>6. EventsAlternate'
    <3>1. ASSUME NEW t \in Store, NEW n \in Tech PROVE Alternates(log'[t][n])
      <4>1. CASE t = s
        BY <4>1, <2>5
      <4>2. CASE t # s
        BY <4>2, <2>3 DEF EventsAlternate, TypeOK
      <4>3. QED
        BY <4>1, <4>2
    <3>2. QED
      BY <3>1 DEF EventsAlternate, Alternates
  <2>7. MetadataGrowsOnChange'
    BY <2>3 DEF MetadataGrowsOnChange
  <2>8. \A v \in Worker \ {w} : Progress(v)'
    BY <2>1, <2>3, <2>4, OthersKeepProgress DEF TypeOK
  <2>9. Progress(w)'
    <3>1. {n \in Tech : Latest(log'[s][n]) = "added"} = detected
      BY <2>2, <2>5
    <3>2. metadata[s] # <<>> /\ metadata[s][Len(metadata[s])] = MetadataOf(crawl[w].page)
      BY <1>5 DEF InsertTechnologies, Progress, At
    <3>3. Active(s)' = detected
      BY <2>4, <3>1 DEF Active, Latest
    <3>4. QED
      BY <2>3, <2>4, <3>2, <3>3 DEF Progress, MetadataOf
  <2>10. QED
    BY <1>t, <1>s, <2>6, <2>7, <2>8, <2>9
<1>6. ASSUME NEW w \in Worker, PublishEvent(w) PROVE SerialInv'
  <2>1. Busy(w) /\ crawl[w] \in Crawling
    BY <1>6, BusyCrawl DEF PublishEvent, At, Busy
  <2>2. PICK row \in crawl[w].pending : crawl' = [crawl EXCEPT ![w].pending = @ \ {row}]
    BY <1>6 DEF PublishEvent
  <2>3. EventsAlternate' /\ MetadataGrowsOnChange'
    BY <1>6 DEF PublishEvent, EventsAlternate, MetadataGrowsOnChange
  <2>4. \A v \in Worker \ {w} : Progress(v)'
    BY <1>6, <2>1, <2>2, OthersKeepProgress DEF PublishEvent, TypeOK
  <2>5. /\ crawl'[w].pc = "publishing" /\ crawl'[w].store = crawl[w].store
        /\ crawl'[w].page = crawl[w].page /\ metadata' = metadata /\ log' = log
    BY <1>6, <2>1, <2>2 DEF PublishEvent, At, TypeOK, Crawling
  <2>6. Progress(w)'
    <3>1. /\ metadata[crawl[w].store] # <<>>
          /\ metadata[crawl[w].store][Len(metadata[crawl[w].store])] = MetadataOf(crawl[w].page)
          /\ Active(crawl[w].store) = crawl[w].page.detected
      BY <1>6 DEF PublishEvent, At, Progress
    <3>2. Active(crawl[w].store)' = Active(crawl[w].store)
      BY <2>5 DEF Active, Latest
    <3>3. QED
      BY <2>5, <3>1, <3>2 DEF Progress, MetadataOf
  <2>7. QED
    BY <1>t, <1>s, <2>3, <2>4, <2>6
<1>7. ASSUME NEW w \in Worker, Finish(w) \/ Abort(w) PROVE SerialInv'
  <2>1. crawl' = [crawl EXCEPT ![w] = Idle] /\ metadata' = metadata /\ log' = log
    BY <1>7 DEF Finish, Abort
  <2>2. EventsAlternate' /\ MetadataGrowsOnChange'
    BY <2>1 DEF EventsAlternate, MetadataGrowsOnChange
  <2>3. \A v \in Worker \ {w} : Progress(v)'
    BY <2>1, ProgressFrame DEF TypeOK
  <2>4. Progress(w)'
    BY <2>1 DEF Progress, Idle, TypeOK
  <2>5. QED
    BY <1>t, <1>s, <2>2, <2>3, <2>4
<1>8. CASE UNCHANGED vars
  <2>1. EventsAlternate' /\ MetadataGrowsOnChange'
    BY <1>8 DEF vars, EventsAlternate, MetadataGrowsOnChange
  <2>2. \A v \in Worker : Progress(v)'
    BY <1>8, ProgressFrame DEF vars
  <2>3. QED
    BY <1>t, <1>s, <2>1, <2>2
<1>9. QED
  BY <1>1, <1>2, <1>3, <1>4, <1>5, <1>6, <1>7, <1>8 DEF Next, Step

LEMMA SerialInvariance == SerialSpec => []SerialInv
  BY InitSerialInv, NextSerialInv, PTL DEF SerialSpec

(* A technology's events alternate, beginning with "added".               *)
THEOREM SerialCrawlsAlternate == SerialSpec => []EventsAlternate
<1>1. SerialInv => EventsAlternate
  BY DEF SerialInv
<1>2. QED
  BY SerialInvariance, <1>1, PTL

(* The metadata log grows only when the homepage changed. *)
THEOREM SerialCrawlsAreDiffGated == SerialSpec => []MetadataGrowsOnChange
<1>1. SerialInv => MetadataGrowsOnChange
  BY DEF SerialInv
<1>2. QED
  BY SerialInvariance, <1>1, PTL

(* A reconciled store shows exactly what its page showed. *)
THEOREM SerialCrawlsReconcile == SerialSpec => []ViewIsLastPage
<1>1. SerialInv => ViewIsLastPage
  BY DEF SerialInv, Progress, ViewIsLastPage, At, Latest
<1>2. QED
  BY SerialInvariance, <1>1, PTL

-----------------------------------------------------------------------------
(* The serial crawls implement the history of a store: what a crawl has in  *)
(* hand is the newest page, so its insert is the change to that page.      *)

PagesAreNewest ==
  \A w \in Worker : Busy(w) =>
    LET pages == live[crawl[w].store]
    IN  pages # <<>> /\ pages[Len(pages)] = crawl[w].page.detected

HistoryInv == SerialInv /\ OnlyRecordedEventsArePublished /\ PagesAreNewest

LEMMA NewestPagesStay ==
  ASSUME TypeOK, PagesAreNewest, [Next /\ Serial']_vars
  PROVE  PagesAreNewest'
<1>1. ASSUME NEW w \in Worker, NEW s \in Store, NEW page \in Page, Attempt(w, s, page), Serial'
      PROVE  PagesAreNewest'
  <2>1. CASE statusFor(page) = "active"
    <3>1. page.detected \in SUBSET Tech
      BY <2>1, StatusOfPage, StoreCrawlAssumption
    <3>2. /\ live' = [live EXCEPT ![s] = Append(live[s], page.detected)]
          /\ crawl'[w].store = s /\ crawl'[w].page = page /\ crawl'[w].pc = "metadata"
          /\ \A v \in Worker \ {w} : crawl'[v] = crawl[v]
      BY <1>1, <2>1 DEF Attempt, TypeOK
    <3>3. live'[s] # <<>> /\ live'[s][Len(live'[s])] = page.detected
      <4>1. live[s] \in Seq(SUBSET Tech) /\ live'[s] = Append(live[s], page.detected)
        BY <3>2 DEF TypeOK
      <4>2. QED
        BY <3>1, <4>1
    <3>4. ASSUME NEW v \in Worker \ {w}, Busy(v)'
          PROVE  /\ live'[crawl'[v].store] # <<>>
                 /\ live'[crawl'[v].store][Len(live'[crawl'[v].store])] = crawl'[v].page.detected
      <4>1. Busy(v) /\ crawl'[v] = crawl[v] /\ crawl[v].store \in Store
        BY <3>2, <3>4, BusyCrawl DEF Busy, At, Crawling
      <4>2. crawl[v].store # s
        BY <1>1, <3>2, <3>4, <4>1 DEF Serial, Busy, At
      <4>3. live'[crawl[v].store] = live[crawl[v].store]
        BY <3>2, <4>1, <4>2 DEF TypeOK
      <4>4. QED
        BY <4>1, <4>3 DEF PagesAreNewest
    <3>5. QED
      BY <3>2, <3>3, <3>4 DEF PagesAreNewest
  <2>2. CASE statusFor(page) # "active"
    BY <1>1, <2>2 DEF Attempt, PagesAreNewest, Busy, At
  <2>3. QED
    BY <2>1, <2>2
<1>2. ASSUME NEW w \in Worker, Busy(w), live' = live,
             \A v \in Worker \ {w} : crawl'[v] = crawl[v],
             \/ crawl'[w].pc = "idle"
             \/ crawl'[w].store = crawl[w].store /\ crawl'[w].page = crawl[w].page
      PROVE  PagesAreNewest'
  BY <1>2 DEF PagesAreNewest, Busy, At
<1>3. ASSUME NEW w \in Worker,
             \/ ReadMetadata(w) \/ InsertMetadata(w) \/ ReadTechnologies(w) \/ InsertTechnologies(w)
             \/ PublishEvent(w)
      PROVE  PagesAreNewest'
  <2>1. Busy(w) /\ live' = live /\ \A v \in Worker \ {w} : crawl'[v] = crawl[v]
    BY <1>3 DEF ReadMetadata, InsertMetadata, ReadTechnologies, InsertTechnologies, PublishEvent, Busy, At, TypeOK
  <2>2. crawl[w] \in Crawling
    BY <2>1, BusyCrawl
  <2>3. crawl'[w].store = crawl[w].store /\ crawl'[w].page = crawl[w].page
    <3>1. CASE ReadMetadata(w)
      BY <2>2, <3>1 DEF ReadMetadata, TypeOK, Crawling
    <3>2. CASE InsertMetadata(w)
      BY <2>2, <3>2 DEF InsertMetadata, TypeOK, Crawling
    <3>3. CASE ReadTechnologies(w)
      BY <2>2, <3>3 DEF ReadTechnologies, TypeOK, Crawling
    <3>4. CASE InsertTechnologies(w)
      <4>1. PICK rows : crawl' = [crawl EXCEPT ![w].pc = "publishing", ![w].pending = rows]
        BY <3>4 DEF InsertTechnologies
      <4>2. QED
        BY <2>2, <4>1 DEF TypeOK, Crawling
    <3>5. CASE PublishEvent(w)
      <4>1. PICK row \in crawl[w].pending : crawl' = [crawl EXCEPT ![w].pending = @ \ {row}]
        BY <3>5 DEF PublishEvent
      <4>2. QED
        BY <2>2, <4>1 DEF TypeOK, Crawling
    <3>6. QED
      BY <1>3, <3>1, <3>2, <3>3, <3>4, <3>5
  <2>4. QED
    BY <1>2, <2>1, <2>3
<1>4. ASSUME NEW w \in Worker, Finish(w) \/ Abort(w)
      PROVE  PagesAreNewest'
  <2>1. Busy(w) /\ live' = live /\ crawl' = [crawl EXCEPT ![w] = Idle]
    BY <1>4 DEF Finish, Abort, Busy, At
  <2>2. crawl'[w].pc = "idle" /\ \A v \in Worker \ {w} : crawl'[v] = crawl[v]
    BY <2>1 DEF TypeOK, Idle
  <2>3. QED
    BY <1>2, <2>1, <2>2
<1>5. CASE UNCHANGED vars
  BY <1>5 DEF vars, PagesAreNewest, Busy, At
<1>6. QED
  BY <1>1, <1>3, <1>4, <1>5 DEF Next, Step

LEMMA InitHistoryInv == Init => HistoryInv
<1> SUFFICES ASSUME Init PROVE HistoryInv
  OBVIOUS
<1>1. OnlyRecordedEventsArePublished /\ PagesAreNewest
  BY DEF Init, OnlyRecordedEventsArePublished, PagesAreNewest, Unsent, Busy, At, Idle
<1>2. QED
  BY <1>1, InitSerialInv DEF HistoryInv

LEMMA NextHistoryInv == HistoryInv /\ [Next /\ Serial']_vars => HistoryInv'
<1> SUFFICES ASSUME HistoryInv, [Next /\ Serial']_vars PROVE HistoryInv'
  OBVIOUS
<1>1. [Next]_vars
  OBVIOUS
<1>2. SerialInv'
  BY NextSerialInv DEF HistoryInv
<1>3. OnlyRecordedEventsArePublished'
  BY <1>1, NextOnlyRecorded DEF HistoryInv, SerialInv
<1>4. PagesAreNewest'
  BY NewestPagesStay DEF HistoryInv, SerialInv
<1>5. QED
  BY <1>2, <1>3, <1>4 DEF HistoryInv

\* What a log says is in use stays as long as the log does.
LEMMA ActiveFrame ==
  ASSUME NEW s, log'[s] = log[s]
  PROVE  Active(s)' = Active(s)
  BY DEF Active, Latest

LEMMA InsertReconciles ==
  ASSUME HistoryInv, NEW w \in Worker, InsertTechnologies(w)
  PROVE  History!Reconcile(crawl[w].store)
<1> DEFINE inUse == [t \in Store |-> Active(t)]
<1> USE DEF HistoryInv, SerialInv
<1>1. PICK s, detected : s = crawl[w].store /\ detected = crawl[w].page.detected
  OBVIOUS
<1>2. Busy(w) /\ crawl[w] \in Crawling
  BY BusyCrawl DEF InsertTechnologies, At, Busy
<1>3. s \in Store /\ detected \in SUBSET Tech
  BY <1>1, <1>2, StoreCrawlAssumption DEF Crawling
<1>4. log' = [log EXCEPT ![s] = Appended(s, Diff(s, detected))] /\ UNCHANGED <<live, sent>>
  BY <1>1 DEF InsertTechnologies, Progress, At
<1>5. live[s] # <<>> /\ live[s][Len(live[s])] = detected
  BY <1>1, <1>2 DEF PagesAreNewest
<1>6. Active(s)' = detected
  <2>1. \A n \in Tech : Latest(log'[s][n]) = "added" <=> n \in detected
    BY <1>3, <1>4, DiffReconciles DEF TypeOK
  <2>2. Active(s)' = {n \in Tech : Latest(log'[s][n]) = "added"}
    BY DEF Active, Latest
  <2>3. QED
    BY <1>3, <2>1, <2>2
<1>7. inUse' = [inUse EXCEPT ![s] = detected]
  <2>1. ASSUME NEW t \in Store, t # s PROVE Active(t)' = Active(t)
    BY <1>4, <2>1, ActiveFrame DEF TypeOK
  <2>2. inUse' = [t \in Store |-> IF t = s THEN detected ELSE Active(t)]
    BY <1>6, <2>1
  <2>3. QED
    BY <2>2
<1>8. Appended(s, Diff(s, detected)) =
        [n \in Tech |-> IF n \in detected \ Active(s) THEN Append(log[s][n], "added")
                        ELSE IF n \in Active(s) \ detected THEN Append(log[s][n], "removed")
                        ELSE log[s][n]]
  BY DEF Appended, Diff, Active
<1>9. inUse[s] = Active(s) /\ inUse'[s] = detected
  BY <1>3, <1>6
<1>10. QED
  BY <1>1, <1>3, <1>4, <1>5, <1>7, <1>8, <1>9 DEF History!Reconcile

LEMMA HistoryStep == HistoryInv /\ [Next /\ Serial']_vars => [History!Next]_(History!vars)
<1> SUFFICES ASSUME HistoryInv, [Next /\ Serial']_vars PROVE [History!Next]_(History!vars)
  OBVIOUS
<1> DEFINE inUse == [t \in Store |-> Active(t)]
<1>1. log' = log => inUse' = inUse
  BY ActiveFrame
<1>2. ASSUME NEW w \in Worker, NEW s \in Store, NEW page \in Page, Attempt(w, s, page)
      PROVE  [History!Next]_(History!vars)
  <2>1. UNCHANGED <<log, sent, inUse>>
    BY <1>1, <1>2 DEF Attempt
  <2>2. CASE statusFor(page) = "active"
    <3>1. page.detected \in SUBSET Tech
      BY <2>2, StatusOfPage, StoreCrawlAssumption
    <3>2. live' = [live EXCEPT ![s] = Append(@, page.detected)]
      BY <1>2, <2>2 DEF Attempt
    <3>3. QED
      BY <2>1, <3>1, <3>2 DEF History!Visit, History!Next
  <2>3. CASE statusFor(page) # "active"
    BY <1>2, <2>1, <2>3 DEF Attempt, History!vars
  <2>4. QED
    BY <2>2, <2>3
<1>3. ASSUME UNCHANGED <<live, log, sent>>
      PROVE  UNCHANGED History!vars
  BY <1>1, <1>3 DEF History!vars
<1>4. ASSUME NEW w \in Worker,
             ReadMetadata(w) \/ InsertMetadata(w) \/ ReadTechnologies(w) \/ Finish(w)
      PROVE  UNCHANGED History!vars
  BY <1>3, <1>4 DEF ReadMetadata, InsertMetadata, ReadTechnologies, Finish
<1>5. ASSUME NEW w \in Worker, InsertTechnologies(w)
      PROVE  History!Next
  <2>1. crawl[w].store \in Store
    BY <1>5, BusyCrawl DEF HistoryInv, SerialInv, InsertTechnologies, At, Busy, Crawling
  <2>2. QED
    BY <1>5, <2>1, InsertReconciles DEF History!Next
<1>6. ASSUME NEW w \in Worker, PublishEvent(w) \/ Abort(w)
      PROVE  History!Next
  <2>1. UNCHANGED <<live, log, inUse>> /\ sent \subseteq sent'
    BY <1>1, <1>6 DEF PublishEvent, Abort
  <2>2. OnlyRecordedEventsArePublished' /\ TypeOK'
    BY NextHistoryInv DEF HistoryInv, SerialInv
  <2>3. ASSUME NEW row \in sent' PROVE row \in History!Changes
    <3>1. row \in Row /\ row[3] \in DOMAIN log'[row[1]][row[2]]
      BY <2>2, <2>3 DEF OnlyRecordedEventsArePublished, RowExists, TypeOK
    <3>2. QED
      BY <2>1, <3>1 DEF History!Changes, Row
  <2>4. History!Tell
    BY <2>1, <2>3 DEF History!Tell
  <2>5. QED
    BY <2>4 DEF History!Next
<1>7. CASE UNCHANGED vars
  BY <1>3, <1>7 DEF vars
<1>8. QED
  BY <1>2, <1>4, <1>5, <1>6, <1>7 DEF Next, Step

LEMMA HistoryStart == Init => History!Init
  BY DEF Init, History!Init, Active, Latest

\* Crawls of a store one at a time, cut short or not, implement the history that
\* following the store promises.
THEOREM SerialCrawlsAreAHistory == SerialSpec => ImplementsStoreHistory
<1>1. SerialSpec => []HistoryInv
  BY InitHistoryInv, NextHistoryInv, PTL DEF SerialSpec
<1>2. QED
  BY <1>1, HistoryStart, HistoryStep, PTL DEF SerialSpec, ImplementsStoreHistory, History!Spec

-----------------------------------------------------------------------------
(* Every row of the log is published or about to be, unless a crawl was cut *)
(* short, and only one crawl is about to publish it.                       *)

\* The rows a worker has still to publish.
Owed(w) == IF At(w, "idle") THEN {} ELSE crawl[w].pending

Accounted ==
  /\ \A w \in Worker : crawl[w].pc # "publishing" => Owed(w) = {}
  /\ \A w \in Worker : Owed(w) \cap sent = {}
  /\ \A v, w \in Worker : v # w => Owed(v) \cap Owed(w) = {}
  /\ aborts = 0 =>
       \A s \in Store, n \in Tech : \A i \in DOMAIN log[s][n] :
         <<s, n, i>> \in sent \/ \E w \in Worker : <<s, n, i>> \in Owed(w)

\* A step that appends nothing: what a worker no longer owes was published, or
\* the crawl was cut short.
LEMMA SettlingKeepsAccounts ==
  ASSUME Accounted, NEW w \in Worker, log' = log,
         \A v \in Worker \ {w} : crawl'[v] = crawl[v],
         sent \subseteq sent', sent' \subseteq sent \cup Owed(w),
         Owed(w)' \subseteq Owed(w), Owed(w)' \cap sent' = {},
         crawl'[w].pc # "publishing" => Owed(w)' = {},
         aborts' = 0 => aborts = 0 /\ Owed(w) \subseteq sent' \cup Owed(w)'
  PROVE  Accounted'
<1>1. \A v \in Worker \ {w} : Owed(v)' = Owed(v)
  BY DEF Owed, At
<1>2. \A v \in Worker : Owed(v)' \subseteq Owed(v)
  BY <1>1
<1>3. \A v \in Worker : Owed(v)' \cap sent' = {}
  BY <1>1 DEF Accounted
<1>4. \A v \in Worker : crawl'[v].pc # "publishing" => Owed(v)' = {}
  BY <1>1 DEF Accounted
<1>5. ASSUME aborts' = 0, NEW s \in Store, NEW n \in Tech, NEW i \in DOMAIN log'[s][n]
      PROVE  <<s, n, i>> \in sent' \/ \E v \in Worker : <<s, n, i>> \in Owed(v)'
  <2>1. <<s, n, i>> \in sent \/ \E v \in Worker : <<s, n, i>> \in Owed(v)
    BY <1>5 DEF Accounted
  <2>2. ASSUME NEW v \in Worker, <<s, n, i>> \in Owed(v)
        PROVE  <<s, n, i>> \in sent' \/ <<s, n, i>> \in Owed(v)'
    BY <1>1, <1>5, <2>2
  <2> QED
    BY <2>1, <2>2
<1> QED
  BY <1>2, <1>3, <1>4, <1>5 DEF Accounted

\* The rows of an insert are new, so nobody has published or owes them.
LEMMA InsertKeepsAccounts ==
  ASSUME TypeOK, OnlyRecordedEventsArePublished, Accounted, NEW w \in Worker, InsertTechnologies(w)
  PROVE  Accounted'
<1>1. crawl[w] \in Crawling /\ crawl[w].pc = "technologies insert"
  BY BusyCrawl DEF InsertTechnologies, At, Busy
<1>2. PICK s, events : s = crawl[w].store /\ events = crawl[w].events
  OBVIOUS
<1>3. s \in Store /\ events \in [Tech -> EventType \cup {"none"}]
  BY <1>1, <1>2 DEF Crawling
<1>4. PICK fresh : fresh = NewRows(s, events)
  OBVIOUS
<1>5. crawl'[w].pc = "publishing" /\ crawl'[w].pending = fresh
      /\ \A v \in Worker \ {w} : crawl'[v] = crawl[v]
  BY <1>1, <1>2, <1>4 DEF InsertTechnologies, TypeOK, Crawling
<1>6. Owed(w)' = fresh /\ Owed(w) = {} /\ \A v \in Worker \ {w} : Owed(v)' = Owed(v)
  BY <1>1, <1>5 DEF Owed, At, Accounted
<1>7. sent' = sent /\ aborts' = aborts /\ log' = [log EXCEPT ![s] = Appended(s, events)]
  BY <1>2 DEF InsertTechnologies
<1>8. ASSUME NEW row \in fresh
      PROVE  row \notin sent /\ \A v \in Worker : row \notin Owed(v)
  <2>1. PICK n \in Tech : row = <<s, n, Len(log[s][n]) + 1>>
    BY <1>4 DEF NewRows
  <2>2. log[s][n] \in Seq(EventType)
    BY <1>3 DEF TypeOK
  <2>3. ~RowExists(row)
    BY <2>1, <2>2 DEF RowExists
  <2> QED
    BY <2>3 DEF OnlyRecordedEventsArePublished, Unsent, Owed
<1>9. ASSUME aborts = 0, NEW t \in Store, NEW n \in Tech, NEW i \in DOMAIN log'[t][n]
      PROVE  <<t, n, i>> \in sent' \/ \E v \in Worker : <<t, n, i>> \in Owed(v)'
  <2>1. CASE i \in DOMAIN log[t][n]
    BY <1>6, <1>7, <1>9, <2>1 DEF Accounted
  <2>2. CASE i \notin DOMAIN log[t][n]
    <3>1. t = s
      BY <1>3, <1>7, <2>2 DEF TypeOK
    <3>2. log[s][n] \in Seq(EventType)
          /\ log'[s][n] = IF events[n] = "none" THEN log[s][n] ELSE Append(log[s][n], events[n])
      BY <1>3, <1>7 DEF TypeOK, Appended
    <3>3. events[n] # "none" /\ log'[s][n] = Append(log[s][n], events[n])
      BY <2>2, <3>1, <3>2
    <3>4. i = Len(log[s][n]) + 1
      BY <2>2, <3>1, <3>2, <3>3
    <3>5. <<t, n, i>> \in fresh
      BY <1>4, <3>1, <3>3, <3>4 DEF NewRows
    <3> QED
      BY <1>6, <3>5
  <2> QED
    BY <2>1, <2>2
<1> QED
  BY <1>5, <1>6, <1>7, <1>8, <1>9 DEF Accounted

LEMMA NextAccounted ==
  ASSUME TypeOK, OnlyRecordedEventsArePublished, Accounted, [Next]_vars
  PROVE  Accounted'
<1>1. ASSUME NEW w \in Worker, NEW s \in Store, NEW page \in Page, Attempt(w, s, page)
      PROVE  Accounted'
  <2>1. /\ log' = log /\ sent' = sent /\ aborts' = aborts /\ crawl[w].pc = "idle"
        /\ \A v \in Worker \ {w} : crawl'[v] = crawl[v]
        /\ crawl'[w] = crawl[w] \/ (crawl'[w].pc = "metadata" /\ crawl'[w].pending = {})
    BY <1>1 DEF Attempt, At, TypeOK
  <2>2. Owed(w) = {} /\ Owed(w)' = {}
    BY <2>1 DEF Owed, At
  <2> QED
    BY <2>1, <2>2, SettlingKeepsAccounts
<1>2. ASSUME NEW w \in Worker, ReadMetadata(w) \/ InsertMetadata(w) \/ ReadTechnologies(w)
      PROVE  Accounted'
  <2>1. crawl[w] \in Crawling /\ crawl[w].pc \notin {"idle", "publishing"}
    BY <1>2, BusyCrawl DEF ReadMetadata, InsertMetadata, ReadTechnologies, Busy, At
  <2>2. /\ log' = log /\ sent' = sent /\ aborts' = aborts
        /\ \A v \in Worker \ {w} : crawl'[v] = crawl[v]
        /\ crawl'[w].pending = crawl[w].pending /\ crawl'[w].pc # "idle"
    <3>1. CASE ReadMetadata(w)
      BY <2>1, <3>1 DEF ReadMetadata, TypeOK, Crawling
    <3>2. CASE InsertMetadata(w)
      BY <2>1, <3>2 DEF InsertMetadata, TypeOK, Crawling
    <3>3. CASE ReadTechnologies(w)
      BY <2>1, <3>3 DEF ReadTechnologies, TypeOK, Crawling
    <3> QED
      BY <1>2, <3>1, <3>2, <3>3
  <2>3. Owed(w) = {} /\ Owed(w)' = {}
    BY <2>1, <2>2 DEF Owed, At, Accounted
  <2> QED
    BY <2>2, <2>3, SettlingKeepsAccounts
<1>3. ASSUME NEW w \in Worker, PublishEvent(w)
      PROVE  Accounted'
  <2>1. crawl[w] \in Crawling /\ crawl[w].pc = "publishing"
    BY <1>3, BusyCrawl DEF PublishEvent, Busy, At
  <2>2. PICK row \in crawl[w].pending :
          /\ sent' = sent \cup {row}
          /\ crawl' = [crawl EXCEPT ![w].pending = @ \ {row}]
    BY <1>3 DEF PublishEvent
  <2>3. /\ crawl'[w].pc = "publishing" /\ crawl'[w].pending = crawl[w].pending \ {row}
        /\ \A v \in Worker \ {w} : crawl'[v] = crawl[v]
    BY <2>1, <2>2 DEF TypeOK, Crawling
  <2>4. Owed(w) = crawl[w].pending /\ Owed(w)' = Owed(w) \ {row} /\ row \in Owed(w)
    BY <2>1, <2>2, <2>3 DEF Owed, At
  <2>5. Owed(w)' \cap sent' = {}
    BY <2>2, <2>4 DEF Accounted
  <2>6. log' = log /\ aborts' = aborts
    BY <1>3 DEF PublishEvent
  <2> QED
    BY <2>2, <2>3, <2>4, <2>5, <2>6, SettlingKeepsAccounts
<1>4. ASSUME NEW w \in Worker, Finish(w)
      PROVE  Accounted'
  <2>1. /\ log' = log /\ sent' = sent /\ aborts' = aborts
        /\ crawl'[w] = Idle /\ \A v \in Worker \ {w} : crawl'[v] = crawl[v]
        /\ crawl[w].pending = {}
    BY <1>4 DEF Finish, TypeOK
  <2>2. Owed(w) = {} /\ Owed(w)' = {}
    BY <2>1 DEF Owed, At, Idle
  <2> QED
    BY <2>1, <2>2, SettlingKeepsAccounts
<1>5. ASSUME NEW w \in Worker, Abort(w)
      PROVE  Accounted'
  <2>1. PICK delivered \in SUBSET crawl[w].pending : sent' = sent \cup delivered
    BY <1>5 DEF Abort
  <2>2. /\ log' = log /\ aborts' # 0
        /\ crawl'[w] = Idle /\ \A v \in Worker \ {w} : crawl'[v] = crawl[v]
    BY <1>5 DEF Abort, TypeOK
  <2>3. Owed(w) = crawl[w].pending /\ Owed(w)' = {}
    BY <1>5, <2>2 DEF Owed, At, Idle, Abort
  <2> QED
    BY <2>1, <2>2, <2>3, SettlingKeepsAccounts
<1>6. CASE UNCHANGED vars
  BY <1>6 DEF vars, Accounted, Owed, At
<1> QED
  BY <1>1, <1>2, <1>3, <1>4, <1>5, <1>6, InsertKeepsAccounts DEF Next, Step

\* Only a crawl cut short between its insert and its publishes loses events,
\* and no event is published by two crawls (crawlHomepage's Promise.all).
THEOREM EventsStayAccountedFor == Spec => []EventsAreAccountedFor
<1>1. Init => Accounted
  BY DEF Init, Accounted, Owed, At, Idle
<1>2. Accounted => EventsAreAccountedFor
  BY DEF Accounted, EventsAreAccountedFor, Owed, Unsent
<1> QED
  BY <1>1, <1>2, NextAccounted, TypeCorrect, PublishingFollowsRecording, PTL DEF Spec

-----------------------------------------------------------------------------
(* Crawls that race repeat a row, but at most once per worker.  A worker    *)
(* decides to append a row only while the last one differs from it; so the  *)
(* run of equal rows at the end of a table and the workers still waiting to *)
(* append that row once more are together no more than the workers.         *)

\* rows end in a run of equal rows; wait names the workers about to append each.
RunsKept(rows, wait) ==
  \A i \in DOMAIN rows : (\A j \in i..(Len(rows) - 1) : rows[j] = rows[j + 1]) =>
    Len(rows) - i + 1 + Cardinality(wait[rows[Len(rows)]]) <= Cardinality(Worker)

\* A table stays, and nobody new waits to repeat its last row; or the row of a
\* worker that waited is appended.
Extends(X, rows, more, wait, next) ==
  \/ more = rows /\ (rows # <<>> => next[rows[Len(rows)]] \subseteq wait[rows[Len(rows)]])
  \/ \E x \in X : \E w \in wait[x] : more = Append(rows, x) /\ next[x] \subseteq wait[x] \ {w}

LEMMA FiniteWorkers ==
  ASSUME NEW V \in SUBSET Worker
  PROVE  /\ IsFiniteSet(V) /\ Cardinality(V) \in Nat
         /\ Cardinality(Worker) \in Nat /\ Cardinality(V) <= Cardinality(Worker)
BY StoreCrawlAssumption, FS_Subset, FS_CardinalityType

LEMMA FewerWorkers ==
  ASSUME NEW V \in SUBSET Worker, NEW w \in V, NEW U \in SUBSET (V \ {w})
  PROVE  Cardinality(U) + 1 <= Cardinality(V)
<1>1. Cardinality(V \ {w}) = Cardinality(V) - 1 /\ IsFiniteSet(V \ {w})
  BY FiniteWorkers, FS_RemoveElement
<1>2. Cardinality(U) <= Cardinality(V \ {w}) /\ U \in SUBSET Worker
  BY <1>1, FS_Subset
<1> QED
  BY <1>1, <1>2, FiniteWorkers

LEMMA RunsStay ==
  ASSUME NEW X, NEW rows \in Seq(X), NEW wait \in [X -> SUBSET Worker], NEW next \in [X -> SUBSET Worker],
         rows # <<>> => next[rows[Len(rows)]] \subseteq wait[rows[Len(rows)]],
         RunsKept(rows, wait)
  PROVE  RunsKept(rows, next)
<1> SUFFICES ASSUME NEW i \in DOMAIN rows, \A j \in i..(Len(rows) - 1) : rows[j] = rows[j + 1]
             PROVE  Len(rows) - i + 1 + Cardinality(next[rows[Len(rows)]]) <= Cardinality(Worker)
  BY DEF RunsKept
<1>1. PICK n \in Nat : n = Len(rows) /\ DOMAIN rows = 1..n /\ n # 0 /\ rows[n] \in X
  OBVIOUS
<1>2. PICK old, new \in SUBSET Worker : old = wait[rows[n]] /\ new = next[rows[n]]
  BY <1>1
<1>3. new \subseteq old
  BY <1>1, <1>2
<1>4. Cardinality(new) <= Cardinality(old)
  BY <1>3, FiniteWorkers, FS_Subset
<1>5. n - i + 1 + Cardinality(old) <= Cardinality(Worker)
  BY <1>1, <1>2 DEF RunsKept
<1>6. Cardinality(new) \in Nat /\ Cardinality(old) \in Nat /\ Cardinality(Worker) \in Nat /\ i \in Nat
  BY <1>1, FiniteWorkers
<1> QED
  BY <1>1, <1>2, <1>4, <1>5, <1>6

LEMMA RunsGrow ==
  ASSUME NEW X, NEW rows \in Seq(X), NEW wait \in [X -> SUBSET Worker], NEW next \in [X -> SUBSET Worker],
         NEW x \in X, NEW w \in wait[x], next[x] \subseteq wait[x] \ {w},
         RunsKept(rows, wait), RunsBounded(rows, Cardinality(Worker))
  PROVE  /\ RunsKept(Append(rows, x), next)
         /\ RunsBounded(Append(rows, x), Cardinality(Worker))
<1>1. PICK n \in Nat : n = Len(rows) /\ DOMAIN rows = 1..n
  OBVIOUS
<1>2. PICK more : more = Append(rows, x)
  OBVIOUS
<1>3. /\ Len(more) = n + 1 /\ DOMAIN more = 1..(n + 1) /\ more[n + 1] = x
      /\ \A i \in 1..n : more[i] = rows[i]
  BY <1>1, <1>2
<1>4. PICK all \in Nat, c \in Nat, d \in Nat :
        all = Cardinality(Worker) /\ c = Cardinality(wait[x]) /\ d = Cardinality(next[x])
  BY FiniteWorkers
<1>5. c <= all /\ d + 1 <= c
  BY <1>4, FiniteWorkers, FewerWorkers
<1>6. ASSUME NEW i \in 1..(n + 1), \A j \in i..n : more[j] = more[j + 1]
      PROVE  n + 1 - i + 1 + d <= all
  <2>1. CASE i = n + 1
    BY <1>5, <2>1
  <2>2. CASE i \in 1..n
    <3>1. rows[n] = x
      BY <1>3, <1>6, <2>2
    <3>2. \A j \in i..(n - 1) : rows[j] = rows[j + 1]
      BY <1>3, <1>6, <2>2
    <3>3. n - i + 1 + c <= all
      BY <1>1, <1>4, <2>2, <3>1, <3>2 DEF RunsKept
    <3> QED
      BY <1>5, <2>2, <3>3
  <2> QED
    BY <2>1, <2>2
<1>7. RunsKept(more, next)
  BY <1>3, <1>4, <1>6 DEF RunsKept
<1>8. ASSUME NEW i \in 1..(n + 1), i + all \in 1..(n + 1)
      PROVE  \E j \in i..(i + all - 1) : more[j] # more[j + 1]
  <2>1. CASE i + all <= n
    <3>1. i \in 1..n /\ i + all \in 1..n
      BY <1>8, <2>1
    <3>2. PICK j \in i..(i + all - 1) : rows[j] # rows[j + 1]
      BY <1>1, <1>4, <3>1 DEF RunsBounded
    <3>3. j \in 1..n /\ j + 1 \in 1..n
      BY <3>1, <3>2
    <3> QED
      BY <1>3, <3>2, <3>3
  <2>2. CASE i + all = n + 1
    <3> SUFFICES ASSUME \A j \in i..n : more[j] = more[j + 1]
                 PROVE  FALSE
      BY <2>2
    <3>1. n + 1 - i + 1 + d <= all
      BY <1>6
    <3> QED
      BY <2>2, <3>1
  <2> QED
    BY <1>8, <2>1, <2>2
<1>9. RunsBounded(more, all)
  BY <1>3, <1>8 DEF RunsBounded
<1> QED
  BY <1>2, <1>4, <1>7, <1>9

LEMMA RunsStep ==
  ASSUME NEW X, NEW rows \in Seq(X), NEW more,
         NEW wait \in [X -> SUBSET Worker], NEW next \in [X -> SUBSET Worker],
         Extends(X, rows, more, wait, next),
         RunsKept(rows, wait), RunsBounded(rows, Cardinality(Worker))
  PROVE  RunsKept(more, next) /\ RunsBounded(more, Cardinality(Worker))
<1>1. CASE more = rows /\ (rows # <<>> => next[rows[Len(rows)]] \subseteq wait[rows[Len(rows)]])
  BY <1>1, RunsStay, Zenon
<1>2. ASSUME NEW x \in X, NEW w \in wait[x], more = Append(rows, x), next[x] \subseteq wait[x] \ {w}
      PROVE  RunsKept(more, next) /\ RunsBounded(more, Cardinality(Worker))
  BY <1>2, RunsGrow, Zenon
<1> QED
  BY <1>1, <1>2 DEF Extends

\* The workers about to append a row to the metadata, and a name's events.
MetadataWait(s) ==
  [x \in Metadata |->
     {w \in Worker : /\ crawl[w].pc = "metadata insert"
                     /\ crawl[w].store = s
                     /\ MetadataOf(crawl[w].page) = x}]

LogWait(s, n) ==
  [x \in EventType |->
     {w \in Worker : /\ crawl[w].pc = "technologies insert"
                     /\ crawl[w].store = s
                     /\ crawl[w].events[n] = x}]

MetadataExtends(s) == Extends(Metadata, metadata[s], metadata'[s], MetadataWait(s), MetadataWait(s)')
LogExtends(s, n) == Extends(EventType, log[s][n], log'[s][n], LogWait(s, n), LogWait(s, n)')

LEMMA LatestRows ==
  ASSUME TypeOK, NEW s \in Store
  PROVE  /\ metadata[s] \in Seq(Metadata)
         /\ metadata[s] # <<>> => metadata[s][Len(metadata[s])] \in Metadata
         /\ \A n \in Tech : /\ log[s][n] \in Seq(EventType)
                            /\ log[s][n] # <<>> => /\ log[s][n][Len(log[s][n])] \in EventType
                                                   /\ Latest(log[s][n]) = log[s][n][Len(log[s][n])]
<1>1. metadata[s] \in Seq(Metadata) /\ \A n \in Tech : log[s][n] \in Seq(EventType)
  BY DEF TypeOK
<1> QED
  BY <1>1 DEF Latest

LEMMA MetadataStays ==
  ASSUME TypeOK, NEW s \in Store, NEW w \in Worker, metadata' = metadata,
         \A v \in Worker \ {w} : crawl'[v] = crawl[v],
         crawl'[w].pc = "metadata insert" /\ crawl'[w].store = s /\ metadata[s] # <<>> =>
           MetadataOf(crawl'[w].page) # metadata[s][Len(metadata[s])]
  PROVE  MetadataExtends(s)
<1> SUFFICES ASSUME metadata[s] # <<>>
             PROVE  LET x == metadata[s][Len(metadata[s])]
                    IN  MetadataWait(s)'[x] \subseteq MetadataWait(s)[x]
  BY DEF MetadataExtends, Extends
<1>1. PICK x \in Metadata : x = metadata[s][Len(metadata[s])]
  BY LatestRows
<1>2. ASSUME NEW v \in MetadataWait(s)'[x]
      PROVE  v \in MetadataWait(s)[x]
  <2>1. v \in Worker /\ crawl'[v].pc = "metadata insert" /\ crawl'[v].store = s /\ MetadataOf(crawl'[v].page) = x
    BY <1>2 DEF MetadataWait, MetadataOf
  <2>2. v # w
    BY <1>1, <2>1
  <2> QED
    BY <2>1, <2>2 DEF MetadataWait, MetadataOf
<1> QED
  BY <1>1, <1>2

LEMMA LogStays ==
  ASSUME TypeOK, NEW s \in Store, NEW n \in Tech, NEW w \in Worker, log' = log,
         \A v \in Worker \ {w} : crawl'[v] = crawl[v],
         crawl'[w].pc = "technologies insert" /\ crawl'[w].store = s /\ log[s][n] # <<>> =>
           crawl'[w].events[n] # log[s][n][Len(log[s][n])]
  PROVE  LogExtends(s, n)
<1> SUFFICES ASSUME log[s][n] # <<>>
             PROVE  LET x == log[s][n][Len(log[s][n])]
                    IN  LogWait(s, n)'[x] \subseteq LogWait(s, n)[x]
  BY DEF LogExtends, Extends
<1>1. PICK x \in EventType : x = log[s][n][Len(log[s][n])]
  BY LatestRows
<1>2. ASSUME NEW v \in LogWait(s, n)'[x]
      PROVE  v \in LogWait(s, n)[x]
  <2>1. v \in Worker /\ crawl'[v].pc = "technologies insert" /\ crawl'[v].store = s /\ crawl'[v].events[n] = x
    BY <1>2 DEF LogWait
  <2>2. v # w
    BY <1>1, <2>1
  <2> QED
    BY <2>1, <2>2 DEF LogWait
<1> QED
  BY <1>1, <1>2

LEMMA TablesExtend ==
  ASSUME TypeOK, [Next]_vars, NEW s \in Store
  PROVE  MetadataExtends(s) /\ \A n \in Tech : LogExtends(s, n)
<1>1. ASSUME NEW w \in Worker, metadata' = metadata, log' = log,
             \A v \in Worker \ {w} : crawl'[v] = crawl[v],
             crawl'[w].pc \notin {"metadata insert", "technologies insert"} \/ crawl'[w] = crawl[w]
      PROVE  MetadataExtends(s) /\ \A n \in Tech : LogExtends(s, n)
  <2>1. MetadataWait(s)' \in [Metadata -> SUBSET Worker] /\ MetadataWait(s) \in [Metadata -> SUBSET Worker]
        /\ \A x \in Metadata : MetadataWait(s)'[x] \subseteq MetadataWait(s)[x]
    BY <1>1 DEF MetadataWait, MetadataOf
  <2>2. \A n \in Tech, x \in EventType : LogWait(s, n)'[x] \subseteq LogWait(s, n)[x]
    BY <1>1 DEF LogWait
  <2> QED
    BY <1>1, <2>1, <2>2, LatestRows DEF MetadataExtends, LogExtends, Extends
<1>2. ASSUME NEW w \in Worker, NEW t \in Store, NEW page \in Page, Attempt(w, t, page)
      PROVE  MetadataExtends(s) /\ \A n \in Tech : LogExtends(s, n)
  <2>1. metadata' = metadata /\ log' = log /\ \A v \in Worker \ {w} : crawl'[v] = crawl[v]
    BY <1>2 DEF Attempt, TypeOK
  <2>2. crawl'[w].pc = "metadata" \/ crawl'[w] = crawl[w]
    BY <1>2 DEF Attempt, TypeOK
  <2> QED
    BY <1>1, <2>1, <2>2
<1>3. ASSUME NEW w \in Worker, ReadMetadata(w)
      PROVE  MetadataExtends(s) /\ \A n \in Tech : LogExtends(s, n)
  <2>1. crawl[w] \in Crawling
    BY <1>3, BusyCrawl DEF ReadMetadata, At, Busy
  <2>2. PICK pc \in {"metadata insert", "technologies"} :
          /\ crawl' = [crawl EXCEPT ![w].pc = pc]
          /\ pc = "metadata insert" =>
               ~(metadata[crawl[w].store] # <<>> /\
                 metadata[crawl[w].store][Len(metadata[crawl[w].store])] = MetadataOf(crawl[w].page))
    BY <1>3 DEF ReadMetadata
  <2>3. /\ crawl'[w].pc = pc /\ crawl'[w].store = crawl[w].store /\ crawl'[w].page = crawl[w].page
        /\ \A v \in Worker \ {w} : crawl'[v] = crawl[v]
    BY <2>1, <2>2 DEF TypeOK, Crawling
  <2>4. metadata' = metadata /\ log' = log
    BY <1>3 DEF ReadMetadata
  <2>5. MetadataExtends(s)
    BY <2>2, <2>3, <2>4, MetadataStays
  <2> QED
    BY <2>3, <2>4, <2>5, LogStays
<1>4. ASSUME NEW w \in Worker, InsertMetadata(w)
      PROVE  MetadataExtends(s) /\ \A n \in Tech : LogExtends(s, n)
  <2>1. crawl[w] \in Crawling /\ crawl[w].pc = "metadata insert"
    BY <1>4, BusyCrawl DEF InsertMetadata, At, Busy
  <2>2. PICK x, t : x = MetadataOf(crawl[w].page) /\ t = crawl[w].store
    OBVIOUS
  <2>3. x \in Metadata /\ t \in Store
    <3>1. crawl[w].page \in Response /\ crawl[w].store \in Store
      BY <2>1 DEF Crawling
    <3>2. MetadataOf(crawl[w].page) \in Metadata
      BY <3>1 DEF MetadataOf, Metadata
    <3> QED
      BY <2>2, <3>1, <3>2
  <2>4. /\ metadata' = [metadata EXCEPT ![t] = Append(@, x)] /\ log' = log
        /\ crawl'[w].pc = "technologies" /\ \A v \in Worker \ {w} : crawl'[v] = crawl[v]
    BY <1>4, <2>1, <2>2 DEF InsertMetadata, TypeOK, Crawling
  <2>5. \A y \in Metadata : MetadataWait(s)'[y] \subseteq MetadataWait(s)[y] \ {w}
    <3> SUFFICES ASSUME NEW y \in Metadata, NEW v \in MetadataWait(s)'[y]
                 PROVE  v \in MetadataWait(s)[y] \ {w}
      OBVIOUS
    <3>1. v \in Worker /\ crawl'[v].pc = "metadata insert" /\ crawl'[v].store = s
          /\ MetadataOf(crawl'[v].page) = y
      BY DEF MetadataWait, MetadataOf
    <3>2. v # w /\ crawl'[v] = crawl[v]
      BY <2>4, <3>1
    <3> QED
      BY <3>1, <3>2 DEF MetadataWait, MetadataOf
  <2>6. metadata'[t] = Append(metadata[t], x) /\ (s # t => metadata'[s] = metadata[s])
    BY <2>3, <2>4 DEF TypeOK
  <2>7. ASSUME s = t PROVE MetadataExtends(s)
    <3>1. w \in MetadataWait(s)[x]
      BY <2>1, <2>2, <2>3, <2>7 DEF MetadataWait
    <3>2. metadata'[s] = Append(metadata[s], x)
      BY <2>6, <2>7
    <3> QED
      BY <2>3, <2>5, <3>1, <3>2 DEF MetadataExtends, Extends
  <2>8. ASSUME s # t PROVE MetadataExtends(s)
    BY <2>5, <2>6, <2>8, LatestRows DEF MetadataExtends, Extends
  <2> QED
    BY <2>4, <2>7, <2>8, LogStays
<1>5. ASSUME NEW w \in Worker, ReadTechnologies(w)
      PROVE  MetadataExtends(s) /\ \A n \in Tech : LogExtends(s, n)
  <2>1. crawl[w] \in Crawling
    BY <1>5, BusyCrawl DEF ReadTechnologies, At, Busy
  <2>2. PICK t, events, pc : /\ t = crawl[w].store /\ events = Diff(t, crawl[w].page.detected)
                             /\ pc = IF events = NoEvents THEN "publishing" ELSE "technologies insert"
    OBVIOUS
  <2>3. crawl' = [crawl EXCEPT ![w] = [crawl[w] EXCEPT !.pc = pc, !.events = events]]
    BY <1>5, <2>2 DEF ReadTechnologies
  <2>4. /\ crawl'[w].pc = pc /\ crawl'[w].events = events /\ crawl'[w].store = t
        /\ \A v \in Worker \ {w} : crawl'[v] = crawl[v]
    BY <2>1, <2>2, <2>3 DEF TypeOK, Crawling
  <2>5. metadata' = metadata /\ log' = log
    BY <1>5 DEF ReadTechnologies
  <2>6. ASSUME NEW n \in Tech, crawl'[w].store = s, log[s][n] # <<>>
        PROVE  events[n] # log[s][n][Len(log[s][n])]
    <3>1. events[n] # Latest(log[s][n])
      <4>1. Latest(log[s][n]) \in EventType
        BY <2>6, LatestRows
      <4>2. PICK latest \in EventType : latest = Latest(log[s][n])
        BY <4>1
      <4>3. events[n] = CASE n \in crawl[w].page.detected /\ latest # "added" -> "added"
                          [] n \notin crawl[w].page.detected /\ latest = "added" -> "removed"
                          [] OTHER -> "none"
        BY <2>2, <2>4, <2>6, <4>2 DEF Diff
      <4> QED
        BY <4>2, <4>3 DEF EventType
    <3> QED
      BY <2>6, <3>1, LatestRows
  <2>7. ASSUME NEW n \in Tech
        PROVE  LogExtends(s, n)
    <3>1. crawl'[w].pc = "technologies insert" /\ crawl'[w].store = s /\ log[s][n] # <<>> =>
            crawl'[w].events[n] # log[s][n][Len(log[s][n])]
      BY <2>4, <2>6
    <3> QED
      BY <2>4, <2>5, <3>1, LogStays
  <2>8. crawl'[w].pc # "metadata insert"
    BY <2>2, <2>4
  <2> QED
    BY <2>4, <2>5, <2>7, <2>8, MetadataStays
<1>6. ASSUME NEW w \in Worker, InsertTechnologies(w)
      PROVE  MetadataExtends(s) /\ \A n \in Tech : LogExtends(s, n)
  <2>1. crawl[w] \in Crawling /\ crawl[w].pc = "technologies insert"
    BY <1>6, BusyCrawl DEF InsertTechnologies, At, Busy
  <2>2. PICK t, events : t = crawl[w].store /\ events = crawl[w].events
    OBVIOUS
  <2>3. t \in Store /\ events \in [Tech -> EventType \cup {"none"}]
    BY <2>1, <2>2 DEF Crawling
  <2>4. /\ log' = [log EXCEPT ![t] = Appended(t, events)] /\ metadata' = metadata
        /\ crawl'[w].pc = "publishing" /\ \A v \in Worker \ {w} : crawl'[v] = crawl[v]
    BY <1>6, <2>1, <2>2 DEF InsertTechnologies, TypeOK, Crawling
  <2>5. ASSUME NEW n \in Tech
        PROVE  LogExtends(s, n)
    <3>1. \A x \in EventType : LogWait(s, n)'[x] \subseteq LogWait(s, n)[x] \ {w}
      BY <2>4 DEF LogWait
    <3>2. CASE s = t /\ events[n] # "none"
      <4>1. PICK x \in EventType : x = events[n]
        BY <2>3, <3>2
      <4>2. log'[s][n] = Append(log[s][n], x)
        BY <2>3, <2>4, <3>2, <4>1 DEF TypeOK, Appended
      <4>3. w \in LogWait(s, n)[x]
        BY <2>1, <2>2, <3>2, <4>1 DEF LogWait
      <4> QED
        BY <3>1, <4>2, <4>3 DEF LogExtends, Extends
    <3>3. CASE ~(s = t /\ events[n] # "none")
      <4>1. log'[s][n] = log[s][n]
        BY <2>3, <2>4, <3>3 DEF TypeOK, Appended
      <4> QED
        BY <3>1, <4>1, LatestRows DEF LogExtends, Extends
    <3> QED
      BY <3>2, <3>3
  <2> QED
    BY <2>4, <2>5, MetadataStays
<1>7. ASSUME NEW w \in Worker, PublishEvent(w)
      PROVE  MetadataExtends(s) /\ \A n \in Tech : LogExtends(s, n)
  <2>1. crawl[w] \in Crawling /\ crawl[w].pc = "publishing"
    BY <1>7, BusyCrawl DEF PublishEvent, At, Busy
  <2>2. PICK left : crawl' = [crawl EXCEPT ![w].pending = left]
    BY <1>7 DEF PublishEvent
  <2>3. crawl'[w].pc = "publishing" /\ \A v \in Worker \ {w} : crawl'[v] = crawl[v]
    BY <2>1, <2>2 DEF TypeOK, Crawling
  <2> QED
    BY <1>1, <1>7, <2>3 DEF PublishEvent
<1>8. ASSUME NEW w \in Worker, Finish(w) \/ Abort(w)
      PROVE  MetadataExtends(s) /\ \A n \in Tech : LogExtends(s, n)
  <2>1. crawl'[w].pc = "idle" /\ (\A v \in Worker \ {w} : crawl'[v] = crawl[v])
        /\ metadata' = metadata /\ log' = log
    BY <1>8 DEF Finish, Abort, TypeOK, Idle
  <2> QED
    BY <1>1, <2>1
<1>9. CASE UNCHANGED vars
  BY <1>9, LatestRows DEF MetadataExtends, LogExtends, Extends, MetadataWait, LogWait, vars
<1> QED
  BY <1>2, <1>3, <1>4, <1>5, <1>6, <1>7, <1>8, <1>9 DEF Next, Step

RunsInv ==
  \A s \in Store :
    /\ RunsKept(metadata[s], MetadataWait(s))
    /\ RunsBounded(metadata[s], Cardinality(Worker))
    /\ \A n \in Tech : /\ RunsKept(log[s][n], LogWait(s, n))
                       /\ RunsBounded(log[s][n], Cardinality(Worker))

LEMMA NextRuns ==
  ASSUME TypeOK, RunsInv, [Next]_vars
  PROVE  RunsInv'
<1> SUFFICES ASSUME NEW s \in Store
             PROVE  /\ RunsKept(metadata'[s], MetadataWait(s)')
                    /\ RunsBounded(metadata'[s], Cardinality(Worker))
                    /\ \A n \in Tech : /\ RunsKept(log'[s][n], LogWait(s, n)')
                                       /\ RunsBounded(log'[s][n], Cardinality(Worker))
  BY DEF RunsInv, RunsKept, RunsBounded
<1>1. /\ MetadataWait(s) \in [Metadata -> SUBSET Worker] /\ MetadataWait(s)' \in [Metadata -> SUBSET Worker]
      /\ \A n \in Tech : /\ LogWait(s, n) \in [EventType -> SUBSET Worker]
                         /\ LogWait(s, n)' \in [EventType -> SUBSET Worker]
  BY DEF MetadataWait, LogWait
<1>2. RunsKept(metadata'[s], MetadataWait(s)') /\ RunsBounded(metadata'[s], Cardinality(Worker))
  BY <1>1, TablesExtend, LatestRows, RunsStep DEF RunsInv, MetadataExtends
<1>3. ASSUME NEW n \in Tech
      PROVE  RunsKept(log'[s][n], LogWait(s, n)') /\ RunsBounded(log'[s][n], Cardinality(Worker))
  BY <1>1, TablesExtend, LatestRows, RunsStep DEF RunsInv, LogExtends
<1> QED
  BY <1>2, <1>3

\* However many crawls of a store race, and wherever they stop, a row is
\* repeated at most once per worker (both record methods read before they insert).
THEOREM RepeatsStayBounded == Spec => []RepeatsAreBounded
<1>1. Init => RunsInv
  BY DEF Init, RunsInv, RunsKept, RunsBounded
<1>2. RunsInv => RepeatsAreBounded
  BY DEF RunsInv, RepeatsAreBounded
<1> QED
  BY <1>1, <1>2, NextRuns, TypeCorrect, PTL DEF Spec

-----------------------------------------------------------------------------
(* Every event has a usable page of its own.  The events of a name and the  *)
(* crawls that may still append one are together no more than the pages     *)
(* that call for one: each crawl brings one page and appends one event.     *)

Times(rows, T) == Cardinality({i \in DOMAIN rows : rows[i] \in T})

\* The pages that call for an event.
Shows(n, type) == {d \in SUBSET Tech : n \in d <=> type = "added"}

\* The crawls that may still append it.
Hopeful(s, n, type) ==
  {w \in Worker : /\ crawl[w].pc \in {"metadata", "metadata insert", "technologies", "technologies insert"}
                  /\ crawl[w].store = s
                  /\ crawl[w].page.detected \in Shows(n, type)}

EventsFollowPages ==
  \A w \in Worker : crawl[w].pc = "technologies insert" =>
    \A n \in Tech : crawl[w].events[n] # "none" =>
      crawl[w].page.detected \in Shows(n, crawl[w].events[n])

Witnessed(s, n, type) ==
  Times(log[s][n], {type}) + Cardinality(Hopeful(s, n, type)) <= Times(live[s], Shows(n, type))

WitnessInv ==
  /\ EventsFollowPages
  /\ \A s \in Store, n \in Tech, type \in EventType : Witnessed(s, n, type)

LEMMA TimesType ==
  ASSUME NEW X, NEW rows \in Seq(X), NEW T
  PROVE  /\ IsFiniteSet({i \in DOMAIN rows : rows[i] \in T})
         /\ Times(rows, T) \in Nat
<1>1. PICK n \in Nat : DOMAIN rows = 1..n
  OBVIOUS
<1>2. IsFiniteSet(1..n)
  BY FS_Interval
<1>3. {i \in DOMAIN rows : rows[i] \in T} \in SUBSET (1..n)
  BY <1>1
<1> QED
  BY <1>2, <1>3, FS_Subset, FS_CardinalityType DEF Times

LEMMA TimesAppend ==
  ASSUME NEW X, NEW rows \in Seq(X), NEW x \in X, NEW T
  PROVE  Times(Append(rows, x), T) = Times(rows, T) + (IF x \in T THEN 1 ELSE 0)
<1>1. PICK n \in Nat : n = Len(rows) /\ DOMAIN rows = 1..n
  OBVIOUS
<1>2. PICK more : more = Append(rows, x)
  OBVIOUS
<1>3. DOMAIN more = 1..(n + 1) /\ more[n + 1] = x /\ \A i \in 1..n : more[i] = rows[i]
  BY <1>1, <1>2
<1>4. PICK old : old = {i \in DOMAIN rows : rows[i] \in T}
  OBVIOUS
<1>5. IsFiniteSet(old) /\ Times(rows, T) = Cardinality(old) /\ Cardinality(old) \in Nat /\ n + 1 \notin old
  <2>1. IsFiniteSet(old) /\ Times(rows, T) = Cardinality(old) /\ Times(rows, T) \in Nat
    BY <1>4, TimesType DEF Times
  <2>2. n + 1 \notin old
    BY <1>1, <1>4
  <2> QED
    BY <2>1, <2>2
<1>6. CASE x \in T
  <2>1. {i \in DOMAIN more : more[i] \in T} = old \cup {n + 1}
    BY <1>1, <1>3, <1>4, <1>6
  <2>2. Cardinality(old \cup {n + 1}) = Cardinality(old) + 1
    BY <1>5, FS_AddElement
  <2>3. Times(more, T) = Cardinality(old) + 1
    BY <2>1, <2>2 DEF Times
  <2> QED
    BY <1>2, <1>5, <1>6, <2>3
<1>7. CASE x \notin T
  <2>1. {i \in DOMAIN more : more[i] \in T} = old
    BY <1>1, <1>3, <1>4, <1>7
  <2>2. Times(more, T) = Cardinality(old)
    BY <2>1 DEF Times
  <2> QED
    BY <1>2, <1>5, <1>7, <2>2
<1> QED
  BY <1>6, <1>7

LEMMA WitnessTypes ==
  ASSUME TypeOK, NEW s \in Store, NEW n \in Tech, NEW type \in EventType
  PROVE  /\ Times(log[s][n], {type}) \in Nat
         /\ Times(live[s], Shows(n, type)) \in Nat
         /\ Hopeful(s, n, type) \in SUBSET Worker
         /\ Cardinality(Hopeful(s, n, type)) \in Nat
<1>1. log[s][n] \in Seq(EventType) /\ live[s] \in Seq(SUBSET Tech) /\ Hopeful(s, n, type) \in SUBSET Worker
  BY DEF TypeOK, Hopeful
<1> QED
  BY <1>1, TimesType, FiniteWorkers

\* A step that touches neither history, and brings no crawl.
LEMMA HopeStays ==
  ASSUME TypeOK, NEW s \in Store, NEW n \in Tech, NEW type \in EventType, Witnessed(s, n, type),
         log'[s][n] = log[s][n], live'[s] = live[s],
         NEW w \in Worker, \A v \in Worker \ {w} : crawl'[v] = crawl[v],
         w \in Hopeful(s, n, type)' => w \in Hopeful(s, n, type)
  PROVE  Witnessed(s, n, type)'
<1>1. PICK old, new : old = Hopeful(s, n, type) /\ new = Hopeful(s, n, type)'
  OBVIOUS
<1>2. new \subseteq old /\ old \in SUBSET Worker
  <2>1. \A v \in Worker \ {w} : v \in new => v \in old
    BY <1>1 DEF Hopeful, Shows
  <2>2. old \subseteq Worker /\ new \subseteq Worker
    BY <1>1 DEF Hopeful
  <2> QED
    BY <1>1, <2>1, <2>2
<1>3. Cardinality(new) <= Cardinality(old) /\ Cardinality(new) \in Nat /\ Cardinality(old) \in Nat
  BY <1>2, FiniteWorkers, FS_Subset
<1>4. PICK a, b \in Nat : a = Times(log[s][n], {type}) /\ b = Times(live[s], Shows(n, type))
  BY WitnessTypes
<1>5. a + Cardinality(old) <= b
  BY <1>1, <1>4 DEF Witnessed
<1>6. a + Cardinality(new) <= b
  BY <1>3, <1>5
<1>7. Times(log[s][n], {type})' = a /\ Times(live[s], Shows(n, type))' = b
  BY <1>4 DEF Times, Shows
<1> QED
  BY <1>1, <1>6, <1>7 DEF Witnessed

\* A usable page comes with the crawl that looks at it.
LEMMA AttemptIsWitnessed ==
  ASSUME TypeOK, NEW s \in Store, NEW n \in Tech, NEW type \in EventType, Witnessed(s, n, type),
         NEW w \in Worker, NEW page \in Response, At(w, "idle"),
         crawl' = [crawl EXCEPT ![w] = [pc |-> "metadata", store |-> s, page |-> page,
                                        events |-> NoEvents, pending |-> {}]],
         live' = [live EXCEPT ![s] = Append(@, page.detected)], log' = log
  PROVE  Witnessed(s, n, type)'
<1>1. page.detected \in SUBSET Tech /\ live[s] \in Seq(SUBSET Tech)
  BY StoreCrawlAssumption DEF TypeOK
<1>2. live'[s] = Append(live[s], page.detected)
  BY DEF TypeOK
<1>3. PICK T : T = Shows(n, type)
  OBVIOUS
<1>4. Times(live'[s], T) = Times(live[s], T) + (IF page.detected \in T THEN 1 ELSE 0)
  BY <1>1, <1>2, TimesAppend
<1>5. PICK old, new : old = Hopeful(s, n, type) /\ new = Hopeful(s, n, type)'
  OBVIOUS
<1>6. PICK c : c = [pc |-> "metadata", store |-> s, page |-> page, events |-> NoEvents, pending |-> {}]
  OBVIOUS
<1>7. c.pc = "metadata" /\ c.store = s /\ c.page = page /\ crawl' = [crawl EXCEPT ![w] = c]
  BY <1>6
<1>8. \A v \in Worker : crawl'[v] = IF v = w THEN c ELSE crawl[v]
  BY <1>7 DEF TypeOK
<1>9. new = IF page.detected \in T THEN old \cup {w} ELSE old
  <2>1. w \notin old
    BY <1>5 DEF Hopeful, At
  <2>2. \A v \in Worker \ {w} : v \in new <=> v \in old
    BY <1>5, <1>8 DEF Hopeful, Shows
  <2>3. w \in new <=> page.detected \in T
    <3>1. w \in new <=> /\ crawl'[w].pc \in {"metadata", "metadata insert", "technologies", "technologies insert"}
                       /\ crawl'[w].store = s
                       /\ crawl'[w].page.detected \in T
      BY <1>3, <1>5 DEF Hopeful, Shows
    <3> QED
      BY <1>7, <1>8, <3>1
  <2>4. old \subseteq Worker /\ new \subseteq Worker
    BY <1>5 DEF Hopeful
  <2>5. CASE page.detected \in T
    <3>1. new = old \cup {w}
      BY <2>2, <2>3, <2>4, <2>5
    <3> QED
      BY <2>5, <3>1
  <2>6. CASE page.detected \notin T
    <3>1. \A v \in Worker : v \in new <=> v \in old
      BY <2>1, <2>2, <2>3, <2>6
    <3>2. new = old
      BY <2>4, <3>1
    <3> QED
      BY <2>6, <3>2
  <2> QED
    BY <2>5, <2>6
<1>10. IsFiniteSet(old) /\ Cardinality(old) \in Nat /\ w \notin old
  BY <1>5, WitnessTypes, FiniteWorkers DEF Hopeful, At
<1>11. Cardinality(new) = Cardinality(old) + (IF page.detected \in T THEN 1 ELSE 0)
  <2>1. Cardinality(old \cup {w}) = Cardinality(old) + 1
    BY <1>10, FS_AddElement
  <2> QED
    BY <1>9, <1>10, <2>1
<1>12. PICK a, b \in Nat : a = Times(log[s][n], {type}) /\ b = Times(live[s], T)
  BY <1>3, WitnessTypes
<1>13. a + Cardinality(old) <= b
  BY <1>3, <1>5, <1>12 DEF Witnessed
<1>14. a + Cardinality(new) <= Times(live'[s], T)
  BY <1>4, <1>10, <1>11, <1>12, <1>13
<1>15. Times(log[s][n], {type})' = a /\ Times(live[s], Shows(n, type))' = Times(live'[s], T)
  BY <1>3, <1>12 DEF Times, Shows
<1> QED
  BY <1>5, <1>14, <1>15 DEF Witnessed

\* An event takes the place of the crawl that appends it.
LEMMA InsertIsWitnessed ==
  ASSUME TypeOK, EventsFollowPages, NEW s \in Store, NEW n \in Tech, NEW type \in EventType,
         Witnessed(s, n, type), NEW w \in Worker, InsertTechnologies(w)
  PROVE  Witnessed(s, n, type)'
<1>1. crawl[w] \in Crawling /\ crawl[w].pc = "technologies insert"
  BY BusyCrawl DEF InsertTechnologies, At, Busy
<1>2. PICK t, events : t = crawl[w].store /\ events = crawl[w].events
  OBVIOUS
<1>3. t \in Store /\ events \in [Tech -> EventType \cup {"none"}]
  BY <1>1, <1>2 DEF Crawling
<1>4. /\ log' = [log EXCEPT ![t] = Appended(t, events)] /\ live' = live
      /\ crawl'[w].pc = "publishing" /\ \A v \in Worker \ {w} : crawl'[v] = crawl[v]
  BY <1>1, <1>2 DEF InsertTechnologies, TypeOK, Crawling
<1>5. w \notin Hopeful(s, n, type)'
  BY <1>4 DEF Hopeful
<1>6. ASSUME ~(s = t /\ events[n] # "none")
      PROVE  Witnessed(s, n, type)'
  <2>1. log'[s][n] = log[s][n]
    BY <1>3, <1>4, <1>6 DEF TypeOK, Appended
  <2> QED
    BY <1>4, <1>5, <2>1, HopeStays
<1>7. ASSUME s = t, events[n] # "none"
      PROVE  Witnessed(s, n, type)'
  <2>1. events[n] \in EventType /\ log[s][n] \in Seq(EventType)
        /\ log'[s][n] = Append(log[s][n], events[n])
    BY <1>3, <1>4, <1>7 DEF TypeOK, Appended
  <2>2. Times(log'[s][n], {type}) = Times(log[s][n], {type}) + (IF events[n] = type THEN 1 ELSE 0)
    BY <2>1, TimesAppend
  <2>3. PICK old, new : old = Hopeful(s, n, type) /\ new = Hopeful(s, n, type)'
    OBVIOUS
  <2>4. old \in SUBSET Worker /\ new \in SUBSET (old \ {w})
    <3>1. \A v \in Worker \ {w} : v \in new => v \in old
      BY <1>4, <2>3 DEF Hopeful, Shows
    <3>2. old \subseteq Worker /\ new \subseteq Worker
      BY <2>3 DEF Hopeful
    <3> QED
      BY <1>5, <2>3, <3>1, <3>2
  <2>5. events[n] = type => w \in old
    BY <1>1, <1>2, <1>7, <2>3 DEF EventsFollowPages, Hopeful
  <2>6. Cardinality(new) + (IF events[n] = type THEN 1 ELSE 0) <= Cardinality(old)
        /\ Cardinality(new) \in Nat /\ Cardinality(old) \in Nat
    <3>1. IsFiniteSet(old) /\ new \in SUBSET Worker
      BY <2>4, FiniteWorkers
    <3>2. Cardinality(new) <= Cardinality(old) /\ Cardinality(new) \in Nat /\ Cardinality(old) \in Nat
      BY <2>4, <3>1, FiniteWorkers, FS_Subset
    <3> QED
      BY <2>4, <2>5, <3>2, FewerWorkers
  <2>7. PICK a, b \in Nat : a = Times(log[s][n], {type}) /\ b = Times(live[s], Shows(n, type))
    BY WitnessTypes
  <2>8. a + Cardinality(old) <= b
    BY <2>3, <2>7 DEF Witnessed
  <2>9. Times(log'[s][n], {type}) + Cardinality(new) <= b
    BY <2>2, <2>6, <2>7, <2>8
  <2>10. Times(log[s][n], {type})' = Times(log'[s][n], {type}) /\ Times(live[s], Shows(n, type))' = b
    BY <1>4, <2>7 DEF Times, Shows
  <2> QED
    BY <2>3, <2>9, <2>10 DEF Witnessed
<1> QED
  BY <1>6, <1>7

LEMMA NextWitnessed ==
  ASSUME TypeOK, WitnessInv, [Next]_vars
  PROVE  WitnessInv'
<1>0. EventsFollowPages /\ \A s \in Store, n \in Tech, type \in EventType : Witnessed(s, n, type)
  BY DEF WitnessInv
<1>1. ASSUME NEW w \in Worker, \A v \in Worker \ {w} : crawl'[v] = crawl[v],
             crawl'[w].pc = "technologies insert" => crawl'[w] = crawl[w]
      PROVE  EventsFollowPages'
  <2>1. \A v \in Worker : crawl'[v].pc = "technologies insert" => crawl'[v] = crawl[v]
    BY <1>1
  <2>2. ASSUME NEW v \in Worker, crawl'[v].pc = "technologies insert", NEW n \in Tech,
               crawl'[v].events[n] # "none"
        PROVE  crawl'[v].page.detected \in Shows(n, crawl'[v].events[n])
    BY <1>0, <2>1, <2>2 DEF EventsFollowPages
  <2> QED
    BY <2>2 DEF EventsFollowPages, Shows
<1>2. ASSUME NEW w \in Worker, log' = log, live' = live, \A v \in Worker \ {w} : crawl'[v] = crawl[v],
             \/ crawl'[w].pc \in {"idle", "publishing"}
             \/ /\ crawl[w].pc \in {"metadata", "metadata insert", "technologies"}
                /\ crawl'[w].store = crawl[w].store /\ crawl'[w].page = crawl[w].page
      PROVE  \A s \in Store, n \in Tech, type \in EventType : Witnessed(s, n, type)'
  <2> SUFFICES ASSUME NEW s \in Store, NEW n \in Tech, NEW type \in EventType
               PROVE  Witnessed(s, n, type)'
    OBVIOUS
  <2>1. w \in Hopeful(s, n, type)' => w \in Hopeful(s, n, type)
    BY <1>2 DEF Hopeful, Shows
  <2> QED
    BY <1>0, <1>2, <2>1, HopeStays
<1>10. ASSUME UNCHANGED <<crawl, live, log>>
       PROVE  WitnessInv'
  <2>1. EventsFollowPages'
    <3>1. EventsFollowPages' <=> EventsFollowPages
      BY <1>10 DEF EventsFollowPages, Shows
    <3> QED
      BY <1>0, <3>1
  <2>2. ASSUME NEW s \in Store, NEW n \in Tech, NEW type \in EventType
        PROVE  Witnessed(s, n, type)'
    <3>1. Hopeful(s, n, type)' = Hopeful(s, n, type)
      BY <1>10 DEF Hopeful, Shows
    <3>2. Times(log[s][n], {type})' = Times(log[s][n], {type})
          /\ Times(live[s], Shows(n, type))' = Times(live[s], Shows(n, type))
      BY <1>10 DEF Times, Shows
    <3> QED
      BY <1>0, <3>1, <3>2 DEF Witnessed
  <2> QED
    BY <2>1, <2>2 DEF WitnessInv
<1>3. ASSUME NEW w \in Worker, NEW t \in Store, NEW page \in Page, Attempt(w, t, page)
      PROVE  WitnessInv'
  <2>1. /\ log' = log /\ At(w, "idle") /\ \A v \in Worker \ {w} : crawl'[v] = crawl[v]
    BY <1>3 DEF Attempt, TypeOK
  <2>2. CASE statusFor(page) = "active"
    <3>1. page \in Response
      BY <2>2, StatusOfPage
    <3>2. crawl' = [crawl EXCEPT ![w] = [pc |-> "metadata", store |-> t, page |-> page,
                                         events |-> NoEvents, pending |-> {}]]
          /\ live' = [live EXCEPT ![t] = Append(@, page.detected)]
      BY <1>3, <2>2 DEF Attempt
    <3>3. crawl'[w].pc = "metadata" /\ crawl'[w].store = t
      BY <3>2 DEF TypeOK
    <3>4. ASSUME NEW s \in Store, NEW n \in Tech, NEW type \in EventType
          PROVE  Witnessed(s, n, type)'
      <4>1. CASE s = t
        BY <1>0, <2>1, <3>1, <3>2, <4>1, AttemptIsWitnessed
      <4>2. CASE s # t
        <5>1. live'[s] = live[s] /\ w \notin Hopeful(s, n, type)'
          BY <3>2, <3>3, <4>2 DEF TypeOK, Hopeful
        <5> QED
          BY <1>0, <2>1, <5>1, HopeStays
      <4> QED
        BY <4>1, <4>2
    <3> QED
      BY <1>1, <2>1, <3>3, <3>4 DEF WitnessInv
  <2>3. CASE statusFor(page) # "active"
    BY <1>3, <1>10, <2>3 DEF Attempt
  <2> QED
    BY <2>2, <2>3
<1>4. ASSUME NEW w \in Worker, ReadMetadata(w) \/ InsertMetadata(w)
      PROVE  WitnessInv'
  <2>1. crawl[w] \in Crawling /\ crawl[w].pc \in {"metadata", "metadata insert"}
    BY <1>4, BusyCrawl DEF ReadMetadata, InsertMetadata, At, Busy
  <2>2. PICK pc \in {"metadata insert", "technologies"} : crawl' = [crawl EXCEPT ![w].pc = pc]
    BY <1>4 DEF ReadMetadata, InsertMetadata
  <2>3. /\ crawl'[w].pc = pc /\ crawl'[w].store = crawl[w].store /\ crawl'[w].page = crawl[w].page
        /\ \A v \in Worker \ {w} : crawl'[v] = crawl[v]
    BY <2>1, <2>2 DEF TypeOK, Crawling
  <2>4. log' = log /\ live' = live
    BY <1>4 DEF ReadMetadata, InsertMetadata
  <2> QED
    BY <1>1, <1>2, <2>1, <2>3, <2>4 DEF WitnessInv
<1>5. ASSUME NEW w \in Worker, ReadTechnologies(w)
      PROVE  WitnessInv'
  <2>1. crawl[w] \in Crawling /\ crawl[w].pc = "technologies"
    BY <1>5, BusyCrawl DEF ReadTechnologies, At, Busy
  <2>2. PICK pc, events, detected :
          /\ detected = crawl[w].page.detected
          /\ events = Diff(crawl[w].store, detected)
          /\ pc = IF events = NoEvents THEN "publishing" ELSE "technologies insert"
    OBVIOUS
  <2>3. crawl' = [crawl EXCEPT ![w] = [crawl[w] EXCEPT !.pc = pc, !.events = events]]
    BY <1>5, <2>2 DEF ReadTechnologies
  <2>4. /\ crawl'[w].pc = pc /\ crawl'[w].events = events
        /\ crawl'[w].store = crawl[w].store /\ crawl'[w].page = crawl[w].page
        /\ \A v \in Worker \ {w} : crawl'[v] = crawl[v]
    BY <2>1, <2>2, <2>3 DEF TypeOK, Crawling
  <2>5. log' = log /\ live' = live
    BY <1>5 DEF ReadTechnologies
  <2>6. detected \in SUBSET Tech
    BY <2>1, <2>2, StoreCrawlAssumption DEF Crawling
  <2>7. \A n \in Tech : events[n] # "none" => detected \in Shows(n, events[n])
    BY <2>2, <2>6 DEF Diff, Shows
  <2>8. EventsFollowPages'
    <3> SUFFICES ASSUME NEW v \in Worker, crawl'[v].pc = "technologies insert", NEW n \in Tech,
                        crawl'[v].events[n] # "none"
                 PROVE  crawl'[v].page.detected \in Shows(n, crawl'[v].events[n])
      BY DEF EventsFollowPages, Shows
    <3>1. CASE v = w
      BY <2>2, <2>4, <2>7, <3>1
    <3>2. CASE v # w
      BY <1>0, <2>4, <3>2 DEF EventsFollowPages
    <3> QED
      BY <3>1, <3>2
  <2> QED
    BY <1>2, <2>1, <2>4, <2>5, <2>8 DEF WitnessInv
<1>6. ASSUME NEW w \in Worker, InsertTechnologies(w)
      PROVE  WitnessInv'
  <2>1. crawl[w] \in Crawling
    BY <1>6, BusyCrawl DEF InsertTechnologies, At, Busy
  <2>2. crawl'[w].pc = "publishing" /\ \A v \in Worker \ {w} : crawl'[v] = crawl[v]
    BY <1>6, <2>1 DEF InsertTechnologies, TypeOK, Crawling
  <2> QED
    BY <1>0, <1>1, <1>6, <2>2, InsertIsWitnessed DEF WitnessInv
<1>7. ASSUME NEW w \in Worker, PublishEvent(w)
      PROVE  WitnessInv'
  <2>1. crawl[w] \in Crawling /\ crawl[w].pc = "publishing"
    BY <1>7, BusyCrawl DEF PublishEvent, At, Busy
  <2>2. PICK left : crawl' = [crawl EXCEPT ![w].pending = left]
    BY <1>7 DEF PublishEvent
  <2>3. crawl'[w].pc = "publishing" /\ \A v \in Worker \ {w} : crawl'[v] = crawl[v]
    BY <2>1, <2>2 DEF TypeOK, Crawling
  <2>4. log' = log /\ live' = live
    BY <1>7 DEF PublishEvent
  <2> QED
    BY <1>1, <1>2, <2>3, <2>4 DEF WitnessInv
<1>8. ASSUME NEW w \in Worker, Finish(w) \/ Abort(w)
      PROVE  WitnessInv'
  <2>1. crawl'[w].pc = "idle" /\ (\A v \in Worker \ {w} : crawl'[v] = crawl[v])
        /\ log' = log /\ live' = live
    BY <1>8 DEF Finish, Abort, TypeOK, Idle
  <2> QED
    BY <1>1, <1>2, <2>1 DEF WitnessInv
<1>9. CASE UNCHANGED vars
  BY <1>9, <1>10 DEF vars
<1> QED
  BY <1>3, <1>4, <1>5, <1>6, <1>7, <1>8, <1>9 DEF Next, Step

\* Every event is owed to a usable page of its own, for any racing crawls: a
\* dead, blocked or failed page never makes a technology disappear.
THEOREM EventsStayWitnessed == Spec => []EventsAreWitnessed
<1>1. Init => WitnessInv
  <2> SUFFICES ASSUME Init
               PROVE  WitnessInv
    OBVIOUS
  <2>1. EventsFollowPages /\ \A s \in Store, n \in Tech, type \in EventType : Hopeful(s, n, type) = {}
    BY DEF Init, Idle, EventsFollowPages, Hopeful
  <2>2. ASSUME NEW s \in Store, NEW n \in Tech, NEW type \in EventType
        PROVE  Witnessed(s, n, type)
    <3>1. {i \in DOMAIN log[s][n] : log[s][n][i] \in {type}} = {}
      BY DEF Init
    <3>2. {i \in DOMAIN live[s] : live[s][i] \in Shows(n, type)} = {}
      BY DEF Init
    <3> QED
      BY <2>1, <3>1, <3>2, FS_EmptySet DEF Witnessed, Times
  <2> QED
    BY <2>1, <2>2 DEF WitnessInv
<1>2. TypeOK /\ WitnessInv => EventsAreWitnessed
  <2> SUFFICES ASSUME TypeOK, WitnessInv, NEW s \in Store, NEW n \in Tech
               PROVE  LET count(type) == Cardinality({i \in DOMAIN log[s][n] : log[s][n][i] = type})
                          showing == {i \in DOMAIN live[s] : n \in live[s][i]}
                      IN  /\ count("added") <= Cardinality(showing)
                          /\ count("removed") <= Cardinality(DOMAIN live[s] \ showing)
    BY DEF EventsAreWitnessed
  <2>1. \A type \in EventType : Times(log[s][n], {type}) <= Times(live[s], Shows(n, type))
    <3> SUFFICES ASSUME NEW type \in EventType
                 PROVE  Times(log[s][n], {type}) <= Times(live[s], Shows(n, type))
      OBVIOUS
    <3>1. PICK a, b, c \in Nat : /\ a = Times(log[s][n], {type})
                                 /\ b = Times(live[s], Shows(n, type))
                                 /\ c = Cardinality(Hopeful(s, n, type))
      BY WitnessTypes
    <3>2. a + c <= b
      BY <3>1 DEF WitnessInv, Witnessed
    <3> QED
      BY <3>1, <3>2
  <2>2. \A i \in DOMAIN live[s] : live[s][i] \in SUBSET Tech
    BY DEF TypeOK
  <2>3. {i \in DOMAIN live[s] : live[s][i] \in Shows(n, "added")} = {i \in DOMAIN live[s] : n \in live[s][i]}
    BY <2>2 DEF Shows
  <2>4. {i \in DOMAIN live[s] : live[s][i] \in Shows(n, "removed")}
          = DOMAIN live[s] \ {i \in DOMAIN live[s] : n \in live[s][i]}
    BY <2>2 DEF Shows
  <2>5. \A type : {i \in DOMAIN log[s][n] : log[s][n][i] = type}
                    = {i \in DOMAIN log[s][n] : log[s][n][i] \in {type}}
    OBVIOUS
  <2>6. "added" \in EventType /\ "removed" \in EventType
    BY DEF EventType
  <2> QED
    BY <2>1, <2>3, <2>4, <2>5, <2>6 DEF Times
<1> QED
  BY <1>1, <1>2, NextWitnessed, TypeCorrect, PTL DEF Spec
=============================================================================
