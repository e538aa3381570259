------------------------- MODULE TenderIntakeProofs -------------------------
(***************************************************************************)
(* Proofs about TenderIntake for any workers, mails and workbooks, any     *)
(* number of deliveries and deaths, and whatever may fail: its types, that *)
(* orders are imported and tenders started once, that a tender without a   *)
(* run is accounted for, that a mail brings its own locations first, and   *)
(* that the tenders cut from a workbook are those that its rows complete.  *)
(***************************************************************************)
EXTENDS TenderIntake, FiniteSetTheorems, SequenceTheorems, WellFoundedInduction, TLAPS

\* The records at hand: what a worker is at, the rows of the tables.
Works ==
  [at : Stages, mail : Mails \cup {Unset}, try : 1..FetchAttempts, found : Nat, since : Nat,
   import : Nat, from : Mails \cup {NoPlaces}, ids : Seq(Nat), row : Nat]
PlaceRows == [mail : Mails, since : Nat, done : Nat]
TenderRows ==
  {TenderOf(ProjectedRows[m], h, from, import) :
     m \in DOMAIN ProjectedRows, h \in Nat, from \in Mails \cup {NoPlaces}, import \in Nat}

Shape ==
  /\ {delivered, inbox, failed} \subseteq [Mails -> Nat]
  /\ \A m \in Mails : delivered[m] <= MaxDeliveries[m]
  /\ broker \subseteq Mails
  /\ work \in [Workers -> Works]
  /\ clock \in Nat
  /\ places \in Seq(PlaceRows) /\ imports \in Seq(Mails) /\ tenders \in Seq(TenderRows)
  /\ lifecycles \subseteq 1..Len(tenders)
  /\ started \in Seq(Nat) /\ Len(started) = Len(tenders)
  /\ deaths \in 0..MaxDeaths

\* Nothing refers to a row or a time that is not there.
Within(w) ==
  /\ work[w].found <= Len(places) /\ work[w].since <= clock /\ work[w].import <= Len(imports)
  /\ work[w].row <= Len(work[w].ids)
  /\ \A i \in DOMAIN work[w].ids : work[w].ids[i] <= Len(tenders)
  /\ work[w].at = "writePlaces" => work[w].since > 0

References ==
  /\ \A w \in Workers : Within(w)
  /\ \A p \in DOMAIN places : {places[p].since, places[p].done} \subseteq 1..clock
  /\ \A t \in DOMAIN tenders : tenders[t].import \in DOMAIN imports

\* A mail's item is waiting for a worker or is one worker's, or neither.
Busy(w) == work[w].at # "idle"

Turns ==
  /\ \A m \in Mails : inbox[m] > 0 => Heavy(m)
  /\ \A m \in broker : inbox[m] > 0
  /\ \A w \in Workers :
       /\ Busy(w) <=> work[w].mail # Unset
       /\ Busy(w) => inbox[work[w].mail] > 0 /\ work[w].mail \notin broker
  /\ \A v, w \in Workers : v # w /\ Busy(v) => work[v].mail # work[w].mail

\* An item fails once at most, and only the last may have failed and still be there.
Open(m) ==
  m \in broker \/ \E w \in Workers : work[w].mail = m /\ work[w].at # "complete"

Tally ==
  \A m \in Mails :
    /\ inbox[m] <= delivered[m] /\ failed[m] + inbox[m] <= delivered[m] + 1
    /\ inbox[m] = 0 \/ Open(m) => failed[m] + inbox[m] <= delivered[m]

\* How far the orders have come: they are there to be read, are not recorded before
\* they are fetched, and are recorded by the mail's worker from then on.
OfOrders == {"seek", "fetch", "record", "project", "index", "persist"}

Traced(w) ==
  /\ work[w].at \in OfOrders => OrdersBook(work[w].mail) # Unset
  /\ work[w].at \in {"fetch", "record"} => ImportsOf(work[w].mail) = {}
  /\ work[w].at \in {"project", "index", "persist", "start", "queue"} =>
       work[w].import \in DOMAIN imports /\ imports[work[w].import] = work[w].mail

Recorded == IsInjective(imports) /\ \A w \in Workers : Traced(w)

\* The tenders that a worker is starting are its mail's, and those to come have no run.
Starting(w) == work[w].at \in {"start", "queue"}
Batch(w) == ToSet(work[w].ids) \ {0}

Batched(w) ==
  /\ ~Starting(w) => work[w].row = 0
  /\ Starting(w) =>
       /\ \A t \in Batch(w) : imports[tenders[t].import] = work[w].mail
       /\ \A i \in RowsToStart(w) : started[work[w].ids[i]] = 0
  /\ work[w].at = "queue" =>
       /\ work[w].row \in DOMAIN work[w].ids /\ work[w].ids[work[w].row] # 0
       /\ started[work[w].ids[work[w].row]] = 0
       /\ work[w].ids[work[w].row] \in lifecycles

Apart(v, w) == Starting(v) /\ Starting(w) => Batch(v) \cap Batch(w) = {}

Batches == (\A w \in Workers : Batched(w)) /\ \A v, w \in Workers : v # w => Apart(v, w)

Inv == Shape /\ References /\ Turns /\ Tally /\ Recorded /\ Batches /\ StartedOnce
-----------------------------------------------------------------------------
(* What is cut from the rows of a workbook.                                *)

(* A set of positions that is not empty has a least one.                    *)
LEMMA LeastOf ==
  ASSUME NEW S \in SUBSET Nat, S # {}
  PROVE  \E n \in S : \A m \in S : n <= m
<1> DEFINE Less == {p \in Nat \X Nat : p[1] < p[2]}
<1>1. OpToRel(<, Nat) = Less
  BY DEF OpToRel
<1>2. IsWellFoundedOn(Less, Nat)
  BY <1>1, NatLessThanWellFounded
<1> HIDE DEF Less
<1>3. PICK n \in S : \A m \in S : ~(<<m, n>> \in Less)
  BY <1>2, WFMin
<1>4. \A m \in S : ~(m < n)
  BY <1>3 DEF Less
<1>5. QED
  BY <1>4

(* The headers are some of the usable rows, and there are finitely many.    *)
LEMMA HeadersFinite ==
  ASSUME NEW T, NEW rows \in Seq(T)
  PROVE  /\ DOMAIN rows = 1..Len(rows) /\ Len(rows) \in Nat
         /\ Usable(rows) \subseteq DOMAIN rows /\ Headers(rows) \subseteq Usable(rows)
         /\ IsFiniteSet(Headers(rows)) /\ Cardinality(Headers(rows)) \in Nat
<1>1. DOMAIN rows = 1..Len(rows) /\ Len(rows) \in Nat
  BY LenProperties
<1>2. Usable(rows) \subseteq DOMAIN rows /\ Headers(rows) \subseteq Usable(rows)
  BY Zenon DEF Usable, Kept, Headers
<1>3. IsFiniteSet(Headers(rows)) /\ Cardinality(Headers(rows)) \in Nat
  <2>1. IsFiniteSet(1..Len(rows))
    BY <1>1, FS_Interval
  <2>2. Headers(rows) \in SUBSET (1..Len(rows))
    BY <1>1, <1>2
  <2>3. IsFiniteSet(Headers(rows))
    BY <2>1, <2>2, FS_Subset
  <2>4. QED
    BY <2>3, FS_CardinalityType
<1>4. QED
  BY <1>1, <1>2, <1>3

(* A usable row has one header: the first usable row of its order.          *)
LEMMA HeaderKnown ==
  ASSUME NEW T, NEW rows \in Seq(T), NEW i \in Usable(rows)
  PROVE  /\ HeaderFor(rows, i) \in Headers(rows)
         /\ Identifier(rows[HeaderFor(rows, i)].order) = Identifier(rows[i].order)
         /\ HeaderFor(rows, i) <= i
<1> DEFINE order(j) == Identifier(rows[j].order)
           mine == {j \in Usable(rows) : order(j) = order(i)}
<1>1. Usable(rows) \subseteq Nat
  BY HeadersFinite
<1>2. mine \in SUBSET Nat /\ mine # {}
  BY <1>1
<1>3. PICK h \in mine : \A j \in mine : h <= j
  BY <1>2, LeastOf
<1>4. h \in Headers(rows)
  BY <1>1, <1>3 DEF Headers
<1>5. \E g \in Headers(rows) : Identifier(rows[g].order) = Identifier(rows[i].order)
  BY <1>3, <1>4
<1>6. /\ HeaderFor(rows, i) \in Headers(rows)
      /\ Identifier(rows[HeaderFor(rows, i)].order) = Identifier(rows[i].order)
  BY <1>5, Zenon DEF HeaderFor
<1>7. HeaderFor(rows, i) <= i
  <2>1. ~(i < HeaderFor(rows, i))
    BY <1>6 DEF Headers
  <2>2. HeaderFor(rows, i) \in Nat /\ i \in Nat
    BY <1>1, <1>6, HeadersFinite
  <2>3. QED
    BY <2>1, <2>2
<1>8. QED
  BY <1>6, <1>7

(* The places in the batch are those from 1 to the number of headers, each  *)
(* of them one header's.                                                    *)
LEMMA BatchPlaces ==
  ASSUME NEW T, NEW rows \in Seq(T)
  PROVE  /\ \A h \in Headers(rows) : BatchPlace(rows, h) \in 1..Cardinality(Headers(rows))
         /\ \A g, h \in Headers(rows) : BatchPlace(rows, g) = BatchPlace(rows, h) => g = h
         /\ \A k \in 1..Cardinality(Headers(rows)) :
              \E h \in Headers(rows) : BatchPlace(rows, h) = k
<1> DEFINE H == Headers(rows)
           n == Cardinality(H)
           upTo(h) == {g \in H : g <= h}
           f == [h \in H |-> BatchPlace(rows, h)]
<1>1. H \subseteq Nat /\ IsFiniteSet(H) /\ n \in Nat
  BY HeadersFinite
<1>2. \A h \in H : BatchPlace(rows, h) = Cardinality(upTo(h))
  BY DEF BatchPlace
<1> HIDE DEF n, H
<1>3. \A h \in H : IsFiniteSet(upTo(h)) /\ Cardinality(upTo(h)) \in 1..n
  <2>1. SUFFICES ASSUME NEW h \in H
                 PROVE  IsFiniteSet(upTo(h)) /\ Cardinality(upTo(h)) \in 1..n
    OBVIOUS
  <2>2. IsFiniteSet(upTo(h)) /\ Cardinality(upTo(h)) <= n /\ Cardinality(upTo(h)) \in Nat
    BY <1>1, FS_Subset, FS_CardinalityType DEF n
  <2>3. h \in upTo(h)
    BY <1>1
  <2>4. Cardinality(upTo(h)) # 0
    BY <2>2, <2>3, FS_EmptySet
  <2>5. QED
    BY <1>1, <2>2, <2>4
<1>4. \A g, h \in H : g < h => Cardinality(upTo(g)) # Cardinality(upTo(h))
  <2>1. SUFFICES ASSUME NEW g \in H, NEW h \in H, g < h,
                        Cardinality(upTo(g)) = Cardinality(upTo(h))
                 PROVE  FALSE
    OBVIOUS
  <2>2. upTo(g) \in SUBSET upTo(h)
    <3>1. \A x \in H : x <= g => x <= h
      BY <1>1, <2>1
    <3>2. QED
      BY <3>1
  <2>3. upTo(h) = upTo(g)
    BY <1>3, <2>1, <2>2, FS_Subset
  <2>4. h \in upTo(h) /\ h \notin upTo(g)
    BY <1>1, <2>1
  <2>5. QED
    BY <2>3, <2>4
<1>5. \A g, h \in H : Cardinality(upTo(g)) = Cardinality(upTo(h)) => g = h
  BY <1>1, <1>4
<1> HIDE DEF upTo
<1>6. f \in Injection(H, 1..n)
  <2>1. f \in [H -> 1..n]
    BY <1>2, <1>3
  <2>2. \A g, h \in H : f[g] = f[h] => g = h
    BY <1>2, <1>5
  <2>3. QED
    BY <2>1, <2>2 DEF Injection, IsInjective
<1>7. IsFiniteSet(1..n) /\ Cardinality(1..n) = n
  BY <1>1, FS_Interval
<1>8. f \in Surjection(H, 1..n)
  BY <1>6, <1>7, FS_Injection DEF n
<1>9. \A k \in 1..n : \E h \in H : f[h] = k
  BY <1>8 DEF Surjection
<1>10. QED
  BY <1>2, <1>3, <1>5, <1>9 DEF n, H

(* The tender of each row: none, or one of the batch; and each tender of    *)
(* the batch is some row's.                                                 *)
LEMMA IdsMean ==
  ASSUME NEW T, NEW rows \in Seq(T), NEW n \in Nat
  PROVE  /\ TenderIds(rows, n) \in Seq(Nat) /\ DOMAIN TenderIds(rows, n) = DOMAIN rows
         /\ \A i \in DOMAIN rows :
              TenderIds(rows, n)[i] \in {0} \cup (n + 1)..(n + Cardinality(Headers(rows)))
         /\ \A t \in (n + 1)..(n + Cardinality(Headers(rows))) :
              \E i \in DOMAIN rows :
                TenderIds(rows, n)[i] = t /\ \A j \in 1..(i - 1) : TenderIds(rows, n)[j] # t
<1> DEFINE ids == TenderIds(rows, n)
           size == Cardinality(Headers(rows))
           place(i) == BatchPlace(rows, HeaderFor(rows, i))
<1>1. /\ DOMAIN rows = 1..Len(rows) /\ Len(rows) \in Nat /\ size \in Nat
      /\ Usable(rows) \subseteq DOMAIN rows /\ Headers(rows) \subseteq Usable(rows)
  BY HeadersFinite
<1>2. DOMAIN ids = DOMAIN rows
  BY DEF TenderIds
<1>3. \A i \in DOMAIN rows : ids[i] = IF i \in Usable(rows) THEN n + place(i) ELSE 0
  BY DEF TenderIds
<1>4. \A i \in Usable(rows) : place(i) \in 1..size
  BY HeaderKnown, BatchPlaces
<1> HIDE DEF ids, size, place
<1>5. \A i \in DOMAIN rows : ids[i] \in {0} \cup (n + 1)..(n + size)
  BY <1>1, <1>3, <1>4
<1>6. ids \in Seq(Nat)
  <2>1. \A i \in 1..Len(rows) : ids[i] \in Nat
    BY <1>1, <1>5
  <2>2. ids = [i \in 1..Len(rows) |-> ids[i]]
    BY <1>1, <1>2 DEF ids, TenderIds
  <2>3. QED
    BY <1>1, <2>1, <2>2, IsASeq
<1>7. ASSUME NEW t \in (n + 1)..(n + size)
      PROVE  \E i \in DOMAIN rows : ids[i] = t /\ \A j \in 1..(i - 1) : ids[j] # t
  <2>1. t - n \in 1..size
    BY <1>1
  <2>2. PICK h \in Headers(rows) : BatchPlace(rows, h) = t - n
    BY <2>1, BatchPlaces DEF size
  <2>3. HeaderFor(rows, h) = h
    <3>1. /\ HeaderFor(rows, h) \in Headers(rows) /\ HeaderFor(rows, h) <= h
          /\ Identifier(rows[HeaderFor(rows, h)].order) = Identifier(rows[h].order)
      BY <1>1, HeaderKnown
    <3>2. ~(HeaderFor(rows, h) < h)
      BY <1>1, <3>1 DEF Headers
    <3>3. QED
      BY <1>1, <3>1, <3>2
  <2>4. ids[h] = t
    BY <1>1, <1>3, <2>1, <2>2, <2>3 DEF place
  <2>5. ASSUME NEW j \in 1..(h - 1), ids[j] = t
        PROVE  FALSE
    <3>1. j \in DOMAIN rows /\ j < h /\ t # 0
      BY <1>1, <2>1
    <3>2. j \in Usable(rows) /\ n + place(j) = t
      BY <1>3, <2>5, <3>1
    <3>3. place(j) = BatchPlace(rows, h)
      BY <1>4, <2>1, <2>2, <3>2
    <3>4. /\ HeaderFor(rows, j) \in Headers(rows)
          /\ Identifier(rows[HeaderFor(rows, j)].order) = Identifier(rows[j].order)
      BY <3>2, HeaderKnown
    <3>5. HeaderFor(rows, j) = h
      BY <3>3, <3>4, BatchPlaces DEF place
    <3>6. QED
      BY <3>1, <3>2, <3>4, <3>5 DEF Headers
  <2>6. QED
    BY <1>1, <2>4, <2>5
<1>8. QED
  BY <1>2, <1>5, <1>6, <1>7 DEF ids, size

(* What is inserted is one tender for each header, of the import.           *)
LEMMA InsertedMeans ==
  ASSUME NEW m \in DOMAIN ProjectedRows, NEW from \in Mails \cup {NoPlaces}, NEW import \in Nat
  PROVE  /\ Inserted(ProjectedRows[m], from, import) \in Seq(TenderRows)
         /\ Len(Inserted(ProjectedRows[m], from, import)) = Cardinality(Headers(ProjectedRows[m]))
         /\ \A k \in 1..Cardinality(Headers(ProjectedRows[m])) :
              Inserted(ProjectedRows[m], from, import)[k].import = import
<1> DEFINE rows == ProjectedRows[m]
           size == Cardinality(Headers(rows))
           header(k) == CHOOSE h \in Headers(rows) : BatchPlace(rows, h) = k
<1>1. rows \in Seq([Columns -> STRING \X STRING])
  BY RowsAssumption
<1>2. size \in Nat /\ Headers(rows) \subseteq Nat
  BY <1>1, HeadersFinite
<1>3. Inserted(rows, from, import) = [k \in 1..size |-> TenderOf(rows, header(k), from, import)]
  BY DEF Inserted
<1>4. \A k \in 1..size : \E h \in Headers(rows) : BatchPlace(rows, h) = k
  BY <1>1, BatchPlaces
<1>5. \A k \in 1..size : header(k) \in Headers(rows)
  BY <1>4
<1> HIDE DEF rows, size, header
<1>6. \A k \in 1..size : TenderOf(rows, header(k), from, import) \in TenderRows
  <2>1. \A k \in 1..size : header(k) \in Nat
    BY <1>2, <1>5
  <2>2. \A h \in Nat : TenderOf(rows, h, from, import) \in TenderRows
    BY SMT DEF TenderRows, rows
  <2>3. QED
    BY <2>1, <2>2
<1>7. \A k \in 1..size : TenderOf(rows, header(k), from, import).import = import
  BY DEF TenderOf
<1>8. /\ Inserted(rows, from, import) \in Seq(TenderRows)
      /\ Len(Inserted(rows, from, import)) = size
  BY <1>2, <1>3, <1>6, IsASeq
<1>9. QED
  BY <1>3, <1>7, <1>8 DEF rows, size

-----------------------------------------------------------------------------
(* What each step does to the worker that takes it.                        *)

Tables == <<places, imports, tenders, lifecycles, started>>

\* A step in the middle of an item, which concerns the tables alone.
Amid(w) ==
  /\ UNCHANGED <<delivered, inbox, broker, failed, deaths>>
  /\ work' \in [Workers -> Works] /\ \A v \in Workers : v # w => work'[v] = work[v]
  /\ work'[w].mail = work[w].mail
  /\ work[w].at \notin {"idle", "failed", "complete"} /\ work'[w].at # "idle"

\* The worker gives up its item, or goes on with what it has.
Leaves(w) == work'[w].at \in {"failed", "complete"} /\ work'[w] = Begun(work[w].mail, work'[w].at)

Goes(w, at, next) ==
  /\ work[w].at = at /\ work'[w].at = next
  /\ work'[w].found = work[w].found /\ work'[w].since = work[w].since
  /\ work'[w].import = work[w].import /\ work'[w].ids = work[w].ids
  /\ work'[w].row = work[w].row

LEMMA OneWorker ==
  ASSUME Shape, NEW w \in Workers, NEW x \in Works, work' = [work EXCEPT ![w] = x]
  PROVE  /\ work' \in [Workers -> Works] /\ work'[w] = x
         /\ \A v \in Workers : v # w => work'[v] = work[v]
BY DEF Shape

(* A record stays one, whichever field gets another value of its own.       *)
LEMMA FieldsTyped ==
  ASSUME NEW r \in Works
  PROVE  /\ \A v \in Stages : [r EXCEPT !.at = v] \in Works
         /\ \A v \in 1..FetchAttempts : [r EXCEPT !.try = v] \in Works
         /\ \A v \in Nat : [r EXCEPT !.found = v] \in Works /\ [r EXCEPT !.since = v] \in Works
         /\ \A v \in Nat : [r EXCEPT !.import = v] \in Works /\ [r EXCEPT !.row = v] \in Works
         /\ \A v \in Mails \cup {NoPlaces} : [r EXCEPT !.from = v] \in Works
         /\ \A v \in Seq(Nat) : [r EXCEPT !.ids = v] \in Works
BY DEF Works

LEMMA RecordsTyped ==
  ASSUME Shape, NEW w \in Workers, NEW at \in Stages
  PROVE  /\ work[w] \in Works /\ work[w].mail \in Mails \cup {Unset}
         /\ Begun(work[w].mail, at) \in Works
         /\ [work[w] EXCEPT !.at = at] \in Works
         /\ [work[w] EXCEPT !.at = at, !.try = 1] \in Works
         /\ work[w].try < FetchAttempts => [work[w] EXCEPT !.try = work[w].try + 1] \in Works
<1>1. work[w] \in Works /\ FetchAttempts \in Nat \ {0}
  BY BoundsAssumption DEF Shape
<1>2. work[w].mail \in Mails \cup {Unset} /\ work[w].try \in 1..FetchAttempts
  BY <1>1 DEF Works
<1>3. Begun(work[w].mail, at) \in Works
  BY <1>1, <1>2 DEF Works, Begun
<1>4. [work[w] EXCEPT !.at = at] \in Works
  BY <1>1, FieldsTyped
<1>5. [work[w] EXCEPT !.at = at, !.try = 1] \in Works
  <2>0. 1 \in 1..FetchAttempts
    BY <1>1
  <2>1. \A r \in Works : [r EXCEPT !.try = 1] \in Works
    BY <2>0, FieldsTyped, Zenon
  <2>2. [[work[w] EXCEPT !.at = at] EXCEPT !.try = 1] \in Works
    BY <1>4, <2>1
  <2>3. QED
    BY <2>2
<1>6. work[w].try < FetchAttempts => [work[w] EXCEPT !.try = work[w].try + 1] \in Works
  <2>1. work[w].try < FetchAttempts => work[w].try + 1 \in 1..FetchAttempts
    BY <1>1, <1>2
  <2>2. \A v \in 1..FetchAttempts : [work[w] EXCEPT !.try = v] \in Works
    BY <1>1, FieldsTyped
  <2>3. QED
    BY <2>1, <2>2, Zenon
<1>7. QED
  BY <1>1, <1>2, <1>3, <1>4, <1>5, <1>6, Zenon

(* Ending an item and going to the next stage, as far as the worker goes.   *)
LEMMA EndMeans ==
  ASSUME Shape, NEW w \in Workers, NEW at \in {"failed", "complete"}, End(w, at)
  PROVE  /\ work' \in [Workers -> Works] /\ \A v \in Workers : v # w => work'[v] = work[v]
         /\ Leaves(w) /\ work'[w].mail = work[w].mail /\ work'[w].at = at
<1>1. Begun(work[w].mail, at) \in Works
  BY RecordsTyped DEF Stages
<1>2. work' = [work EXCEPT ![w] = Begun(work[w].mail, at)]
  BY DEF End, Shape
<1>3. /\ work' \in [Workers -> Works] /\ work'[w] = Begun(work[w].mail, at)
      /\ \A v \in Workers : v # w => work'[v] = work[v]
  BY <1>1, <1>2, OneWorker
<1>4. QED
  BY <1>3 DEF Leaves, Begun

LEMMA GotoMeans ==
  ASSUME Shape, NEW w \in Workers, NEW at \in Stages, Goto(w, at)
  PROVE  /\ work' \in [Workers -> Works] /\ \A v \in Workers : v # w => work'[v] = work[v]
         /\ Goes(w, work[w].at, at) /\ work'[w].mail = work[w].mail
<1>1. [work[w] EXCEPT !.at = at, !.try = 1] \in Works
  BY RecordsTyped
<1>2. work' = [work EXCEPT ![w] = [work[w] EXCEPT !.at = at, !.try = 1]]
  BY DEF Goto, Shape
<1>3. /\ work' \in [Workers -> Works] /\ work'[w] = [work[w] EXCEPT !.at = at, !.try = 1]
      /\ \A v \in Workers : v # w => work'[v] = work[v]
  BY <1>1, <1>2, OneWorker
<1>4. work[w] \in Works
  BY RecordsTyped DEF Stages
<1>5. QED
  BY <1>3, <1>4 DEF Goes, Works

LEMMA FetchedMeans ==
  ASSUME Shape, NEW w \in Workers, NEW next \in Stages, Fetched(w, next)
  PROVE  /\ work' \in [Workers -> Works] /\ \A v \in Workers : v # w => work'[v] = work[v]
         /\ work'[w].mail = work[w].mail
         /\ \/ Leaves(w) \/ Goes(w, work[w].at, work[w].at) \/ Goes(w, work[w].at, next)
<1>1. CASE Retry(w)
  <2>1. [work[w] EXCEPT !.try = work[w].try + 1] \in Works /\ work[w] \in Works
    BY <1>1, RecordsTyped DEF Retry, Stages
  <2>2. work' = [work EXCEPT ![w] = [work[w] EXCEPT !.try = work[w].try + 1]]
    BY <1>1 DEF Retry, Shape
  <2>3. /\ work' \in [Workers -> Works] /\ work'[w] = [work[w] EXCEPT !.try = work[w].try + 1]
        /\ \A v \in Workers : v # w => work'[v] = work[v]
    BY <2>1, <2>2, OneWorker
  <2>4. QED
    BY <2>1, <2>3 DEF Goes, Works
<1>2. CASE Fails(w)
  BY <1>2, EndMeans DEF Fails
<1>3. CASE Goto(w, next)
  BY <1>3, GotoMeans
<1>4. QED
  BY <1>1, <1>2, <1>3, Zenon DEF Fetched

(* The newest row of the locations is one of the rows.                      *)
LEMMA NewestKnown ==
  ASSUME Shape, References
  PROVE  NewestPlaces \in 0..Len(places) /\ (places # <<>> => NewestPlaces \in DOMAIN places)
<1>1. DOMAIN places = 1..Len(places) /\ Len(places) \in Nat /\ clock \in Nat
      /\ \A p \in DOMAIN places : places[p].since \in Nat /\ places[p].since <= clock
  <2>1. DOMAIN places = 1..Len(places) /\ Len(places) \in Nat /\ clock \in Nat
    BY LenProperties DEF Shape
  <2>2. \A p \in DOMAIN places : places[p].since \in 1..clock
    BY DEF References
  <2>3. QED
    BY <2>1, <2>2
<1>2. CASE places = <<>>
  BY <1>1, <1>2 DEF NewestPlaces
<1>3. CASE places # <<>>
  <2> DEFINE since(p) == places[p].since
             ages == {n \in Nat : \E p \in DOMAIN places : n = clock - since(p)}
  <2>1. 1 \in DOMAIN places
    BY <1>1, <1>3, EmptySeq DEF Shape
  <2>2. ages \in SUBSET Nat /\ ages # {}
    <3>1. clock - since(1) \in Nat
      BY <1>1, <2>1
    <3>2. QED
      BY <2>1, <3>1
  <2>3. PICK n \in ages : \A m \in ages : n <= m
    BY <2>2, LeastOf
  <2>4. PICK p \in DOMAIN places : n = clock - since(p)
    BY <2>3
  <2>5. \A q \in DOMAIN places : since(q) <= since(p)
    <3>1. SUFFICES ASSUME NEW q \in DOMAIN places
                   PROVE  since(q) <= since(p)
      OBVIOUS
    <3>2. clock - since(q) \in Nat
      BY <1>1
    <3>3. n <= clock - since(q)
      BY <2>3, <3>2
    <3>4. QED
      BY <1>1, <2>4, <3>3
  <2>6. NewestPlaces \in DOMAIN places
    BY <1>3, <2>5 DEF NewestPlaces
  <2>7. QED
    BY <1>1, <2>6
<1>4. QED
  BY <1>2, <1>3

(* The steps that change no table.                                          *)
Quiet == UNCHANGED <<clock, places, imports, tenders, lifecycles, started>>

LEMMA FetchPlacesMeans ==
  ASSUME Shape, NEW w \in Workers, FetchPlaces(w)
  PROVE  /\ Amid(w) /\ Quiet /\ work[w].at = "fetchPlaces"
         /\ \/ Leaves(w) \/ Goes(w, "fetchPlaces", "fetchPlaces")
            \/ Goes(w, "fetchPlaces", "findPlaces")
<1>1. work[w].at = "fetchPlaces" /\ Quiet /\ UNCHANGED <<delivered, inbox, broker, failed, deaths>>
  BY Zenon DEF FetchPlaces, Quiet, inVars, placeVars, runVars
<1>2. Fetched(w, "findPlaces") \/ End(w, "failed")
  BY Zenon DEF FetchPlaces, Fails
<1>3. CASE Fetched(w, "findPlaces")
  <2>1. /\ work' \in [Workers -> Works] /\ \A v \in Workers : v # w => work'[v] = work[v]
        /\ work'[w].mail = work[w].mail
        /\ \/ Leaves(w) \/ Goes(w, work[w].at, work[w].at) \/ Goes(w, work[w].at, "findPlaces")
    BY <1>3, FetchedMeans DEF Stages
  <2>2. work'[w].at # "idle"
    BY <1>1, <2>1 DEF Leaves, Goes
  <2>3. QED
    BY <1>1, <2>1, <2>2 DEF Amid
<1>4. CASE End(w, "failed")
  BY <1>1, <1>4, EndMeans DEF Amid
<1>5. QED
  BY <1>2, <1>3, <1>4

LEMMA FetchMeans ==
  ASSUME Shape, NEW w \in Workers, Fetch(w)
  PROVE  /\ Amid(w) /\ Quiet /\ work[w].at = "fetch"
         /\ Leaves(w) \/ Goes(w, "fetch", "fetch") \/ Goes(w, "fetch", "record")
<1>1. work[w].at = "fetch" /\ Quiet /\ UNCHANGED <<delivered, inbox, broker, failed, deaths>>
  BY Zenon DEF Fetch, Quiet, inVars, placeVars, runVars
<1>2. Fetched(w, "record")
  BY Zenon DEF Fetch
<1>3. /\ work' \in [Workers -> Works] /\ \A v \in Workers : v # w => work'[v] = work[v]
      /\ work'[w].mail = work[w].mail
      /\ \/ Leaves(w) \/ Goes(w, work[w].at, work[w].at) \/ Goes(w, work[w].at, "record")
  BY <1>2, FetchedMeans DEF Stages
<1>4. work'[w].at # "idle"
  BY <1>1, <1>3 DEF Leaves, Goes
<1>5. QED
  BY <1>1, <1>3, <1>4 DEF Amid

LEMMA FindPlacesMeans ==
  ASSUME Shape, References, NEW w \in Workers, FindPlaces(w)
  PROVE  /\ Amid(w) /\ UNCHANGED Tables /\ clock' = clock + 1
         /\ work[w].at = "findPlaces" /\ work'[w].at = "writePlaces"
         /\ work'[w].since = clock + 1 /\ work'[w].found = NewestPlaces
         /\ work'[w].import = work[w].import /\ work'[w].ids = work[w].ids
         /\ work'[w].row = work[w].row
<1> DEFINE x == [work[w] EXCEPT !.at = "writePlaces", !.since = clock + 1, !.found = NewestPlaces]
<1>1. /\ work[w].at = "findPlaces" /\ clock' = clock + 1
      /\ UNCHANGED <<Tables, delivered, inbox, broker, failed, deaths>>
  BY Zenon DEF FindPlaces, Tables, inVars, runVars
<1>2. work' = [work EXCEPT ![w] = x]
  BY DEF FindPlaces, Shape
<1>3. work[w] \in Works /\ clock + 1 \in Nat /\ NewestPlaces \in Nat
  <2>1. NewestPlaces \in Nat
    BY NewestKnown
  <2>2. QED
    BY <2>1 DEF Shape
<1>4. x \in Works
  <2>1. \A r \in Works : /\ [r EXCEPT !.at = "writePlaces"] \in Works
                         /\ [r EXCEPT !.since = clock + 1] \in Works
                         /\ [r EXCEPT !.found = NewestPlaces] \in Works
    BY <1>3, FieldsTyped DEF Stages
  <2>2. [[[work[w] EXCEPT !.at = "writePlaces"] EXCEPT !.since = clock + 1]
            EXCEPT !.found = NewestPlaces] \in Works
    BY <1>3, <2>1, Zenon
  <2>3. QED
    BY <2>2
<1>5. /\ work' \in [Workers -> Works] /\ work'[w] = x
      /\ \A v \in Workers : v # w => work'[v] = work[v]
  BY <1>2, <1>4, OneWorker
<1>6. QED
  BY <1>1, <1>3, <1>5 DEF Amid, Works, Tables

\* What is written to the locations: the row that was found, or a new one.
Overwritten(w, new) == [places EXCEPT ![work[w].found] = new]

LEMMA WritePlacesMeans ==
  ASSUME Shape, References, Turns, NEW w \in Workers, WritePlaces(w)
  PROVE  /\ Amid(w) /\ UNCHANGED <<imports, tenders, lifecycles, started>>
         /\ work[w].at = "writePlaces"
         /\ \/ Leaves(w) /\ clock' = clock /\ places' = places
            \/ /\ clock' = clock + 1 /\ places' \in Seq(PlaceRows) /\ Len(places) <= Len(places')
               /\ \A p \in DOMAIN places' :
                    {places'[p].since, places'[p].done} \subseteq 1..(clock + 1)
               /\ \A p \in DOMAIN places : /\ p \in DOMAIN places'
                                           /\ \/ places'[p] = places[p]
                                              \/ places'[p].done = clock + 1
               /\ \E p \in DOMAIN places' : places'[p].done = clock + 1
               /\ work'[w].at = AfterPlaces(work[w].mail) /\ work'[w].found = 0
               /\ work'[w].since = work[w].since /\ work'[w].import = work[w].import
               /\ work'[w].ids = work[w].ids /\ work'[w].row = work[w].row
<1> DEFINE new == [mail |-> work[w].mail, since |-> work[w].since, done |-> clock + 1]
           next == AfterPlaces(work[w].mail)
           x == [work[w] EXCEPT !.at = next, !.found = 0]
<1>1. /\ work[w].at = "writePlaces"
      /\ UNCHANGED <<imports, tenders, lifecycles, started>>
      /\ UNCHANGED <<delivered, inbox, broker, failed, deaths>>
  BY Zenon DEF WritePlaces, inVars, runVars
<1>2. \/ clock' = clock + 1 /\ places' = PlacesWritten(w) /\ work' = [work EXCEPT ![w] = x]
      \/ End(w, "failed") /\ clock' = clock /\ places' = places
  <2>1. \/ /\ clock' = clock + 1 /\ places' = PlacesWritten(w)
           /\ work' = [work EXCEPT ![w] = [@ EXCEPT !.at = next, !.found = 0]]
        \/ End(w, "failed") /\ clock' = clock /\ places' = places
    BY Zenon DEF WritePlaces, Fails, placeVars
  <2>2. QED
    BY <2>1 DEF Shape
<1>3. CASE End(w, "failed") /\ clock' = clock /\ places' = places
  BY <1>1, <1>3, EndMeans DEF Amid
<1>4. CASE clock' = clock + 1 /\ places' = PlacesWritten(w) /\ work' = [work EXCEPT ![w] = x]
  <2>1. work[w] \in Works /\ next \in Stages /\ next # "idle"
    BY RecordsTyped DEF Stages, AfterPlaces
  <2>2. x \in Works
    <3>1. \A r \in Works : [r EXCEPT !.at = next] \in Works /\ [r EXCEPT !.found = 0] \in Works
      BY <2>1, FieldsTyped
    <3>2. [[work[w] EXCEPT !.at = next] EXCEPT !.found = 0] \in Works
      BY <2>1, <3>1, Zenon
    <3>3. QED
      BY <3>2
  <2>3. /\ work' \in [Workers -> Works] /\ work'[w] = x
        /\ \A v \in Workers : v # w => work'[v] = work[v]
    BY <1>4, <2>2, OneWorker
  <2> HIDE DEF next
  <2>4. /\ work'[w].at = next /\ work'[w].found = 0 /\ work'[w].mail = work[w].mail
        /\ work'[w].since = work[w].since /\ work'[w].import = work[w].import
        /\ work'[w].ids = work[w].ids /\ work'[w].row = work[w].row
    BY <2>1, <2>3 DEF Works
  <2>5. /\ clock \in Nat /\ work[w].found \in Nat /\ work[w].found <= Len(places)
        /\ work[w].since \in 1..clock /\ work[w].mail \in Mails
    <3>1. /\ clock \in Nat /\ work[w].found \in Nat /\ work[w].since \in Nat
          /\ work[w].mail \in Mails \cup {Unset}
      BY <2>1 DEF Shape, Works
    <3>2. work[w].found <= Len(places) /\ work[w].since <= clock /\ work[w].since > 0
      BY <1>1 DEF References, Within
    <3>3. work[w].mail # Unset
      BY <1>1 DEF Turns, Busy
    <3>4. QED
      BY <3>1, <3>2, <3>3
  <2>6. /\ new \in PlaceRows /\ {new.since, new.done} \subseteq 1..(clock + 1)
        /\ new.done = clock + 1
    BY <2>5 DEF PlaceRows
  <2>7. /\ places \in Seq(PlaceRows) /\ Len(places) \in Nat /\ DOMAIN places = 1..Len(places)
        /\ \A p \in DOMAIN places : {places[p].since, places[p].done} \subseteq 1..(clock + 1)
    <3>1. \A p \in DOMAIN places : {places[p].since, places[p].done} \subseteq 1..clock
      BY DEF References
    <3>2. QED
      BY <2>5, <3>1, LenProperties DEF Shape
  <2>8. places' = IF work[w].found = 0 THEN Append(places, new) ELSE Overwritten(w, new)
    BY <1>4, Zenon DEF PlacesWritten, InsertImport, UpdateRawData, Overwritten
  <2> HIDE DEF new
  <2>9. /\ places' \in Seq(PlaceRows) /\ Len(places) <= Len(places')
        /\ \A p \in DOMAIN places' :
             {places'[p].since, places'[p].done} \subseteq 1..(clock + 1)
        /\ \A p \in DOMAIN places : /\ p \in DOMAIN places'
                                    /\ \/ places'[p] = places[p]
                                       \/ places'[p].done = clock + 1
        /\ \E p \in DOMAIN places' : places'[p].done = clock + 1
    <3>1. CASE work[w].found = 0
      <4>1. /\ Append(places, new) \in Seq(PlaceRows)
            /\ Len(Append(places, new)) = Len(places) + 1
            /\ Append(places, new)[Len(places) + 1] = new
            /\ \A i \in 1..Len(places) : Append(places, new)[i] = places[i]
            /\ DOMAIN Append(places, new) = 1..Len(Append(places, new))
        BY <2>6, <2>7, AppendProperties, LenProperties
      <4>2. places' = Append(places, new)
        BY <2>8, <3>1
      <4>3. \A p \in 1..(Len(places) + 1) : p \in 1..Len(places) \/ p = Len(places) + 1
        BY <2>7
      <4>4. QED
        BY <2>6, <2>7, <4>1, <4>2, <4>3
    <3>2. CASE work[w].found # 0
      <4>1. work[w].found \in DOMAIN places
        BY <2>5, <2>7, <3>2
      <4>2. /\ Overwritten(w, new) \in Seq(PlaceRows) /\ Len(Overwritten(w, new)) = Len(places)
            /\ DOMAIN Overwritten(w, new) = DOMAIN places
            /\ \A p \in DOMAIN places :
                 Overwritten(w, new)[p] = new \/ Overwritten(w, new)[p] = places[p]
            /\ Overwritten(w, new)[work[w].found] = new
        BY <2>6, <2>7, <4>1, ExceptSeq DEF Overwritten
      <4>3. places' = Overwritten(w, new)
        BY <2>8, <3>2
      <4>4. /\ places' \in Seq(PlaceRows) /\ DOMAIN places' = DOMAIN places
            /\ Len(places) <= Len(places')
        BY <2>7, <4>2, <4>3
      <4>5. \A p \in DOMAIN places : places'[p] = new \/ places'[p] = places[p]
        BY <4>2, <4>3, Zenon
      <4>6. \A p \in DOMAIN places' :
              {places'[p].since, places'[p].done} \subseteq 1..(clock + 1)
        BY <2>6, <2>7, <4>4, <4>5, Zenon
      <4>7. \A p \in DOMAIN places : /\ p \in DOMAIN places'
                                     /\ \/ places'[p] = places[p]
                                        \/ places'[p].done = clock + 1
        BY <2>6, <4>4, <4>5, Zenon
      <4>8. \E p \in DOMAIN places' : places'[p].done = clock + 1
        BY <2>6, <4>1, <4>2, <4>3, <4>4, Zenon
      <4>9. QED
        BY <4>4, <4>6, <4>7, <4>8, Zenon
    <3>3. QED
      BY <3>1, <3>2
  <2>10. QED
    BY <1>1, <1>4, <2>1, <2>3, <2>4, <2>9 DEF Amid, next
<1>5. QED
  BY <1>2, <1>3, <1>4

LEMMA SeekMeans ==
  ASSUME Shape, Recorded, NEW w \in Workers, Seek(w)
  PROVE  /\ Amid(w) /\ Quiet /\ work[w].at = "seek"
         /\ \/ Leaves(w)
            \/ Goes(w, "seek", "fetch") /\ ImportsOf(work[w].mail) = {}
            \/ /\ work'[w].at = "project" /\ work'[w].import \in ImportsOf(work[w].mail)
               /\ work'[w].found = work[w].found /\ work'[w].since = work[w].since
               /\ work'[w].ids = work[w].ids /\ work'[w].row = work[w].row
<1> DEFINE m == work[w].mail
           x == [work[w] EXCEPT !.at = "project", !.import = LatestImport(m)]
<1>1. work[w].at = "seek" /\ Quiet /\ UNCHANGED <<delivered, inbox, broker, failed, deaths>>
  BY Zenon DEF Seek, Quiet, inVars, placeVars, runVars
<1>2. \/ End(w, "failed")
      \/ Goto(w, "fetch") /\ ImportsOf(m) = {}
      \/ work' = [work EXCEPT ![w] = x] /\ ImportsOf(m) # {}
  <2>1. \/ End(w, "failed")
        \/ Goto(w, "fetch") /\ ImportsOf(m) = {}
        \/ /\ work' = [work EXCEPT ![w] = [@ EXCEPT !.at = "project", !.import = LatestImport(m)]]
           /\ ImportsOf(m) # {}
    BY Zenon DEF Seek, Fails
  <2>2. QED
    BY <2>1 DEF Shape
<1>3. CASE End(w, "failed")
  BY <1>1, <1>3, EndMeans DEF Amid
<1>4. CASE Goto(w, "fetch") /\ ImportsOf(m) = {}
  BY <1>1, <1>4, GotoMeans DEF Amid, Goes, Stages
<1>5. CASE work' = [work EXCEPT ![w] = x] /\ ImportsOf(m) # {}
  <2>1. work[w] \in Works
    BY RecordsTyped DEF Stages
  <2>2. LatestImport(m) \in ImportsOf(m) /\ LatestImport(m) \in Nat
    <3>1. DOMAIN imports \subseteq Nat
      BY LenProperties DEF Shape
    <3>2. PICK i \in ImportsOf(m) : TRUE
      BY <1>5
    <3>3. i \in Nat /\ \A j \in ImportsOf(m) : j = i
      BY <3>1 DEF ImportsOf, Recorded, IsInjective
    <3>4. \A j \in ImportsOf(m) : j <= i
      BY <3>3
    <3>5. LatestImport(m) \in ImportsOf(m)
      BY <3>2, <3>4 DEF LatestImport
    <3>6. QED
      BY <3>3, <3>5
  <2>3. x \in Works
    <3>1. \A r \in Works : /\ [r EXCEPT !.at = "project"] \in Works
                           /\ [r EXCEPT !.import = LatestImport(m)] \in Works
      BY <2>2, FieldsTyped DEF Stages
    <3>2. [[work[w] EXCEPT !.at = "project"] EXCEPT !.import = LatestImport(m)] \in Works
      BY <2>1, <3>1, Zenon
    <3>3. QED
      BY <3>2
  <2>4. /\ work' \in [Workers -> Works] /\ work'[w] = x
        /\ \A v \in Workers : v # w => work'[v] = work[v]
    BY <1>5, <2>3, OneWorker
  <2>5. /\ work'[w].at = "project" /\ work'[w].import = LatestImport(m)
        /\ work'[w].found = work[w].found /\ work'[w].since = work[w].since
        /\ work'[w].ids = work[w].ids /\ work'[w].row = work[w].row
        /\ work'[w].mail = work[w].mail
    BY <2>1, <2>4 DEF Works
  <2>6. QED
    BY <1>1, <2>2, <2>4, <2>5 DEF Amid
<1>6. QED
  BY <1>2, <1>3, <1>4, <1>5

LEMMA RecordMeans ==
  ASSUME Shape, Turns, NEW w \in Workers, Record(w)
  PROVE  /\ Amid(w) /\ UNCHANGED <<clock, places, tenders, lifecycles, started>>
         /\ work[w].at = "record"
         /\ \/ Leaves(w) /\ imports' = imports
            \/ /\ imports' = Append(imports, work[w].mail)
               /\ work'[w].at = "project" /\ work'[w].import = Len(imports')
               /\ work'[w].found = work[w].found /\ work'[w].since = work[w].since
               /\ work'[w].ids = work[w].ids /\ work'[w].row = work[w].row
<1> DEFINE n == Len(Append(imports, work[w].mail))
           x == [work[w] EXCEPT !.at = "project", !.try = 1, !.import = n]
<1>1. /\ work[w].at = "record" /\ UNCHANGED <<clock, places, tenders, lifecycles, started>>
      /\ UNCHANGED <<delivered, inbox, broker, failed, deaths>>
  BY Zenon DEF Record, inVars, placeVars, runVars
<1>2. \/ End(w, "failed") /\ imports' = imports
      \/ imports' = Append(imports, work[w].mail) /\ work' = [work EXCEPT ![w] = x]
  <2>1. \/ End(w, "failed") /\ imports' = imports
        \/ /\ imports' = Append(imports, work[w].mail)
           /\ work' = [work EXCEPT ![w] = [@ EXCEPT !.at = "project", !.try = 1,
                                                      !.import = Len(imports')]]
    BY Zenon DEF Record, InsertImport, Fails
  <2>2. QED
    BY <2>1 DEF Shape
<1>3. CASE End(w, "failed") /\ imports' = imports
  BY <1>1, <1>3, EndMeans DEF Amid
<1>4. CASE imports' = Append(imports, work[w].mail) /\ work' = [work EXCEPT ![w] = x]
  <2>1. work[w] \in Works /\ [work[w] EXCEPT !.at = "project", !.try = 1] \in Works
    BY RecordsTyped DEF Stages
  <2>2. n \in Nat
    <3>1. imports \in Seq(Mails) /\ work[w].mail \in Mails
      BY <1>1, RecordsTyped DEF Stages, Shape, Turns, Busy
    <3>2. Append(imports, work[w].mail) \in Seq(Mails)
      BY <3>1, AppendProperties
    <3>3. QED
      BY <3>2, LenProperties
  <2> HIDE DEF n
  <2>3. x \in Works
    <3>1. \A r \in Works : [r EXCEPT !.import = n] \in Works
      BY <2>2, FieldsTyped
    <3>2. [[work[w] EXCEPT !.at = "project", !.try = 1] EXCEPT !.import = n] \in Works
      BY <2>1, <3>1, Zenon
    <3>3. QED
      BY <3>2
  <2>4. /\ work' \in [Workers -> Works] /\ work'[w] = x
        /\ \A v \in Workers : v # w => work'[v] = work[v]
    BY <1>4, <2>3, OneWorker
  <2>5. /\ work'[w].at = "project" /\ work'[w].import = n
        /\ work'[w].found = work[w].found /\ work'[w].since = work[w].since
        /\ work'[w].ids = work[w].ids /\ work'[w].row = work[w].row
        /\ work'[w].mail = work[w].mail
    BY <2>1, <2>4 DEF Works
  <2>6. QED
    BY <1>1, <1>4, <2>4, <2>5 DEF Amid, n
<1>5. QED
  BY <1>2, <1>3, <1>4

LEMMA ProjectMeans ==
  ASSUME Shape, NEW w \in Workers, Project(w)
  PROVE  Amid(w) /\ Quiet /\ work[w].at = "project" /\ (Leaves(w) \/ Goes(w, "project", "index"))
<1>1. work[w].at = "project" /\ Quiet /\ UNCHANGED <<delivered, inbox, broker, failed, deaths>>
  BY Zenon DEF Project, Quiet, inVars, placeVars, runVars
<1>2. End(w, "complete") \/ Goto(w, "index")
  BY Zenon DEF Project
<1>3. CASE End(w, "complete")
  BY <1>1, <1>3, EndMeans DEF Amid
<1>4. CASE Goto(w, "index")
  BY <1>1, <1>4, GotoMeans DEF Amid, Goes, Stages
<1>5. QED
  BY <1>2, <1>3, <1>4

LEMMA IndexMeans ==
  ASSUME Shape, References, NEW w \in Workers, Index(w)
  PROVE  /\ Amid(w) /\ Quiet /\ work[w].at = "index" /\ work'[w].at = "persist"
         /\ work'[w].found = work[w].found /\ work'[w].since = 0
         /\ work'[w].import = work[w].import
         /\ work'[w].ids = work[w].ids /\ work'[w].row = work[w].row
<1>1. work[w].at = "index" /\ Quiet /\ UNCHANGED <<delivered, inbox, broker, failed, deaths>>
  BY Zenon DEF Index, Quiet, inVars, placeVars, runVars
<1>2. PICK from \in LoadedPlaces :
        work' = [work EXCEPT ![w] = [@ EXCEPT !.at = "persist", !.from = from, !.since = 0]]
  BY Zenon DEF Index
<1> DEFINE x == [work[w] EXCEPT !.at = "persist", !.from = from, !.since = 0]
<1>3. work' = [work EXCEPT ![w] = x]
  BY <1>2 DEF Shape
<1>4. from \in Mails \cup {NoPlaces}
  <2>1. places # <<>> => places[NewestPlaces].mail \in Mails
    <3>1. places # <<>> => places[NewestPlaces] \in PlaceRows
      BY NewestKnown, ElementOfSeq, LenProperties DEF Shape
    <3>2. QED
      BY <3>1 DEF PlaceRows
  <2>2. QED
    BY <2>1 DEF LoadedPlaces
<1>5. work[w] \in Works
  BY RecordsTyped DEF Stages
<1>6. x \in Works
  <2>1. \A r \in Works : /\ [r EXCEPT !.at = "persist"] \in Works
                         /\ [r EXCEPT !.from = from] \in Works
                         /\ [r EXCEPT !.since = 0] \in Works
    BY <1>4, FieldsTyped DEF Stages
  <2>2. [[[work[w] EXCEPT !.at = "persist"] EXCEPT !.from = from] EXCEPT !.since = 0] \in Works
    BY <1>5, <2>1, Zenon
  <2>3. QED
    BY <2>2
<1>7. /\ work' \in [Workers -> Works] /\ work'[w] = x
      /\ \A v \in Workers : v # w => work'[v] = work[v]
  BY <1>3, <1>6, OneWorker
<1>8. QED
  BY <1>1, <1>5, <1>7 DEF Amid, Works

\* The tenders that w inserts for the rows of its workbook.
Rows(w) == ProjectedRows[work[w].mail]
Cut(w) == Inserted(Rows(w), work[w].from, work[w].import)
Size(w) == Cardinality(Headers(Rows(w)))

LEMMA CutMeans ==
  ASSUME Shape, Turns, Recorded, NEW w \in Workers, work[w].at = "persist"
  PROVE  /\ Rows(w) \in Seq([Columns -> STRING \X STRING])
         /\ Size(w) \in Nat /\ Cut(w) \in Seq(TenderRows) /\ Len(Cut(w)) = Size(w)
         /\ DOMAIN Cut(w) = 1..Size(w)
         /\ \A k \in 1..Size(w) : Cut(w)[k].import = work[w].import
<1>1. work[w].mail \in Mails /\ OrdersBook(work[w].mail) # Unset
  BY RecordsTyped DEF Turns, Busy, Recorded, Traced, OfOrders, Stages
<1>2. work[w].mail \in DOMAIN ProjectedRows
  BY <1>1 DEF ProjectedRows
<1>3. Rows(w) \in Seq([Columns -> STRING \X STRING])
  BY <1>2, RowsAssumption DEF Rows
<1>4. Size(w) \in Nat
  BY <1>3, HeadersFinite DEF Size
<1>5. work[w].from \in Mails \cup {NoPlaces} /\ work[w].import \in Nat
  BY DEF Shape, Works
<1>6. /\ Cut(w) \in Seq(TenderRows) /\ Len(Cut(w)) = Size(w)
      /\ \A k \in 1..Size(w) : Cut(w)[k].import = work[w].import
  <2>1. PICK m \in DOMAIN ProjectedRows, from \in Mails \cup {NoPlaces}, import \in Nat :
          m = work[w].mail /\ from = work[w].from /\ import = work[w].import
    BY <1>2, <1>5
  <2> DEFINE batch == Inserted(ProjectedRows[m], from, import)
             size == Cardinality(Headers(ProjectedRows[m]))
  <2>2. /\ batch \in Seq(TenderRows) /\ Len(batch) = size
        /\ \A k \in 1..size : batch[k].import = import
    BY InsertedMeans
  <2>3. batch = Cut(w) /\ size = Size(w)
    BY <2>1, Zenon DEF Rows, Cut, Size
  <2> HIDE DEF batch, size
  <2>4. QED
    BY <2>1, <2>2, <2>3
<1>7. QED
  BY <1>3, <1>4, <1>6, LenProperties

LEMMA PersistMeans ==
  ASSUME Shape, Turns, Recorded, NEW w \in Workers, Persist(w)
  PROVE  /\ Amid(w) /\ UNCHANGED <<clock, places, imports, lifecycles>>
         /\ work[w].at = "persist"
         /\ \/ Leaves(w) /\ tenders' = tenders /\ started' = started
            \/ /\ tenders' = tenders \o Cut(w) /\ started' = started \o [k \in 1..Size(w) |-> 0]
               /\ work'[w].at = "start" /\ work'[w].ids = TenderIds(Rows(w), Len(tenders))
               /\ work'[w].found = work[w].found /\ work'[w].since = work[w].since
               /\ work'[w].import = work[w].import /\ work'[w].row = work[w].row
<1> DEFINE ids == TenderIds(Rows(w), Len(tenders))
           x == [work[w] EXCEPT !.at = "start", !.from = NoPlaces, !.ids = ids]
<1>1. /\ work[w].at = "persist" /\ UNCHANGED <<clock, places, imports, lifecycles>>
      /\ UNCHANGED <<delivered, inbox, broker, failed, deaths>>
  BY Zenon DEF Persist, inVars, placeVars
<1>2. \/ End(w, "complete") /\ tenders' = tenders /\ started' = started
      \/ /\ tenders' = tenders \o Cut(w) /\ started' = started \o [k \in DOMAIN Cut(w) |-> 0]
         /\ work' = [work EXCEPT ![w] = x]
  <2>1. \/ End(w, "complete") /\ tenders' = tenders /\ started' = started
        \/ /\ tenders' = tenders \o Cut(w) /\ started' = started \o [k \in DOMAIN Cut(w) |-> 0]
           /\ work' = [work EXCEPT ![w] = [@ EXCEPT !.at = "start", !.from = NoPlaces,
                                                      !.ids = ids]]
    BY Zenon DEF Persist, Cut, Rows
  <2>2. QED
    BY <2>1 DEF Shape
<1>3. CASE End(w, "complete") /\ tenders' = tenders /\ started' = started
  BY <1>1, <1>3, EndMeans DEF Amid
<1>4. CASE /\ tenders' = tenders \o Cut(w) /\ started' = started \o [k \in DOMAIN Cut(w) |-> 0]
           /\ work' = [work EXCEPT ![w] = x]
  <2>1. work[w] \in Works
    BY RecordsTyped DEF Stages
  <2>2. ids \in Seq(Nat)
    BY <1>1, CutMeans, IdsMean, LenProperties DEF Shape
  <2>3. DOMAIN Cut(w) = 1..Size(w)
    BY <1>1, CutMeans
  <2> HIDE DEF ids
  <2>4. x \in Works
    <3>1. \A r \in Works : /\ [r EXCEPT !.at = "start"] \in Works
                           /\ [r EXCEPT !.from = NoPlaces] \in Works
                           /\ [r EXCEPT !.ids = ids] \in Works
      BY <2>2, FieldsTyped DEF Stages
    <3>2. [[[work[w] EXCEPT !.at = "start"] EXCEPT !.from = NoPlaces] EXCEPT !.ids = ids] \in Works
      BY <2>1, <3>1, Zenon
    <3>3. QED
      BY <3>2
  <2>5. /\ work' \in [Workers -> Works] /\ work'[w] = x
        /\ \A v \in Workers : v # w => work'[v] = work[v]
    BY <1>4, <2>4, OneWorker
  <2>6. /\ work'[w].at = "start" /\ work'[w].ids = ids
        /\ work'[w].found = work[w].found /\ work'[w].since = work[w].since
        /\ work'[w].import = work[w].import /\ work'[w].row = work[w].row
        /\ work'[w].mail = work[w].mail
    BY <2>1, <2>5 DEF Works
  <2>7. started' = started \o [k \in 1..Size(w) |-> 0]
    BY <1>4, <2>3, Zenon
  <2>8. QED
    BY <1>1, <1>4, <2>5, <2>6, <2>7 DEF Amid, ids
<1>5. QED
  BY <1>2, <1>3, <1>4

(* The row of a tender that is to be started, the first of those left.      *)
NextRow(w) == CHOOSE i \in RowsToStart(w) : \A j \in RowsToStart(w) : i <= j

LEMMA NextRowKnown ==
  ASSUME Shape, NEW w \in Workers, RowsToStart(w) # {}
  PROVE  /\ NextRow(w) \in RowsToStart(w) /\ \A j \in RowsToStart(w) : NextRow(w) <= j
         /\ NextRow(w) \in DOMAIN work[w].ids /\ NextRow(w) \in Nat
         /\ work[w].row < NextRow(w) /\ work[w].ids[NextRow(w)] # 0
<1>1. work[w].ids \in Seq(Nat)
  BY DEF Shape, Works
<1>2. DOMAIN work[w].ids \subseteq Nat
  BY <1>1, LenProperties
<1>3. RowsToStart(w) \in SUBSET Nat
  BY <1>2 DEF RowsToStart
<1>4. \E i \in RowsToStart(w) : \A j \in RowsToStart(w) : i <= j
  BY <1>3, LeastOf
<1>5. NextRow(w) \in RowsToStart(w) /\ \A j \in RowsToStart(w) : NextRow(w) <= j
  BY <1>4 DEF NextRow
<1>6. QED
  BY <1>2, <1>5 DEF RowsToStart

LEMMA StartMeans ==
  ASSUME Shape, NEW w \in Workers, Start(w)
  PROVE  /\ Amid(w) /\ UNCHANGED <<clock, places, imports, tenders, started>>
         /\ work[w].at = "start"
         /\ \/ Leaves(w) /\ lifecycles' = lifecycles
               /\ (RowsToStart(w) # {} => work'[w].at = "failed")
            \/ /\ RowsToStart(w) # {}
               /\ lifecycles' = lifecycles \cup {work[w].ids[NextRow(w)]}
               /\ work'[w].at = "queue" /\ work'[w].row = NextRow(w)
               /\ work'[w].found = work[w].found /\ work'[w].since = work[w].since
               /\ work'[w].import = work[w].import /\ work'[w].ids = work[w].ids
<1> DEFINE x == [work[w] EXCEPT !.at = "queue", !.row = NextRow(w)]
<1>1. /\ work[w].at = "start" /\ UNCHANGED <<clock, places, imports, tenders, started>>
      /\ UNCHANGED <<delivered, inbox, broker, failed, deaths>>
  BY Zenon DEF Start, inVars, placeVars
<1>2. \/ End(w, "complete") /\ lifecycles' = lifecycles /\ RowsToStart(w) = {}
      \/ End(w, "failed") /\ lifecycles' = lifecycles
      \/ /\ lifecycles' = lifecycles \cup {work[w].ids[NextRow(w)]} /\ RowsToStart(w) # {}
         /\ work' = [work EXCEPT ![w] = x]
  <2>1. \/ End(w, "complete") /\ lifecycles' = lifecycles /\ RowsToStart(w) = {}
        \/ End(w, "failed") /\ lifecycles' = lifecycles
        \/ /\ lifecycles' = lifecycles \cup {work[w].ids[NextRow(w)]} /\ RowsToStart(w) # {}
           /\ work' = [work EXCEPT ![w] = [@ EXCEPT !.at = "queue", !.row = NextRow(w)]]
    BY Zenon DEF Start, NextRow, Fails
  <2>2. QED
    BY <2>1 DEF Shape
<1>3. CASE End(w, "complete") /\ lifecycles' = lifecycles /\ RowsToStart(w) = {}
  BY <1>1, <1>3, EndMeans DEF Amid
<1>4. CASE End(w, "failed") /\ lifecycles' = lifecycles
  BY <1>1, <1>4, EndMeans DEF Amid
<1>5. CASE /\ lifecycles' = lifecycles \cup {work[w].ids[NextRow(w)]} /\ RowsToStart(w) # {}
           /\ work' = [work EXCEPT ![w] = x]
  <2>1. work[w] \in Works /\ NextRow(w) \in Nat
    BY <1>5, NextRowKnown, RecordsTyped DEF Stages
  <2>2. x \in Works
    <3>1. \A r \in Works : /\ [r EXCEPT !.at = "queue"] \in Works
                           /\ [r EXCEPT !.row = NextRow(w)] \in Works
      BY <2>1, FieldsTyped DEF Stages
    <3>2. [[work[w] EXCEPT !.at = "queue"] EXCEPT !.row = NextRow(w)] \in Works
      BY <2>1, <3>1, Zenon
    <3>3. QED
      BY <3>2
  <2>3. /\ work' \in [Workers -> Works] /\ work'[w] = x
        /\ \A v \in Workers : v # w => work'[v] = work[v]
    BY <1>5, <2>2, OneWorker
  <2>4. /\ work'[w].at = "queue" /\ work'[w].row = NextRow(w)
        /\ work'[w].found = work[w].found /\ work'[w].since = work[w].since
        /\ work'[w].import = work[w].import /\ work'[w].ids = work[w].ids
        /\ work'[w].mail = work[w].mail
    BY <2>1, <2>3 DEF Works
  <2>5. QED
    BY <1>1, <1>5, <2>3, <2>4 DEF Amid
<1>6. QED
  BY <1>2, <1>3, <1>4, <1>5

\* The tender whose run w is about to queue.
Due(w) == work[w].ids[work[w].row]

LEMMA QueueMeans ==
  ASSUME Shape, NEW w \in Workers, Queue(w)
  PROVE  /\ Amid(w) /\ UNCHANGED <<clock, places, imports, tenders, lifecycles>>
         /\ work[w].at = "queue"
         /\ \/ Leaves(w) /\ work'[w].at = "failed" /\ started' = started
            \/ Goes(w, "queue", "start") /\ started' = [started EXCEPT ![Due(w)] = @ + 1]
<1>1. /\ work[w].at = "queue" /\ UNCHANGED <<clock, places, imports, tenders, lifecycles>>
      /\ UNCHANGED <<delivered, inbox, broker, failed, deaths>>
  BY Zenon DEF Queue, inVars, placeVars
<1>2. \/ End(w, "failed") /\ started' = started
      \/ Goto(w, "start") /\ started' = [started EXCEPT ![Due(w)] = @ + 1]
  BY Zenon DEF Queue, Fails, Due
<1>3. CASE End(w, "failed") /\ started' = started
  BY <1>1, <1>3, EndMeans DEF Amid
<1>4. CASE Goto(w, "start") /\ started' = [started EXCEPT ![Due(w)] = @ + 1]
  <2>1. /\ work' \in [Workers -> Works] /\ \A v \in Workers : v # w => work'[v] = work[v]
        /\ Goes(w, work[w].at, "start") /\ work'[w].mail = work[w].mail
    BY <1>4, GotoMeans DEF Stages
  <2>2. QED
    BY <1>1, <1>4, <2>1 DEF Amid, Goes
<1>5. QED
  BY <1>2, <1>3, <1>4

(* The ends of an item and its beginning.                                   *)
LEMMA FailMeans ==
  ASSUME Shape, NEW w \in Workers, Fail(w)
  PROVE  /\ UNCHANGED <<delivered, inbox, broker, deaths>> /\ Quiet
         /\ work' \in [Workers -> Works] /\ \A v \in Workers : v # w => work'[v] = work[v]
         /\ work[w].at = "failed" /\ failed' = [failed EXCEPT ![work[w].mail] = @ + 1]
         /\ Leaves(w) /\ work'[w].at = "complete" /\ work'[w].mail = work[w].mail
<1>1. /\ UNCHANGED <<delivered, inbox, broker, deaths>> /\ Quiet /\ End(w, "complete")
      /\ work[w].at = "failed" /\ failed' = [failed EXCEPT ![work[w].mail] = @ + 1]
  BY Zenon DEF Fail, Quiet, inVars, placeVars, runVars
<1>2. QED
  BY <1>1, EndMeans

LEMMA IdleKnown ==
  /\ Idle \in Works /\ Idle.at = "idle" /\ Idle.mail = Unset /\ Idle.found = 0 /\ Idle.since = 0
  /\ Idle.import = 0 /\ Idle.ids = <<>> /\ Idle.row = 0
<1>1. 1 \in 1..FetchAttempts
  BY BoundsAssumption
<1>2. QED
  BY <1>1, EmptySeq DEF Idle, Begun, Works, Stages

LEMMA CompleteMeans ==
  ASSUME Shape, NEW w \in Workers, Complete(w)
  PROVE  /\ UNCHANGED <<delivered, failed, deaths>> /\ Quiet
         /\ work' \in [Workers -> Works] /\ \A v \in Workers : v # w => work'[v] = work[v]
         /\ work[w].at = "complete" /\ work'[w] = Idle
         /\ inbox' = [inbox EXCEPT ![work[w].mail] = @ - 1]
         /\ broker' \in IF inbox'[work[w].mail] = 0 THEN {broker} ELSE Published(work[w].mail, 1)
<1>1. /\ UNCHANGED <<delivered, failed, deaths>> /\ Quiet /\ work' = [work EXCEPT ![w] = Idle]
      /\ work[w].at = "complete"
      /\ inbox' = [inbox EXCEPT ![work[w].mail] = @ - 1]
      /\ broker' \in IF inbox'[work[w].mail] = 0 THEN {broker} ELSE Published(work[w].mail, 1)
  BY Zenon DEF Complete, Quiet, placeVars, runVars
<1>2. QED
  BY <1>1, IdleKnown, OneWorker

LEMMA DieMeans ==
  ASSUME Shape, NEW w \in Workers, Die(w)
  PROVE  /\ UNCHANGED <<delivered, inbox, broker, failed>> /\ Quiet
         /\ work' \in [Workers -> Works] /\ \A v \in Workers : v # w => work'[v] = work[v]
         /\ work[w].at # "idle" /\ work'[w] = Idle /\ deaths < MaxDeaths /\ deaths' = deaths + 1
<1>1. /\ UNCHANGED <<delivered, inbox, broker, failed>> /\ Quiet
      /\ work' = [work EXCEPT ![w] = Idle]
      /\ work[w].at # "idle" /\ deaths < MaxDeaths /\ deaths' = deaths + 1
  BY Zenon DEF Die, Quiet, inVars, placeVars, runVars
<1>2. QED
  BY <1>1, IdleKnown, OneWorker

LEMMA TakeMeans ==
  ASSUME Shape, Turns, NEW w \in Workers, NEW m \in Mails, Take(w, m)
  PROVE  /\ UNCHANGED <<delivered, inbox, failed, deaths>> /\ Quiet
         /\ work' \in [Workers -> Works] /\ \A v \in Workers : v # w => work'[v] = work[v]
         /\ work[w].at = "idle" /\ m \in broker /\ broker' = broker \ {m}
         /\ work'[w] = Begun(m, First(m)) /\ First(m) \in {"fetchPlaces", "seek"}
         /\ First(m) = "seek" => OrdersBook(m) # Unset
<1>1. /\ UNCHANGED <<delivered, inbox, failed, deaths>> /\ Quiet
      /\ work[w].at = "idle" /\ m \in broker /\ broker' = broker \ {m}
      /\ work' = [work EXCEPT ![w] = Begun(m, First(m))]
  BY Zenon DEF Take, Quiet, placeVars, runVars
<1>2. First(m) \in {"fetchPlaces", "seek"} /\ (First(m) = "seek" => PlacesBook(m) = Unset)
  BY DEF First
<1>3. Begun(m, First(m)) \in Works
  <2>1. 1 \in 1..FetchAttempts
    BY BoundsAssumption
  <2>2. QED
    BY <1>2, <2>1, EmptySeq DEF Begun, Works, Stages
<1>4. PlacesBook(m) = Unset => OrdersBook(m) # Unset
  <2> DEFINE files == Mail[m].files
             at(name) == {i \in DOMAIN files : files[i].name = name}
  <2>1. /\ files \in Seq([name : {"delivery_location", "customers_orders", "other"},
                           book : DOMAIN Book])
        /\ Unset \notin DOMAIN Book
    BY MailAssumption
  <2> HIDE DEF files
  <2>2. DOMAIN files \subseteq Nat /\ \A i \in DOMAIN files : files[i].book \in DOMAIN Book
    <3>1. DOMAIN files = 1..Len(files) /\ Len(files) \in Nat
      BY <2>1, LenProperties
    <3>2. \A i \in 1..Len(files) :
            files[i] \in [name : {"delivery_location", "customers_orders", "other"},
                           book : DOMAIN Book]
      BY <2>1, ElementOfSeq
    <3>3. QED
      BY <3>1, <3>2
  <2>3. ASSUME NEW name, at(name) # {}
        PROVE  FirstOf(m, name) # Unset
    <3>1. at(name) \in SUBSET Nat
      BY <2>2
    <3>2. \E i \in at(name) : \A j \in at(name) : i <= j
      BY <2>3, <3>1, LeastOf
    <3>3. (CHOOSE i \in at(name) : \A j \in at(name) : i <= j) \in at(name)
      BY <3>2
    <3>4. FirstOf(m, name) = files[CHOOSE i \in at(name) : \A j \in at(name) : i <= j].book
      BY <2>3, Zenon DEF FirstOf, files
    <3>5. QED
      BY <2>1, <2>2, <3>3, <3>4
  <2>4. at("delivery_location") # {} \/ at("customers_orders") # {}
    BY <1>1 DEF Turns, Heavy, files
  <2>5. QED
    BY <2>3, <2>4 DEF PlacesBook, OrdersBook
<1>5. QED
  BY <1>1, <1>2, <1>3, <1>4, OneWorker

LEMMA DeliverMeans ==
  ASSUME Shape, NEW m \in Mails, Deliver(m)
  PROVE  /\ UNCHANGED <<work, failed, deaths>> /\ Quiet
         /\ delivered[m] < MaxDeliveries[m] /\ Heavy(m)
         /\ delivered' = [delivered EXCEPT ![m] = @ + 1] /\ inbox' = [inbox EXCEPT ![m] = @ + 1]
         /\ broker' \in Published(m, inbox'[m])
BY Zenon DEF Deliver, Quiet, placeVars, runVars

(* A mail is handed over if it is the first in its queue, or stays.         *)
LEMMA PublishedMeans ==
  ASSUME NEW m, NEW n, NEW b \in Published(m, n)
  PROVE  b = broker \/ (n = 1 /\ b = broker \cup {m})
BY DEF Published

-----------------------------------------------------------------------------
(* The queue of each mail.                                                  *)

LEMMA IngestAmid ==
  ASSUME Shape, References, Turns, Recorded, NEW w \in Workers, Ingest(w)
  PROVE  Amid(w)
<1>1. CASE FetchPlaces(w)
  BY <1>1, FetchPlacesMeans
<1>2. CASE FindPlaces(w)
  BY <1>2, FindPlacesMeans
<1>3. CASE WritePlaces(w)
  BY <1>3, WritePlacesMeans
<1>4. CASE Seek(w)
  BY <1>4, SeekMeans
<1>5. CASE Fetch(w)
  BY <1>5, FetchMeans
<1>6. CASE Record(w)
  BY <1>6, RecordMeans
<1>7. CASE Project(w)
  BY <1>7, ProjectMeans
<1>8. CASE Index(w)
  BY <1>8, IndexMeans
<1>9. CASE Persist(w)
  BY <1>9, PersistMeans
<1>10. CASE Start(w)
  BY <1>10, StartMeans
<1>11. CASE Queue(w)
  BY <1>11, QueueMeans
<1>12. QED
  BY <1>1, <1>2, <1>3, <1>4, <1>5, <1>6, <1>7, <1>8, <1>9, <1>10, <1>11, Zenon DEF Ingest

(* Only Take, Complete and Die say who works on what.                       *)
LEMMA AmidTurns ==
  ASSUME Shape, Turns, Tally, NEW w \in Workers, Amid(w)
  PROVE  Turns' /\ Tally'
<1>1. \A v \in Workers : (Busy(v)' <=> Busy(v)) /\ work'[v].mail = work[v].mail
  BY DEF Amid, Busy
<1>2. UNCHANGED <<delivered, inbox, broker, failed>>
  BY DEF Amid
<1>3. Turns'
  <2>1. \A m \in Mails : Heavy(m)' <=> Heavy(m)
    BY Zenon DEF Heavy
  <2>2. QED
    BY <1>1, <1>2, <2>1 DEF Turns
<1>4. \A m \in Mails : Open(m)' => Open(m)
  <2>1. \A v \in Workers : work'[v].at # "complete" => work[v].at # "complete"
    BY DEF Amid
  <2>2. QED
    BY <1>1, <1>2, <2>1 DEF Open
<1>5. Tally'
  BY <1>2, <1>4 DEF Tally
<1>6. QED
  BY <1>3, <1>5

LEMMA DeliverTurns ==
  ASSUME Shape, Turns, Tally, NEW m \in Mails, Deliver(m)
  PROVE  Turns' /\ Tally'
<1>1. /\ work' = work /\ failed' = failed /\ Heavy(m)
      /\ delivered' = [delivered EXCEPT ![m] = @ + 1] /\ inbox' = [inbox EXCEPT ![m] = @ + 1]
      /\ broker' \in Published(m, inbox'[m])
  BY DeliverMeans
<1>2. delivered \in [Mails -> Nat] /\ inbox \in [Mails -> Nat] /\ failed \in [Mails -> Nat]
  BY DEF Shape
<1>3. /\ inbox'[m] = inbox[m] + 1 /\ delivered'[m] = delivered[m] + 1
      /\ \A k \in Mails : k # m => inbox'[k] = inbox[k] /\ delivered'[k] = delivered[k]
      /\ \A k \in Mails : inbox'[k] >= inbox[k]
  BY <1>1, <1>2
<1>4. broker' = broker \/ (inbox[m] = 0 /\ broker' = broker \cup {m})
  <2>1. broker' = broker \/ (inbox'[m] = 1 /\ broker' = broker \cup {m})
    BY <1>1, PublishedMeans
  <2>2. QED
    BY <1>2, <1>3, <2>1
<1>5. \A w \in Workers : work[w].mail \in Mails \cup {Unset}
  BY RecordsTyped DEF Stages
<1>6. Turns'
  <2>1. (\A k \in Mails : inbox'[k] > 0 => Heavy(k)) /\ \A k \in broker' : inbox'[k] > 0
    <3>1. \A k \in broker : k \in Mails /\ inbox[k] \in Nat
      BY <1>2 DEF Shape
    <3>2. QED
      BY <1>1, <1>2, <1>3, <1>4, <3>1 DEF Turns
  <2>2. \A k \in Mails : Heavy(k)' <=> Heavy(k)
    BY Zenon DEF Heavy
  <2>3. \A w \in Workers : Busy(w)' <=> Busy(w)
    BY <1>1 DEF Busy
  <2>4. \A w \in Workers : Busy(w) => work[w].mail \in Mails /\ inbox[work[w].mail] > 0
    BY <1>5 DEF Turns
  <2>5. \A w \in Workers : Busy(w) => inbox'[work[w].mail] > 0 /\ work[w].mail \notin broker'
    BY <1>2, <1>3, <1>4, <2>4 DEF Turns
  <2>6. QED
    BY <1>1, <2>1, <2>2, <2>3, <2>5 DEF Turns
<1>7. Tally'
  <2>1. SUFFICES ASSUME NEW k \in Mails
                 PROVE  /\ inbox'[k] <= delivered'[k] /\ failed[k] + inbox'[k] <= delivered'[k] + 1
                        /\ inbox'[k] = 0 \/ Open(k)' => failed[k] + inbox'[k] <= delivered'[k]
    BY <1>1 DEF Tally
  <2>2. k # m => (Open(k)' <=> Open(k))
    BY <1>1, <1>4 DEF Open
  <2>3. k = m => (Open(k)' => Open(k) \/ inbox[k] = 0)
    BY <1>1, <1>4 DEF Open
  <2>4. QED
    BY <1>2, <1>3, <2>2, <2>3 DEF Tally
<1>8. QED
  BY <1>6, <1>7

LEMMA TakeTurns ==
  ASSUME Shape, Turns, Tally, NEW w \in Workers, NEW m \in Mails, Take(w, m)
  PROVE  Turns' /\ Tally'
<1>1. /\ UNCHANGED <<delivered, inbox, failed>>
      /\ \A v \in Workers : v # w => work'[v] = work[v]
      /\ work[w].at = "idle" /\ m \in broker /\ broker' = broker \ {m}
      /\ work'[w].mail = m /\ work'[w].at \in {"fetchPlaces", "seek"}
  <2>1. /\ UNCHANGED <<delivered, inbox, failed>>
        /\ \A v \in Workers : v # w => work'[v] = work[v]
        /\ work[w].at = "idle" /\ m \in broker /\ broker' = broker \ {m}
        /\ work'[w] = Begun(m, First(m)) /\ First(m) \in {"fetchPlaces", "seek"}
    BY TakeMeans
  <2>2. QED
    BY <2>1 DEF Begun
<1>2. Unset \notin Mails
  BY MailAssumption
<1>3. \A v \in Workers : v # w => (Busy(v)' <=> Busy(v)) /\ work'[v].mail = work[v].mail
  BY <1>1 DEF Busy
<1>4. ~Busy(w) /\ Busy(w)'
  BY <1>1 DEF Busy
<1>5. Turns'
  <2>1. \A k \in Mails : Heavy(k)' <=> Heavy(k)
    BY Zenon DEF Heavy
  <2>2. \A v \in Workers : Busy(v) => work[v].mail # m
    BY <1>1 DEF Turns
  <2>3. \A v \in Workers : v # w => work[v].mail # m
    BY <1>2, <2>2 DEF Turns
  <2>4. (\A k \in Mails : inbox[k] > 0 => Heavy(k)) /\ \A k \in broker' : inbox[k] > 0
    BY <1>1 DEF Turns
  <2>5. \A v \in Workers : /\ Busy(v)' <=> work'[v].mail # Unset
                           /\ Busy(v)' => inbox[work'[v].mail] > 0 /\ work'[v].mail \notin broker'
    BY <1>1, <1>2, <1>3, <1>4 DEF Turns
  <2>6. \A u, v \in Workers : u # v /\ Busy(u)' => work'[u].mail # work'[v].mail
    BY <1>1, <1>3, <1>4, <2>3 DEF Turns
  <2>7. QED
    BY <1>1, <2>1, <2>4, <2>5, <2>6 DEF Turns
<1>6. \A k \in Mails : Open(k)' => Open(k)
  BY <1>1, <1>3 DEF Open
<1>7. Tally'
  BY <1>1, <1>6 DEF Tally
<1>8. QED
  BY <1>5, <1>7

LEMMA FailTurns ==
  ASSUME Shape, Turns, Tally, NEW w \in Workers, Fail(w)
  PROVE  Turns' /\ Tally'
<1>0. PICK m : m = work[w].mail
  OBVIOUS
<1>1. /\ UNCHANGED <<delivered, inbox, broker>>
      /\ \A v \in Workers : v # w => work'[v] = work[v]
      /\ work[w].at = "failed" /\ failed' = [failed EXCEPT ![m] = @ + 1]
      /\ work'[w].at = "complete" /\ work'[w].mail = m
  BY <1>0, FailMeans
<1>2. m \in Mails /\ inbox[m] > 0 /\ m \notin broker
      /\ \A v \in Workers : v # w => work[v].mail # m
  BY <1>0, <1>1, RecordsTyped DEF Turns, Busy, Stages
<1>3. \A v \in Workers : (Busy(v)' <=> Busy(v)) /\ work'[v].mail = work[v].mail
  BY <1>0, <1>1 DEF Busy
<1>4. Turns'
  <2>1. \A k \in Mails : Heavy(k)' <=> Heavy(k)
    BY Zenon DEF Heavy
  <2>2. QED
    BY <1>0, <1>1, <1>3, <2>1 DEF Turns
<1>5. delivered \in [Mails -> Nat] /\ inbox \in [Mails -> Nat] /\ failed \in [Mails -> Nat]
  BY DEF Shape
<1>6. failed'[m] = failed[m] + 1 /\ \A k \in Mails : k # m => failed'[k] = failed[k]
  BY <1>1, <1>2, <1>5
<1>7. Open(m) /\ ~Open(m)' /\ \A k \in Mails : Open(k)' => Open(k)
  <2>1. Open(m)
    BY <1>0, <1>1 DEF Open
  <2>2. ~Open(m)'
    BY <1>1, <1>2 DEF Open
  <2>3. \A k \in Mails : Open(k)' => Open(k)
    BY <1>0, <1>1 DEF Open
  <2>4. QED
    BY <2>1, <2>2, <2>3
<1>8. Tally'
  <2>1. SUFFICES ASSUME NEW k \in Mails
                 PROVE  /\ inbox[k] <= delivered[k] /\ failed'[k] + inbox[k] <= delivered[k] + 1
                        /\ inbox[k] = 0 \/ Open(k)' => failed'[k] + inbox[k] <= delivered[k]
    BY <1>1 DEF Tally
  <2>2. CASE k = m
    <3>1. inbox[m] <= delivered[m] /\ failed[m] + inbox[m] <= delivered[m]
      BY <1>2, <1>7 DEF Tally
    <3>2. /\ failed[m] \in Nat /\ inbox[m] \in Nat /\ delivered[m] \in Nat
          /\ failed'[m] = failed[m] + 1 /\ inbox[m] # 0
      BY <1>2, <1>5, <1>6
    <3>3. QED
      BY <1>7, <2>2, <3>1, <3>2
  <2>3. CASE k # m
    BY <1>6, <1>7, <2>3 DEF Tally
  <2>4. QED
    BY <2>2, <2>3
<1>9. QED
  BY <1>4, <1>8

LEMMA CompleteTurns ==
  ASSUME Shape, Turns, Tally, NEW w \in Workers, Complete(w)
  PROVE  Turns' /\ Tally'
<1>0. PICK m : m = work[w].mail
  OBVIOUS
<1>1. /\ UNCHANGED <<delivered, failed>>
      /\ \A v \in Workers : v # w => work'[v] = work[v]
      /\ work[w].at = "complete" /\ work'[w].at = "idle" /\ work'[w].mail = Unset
      /\ inbox' = [inbox EXCEPT ![m] = @ - 1]
      /\ broker' \in IF inbox'[m] = 0 THEN {broker} ELSE Published(m, 1)
  BY <1>0, CompleteMeans, IdleKnown
<1>2. m \in Mails /\ inbox[m] > 0 /\ m \notin broker
      /\ \A v \in Workers : v # w => work[v].mail # m
  BY <1>0, <1>1, RecordsTyped DEF Turns, Busy, Stages
<1>3. delivered \in [Mails -> Nat] /\ inbox \in [Mails -> Nat] /\ failed \in [Mails -> Nat]
  BY DEF Shape
<1>4. /\ inbox'[m] = inbox[m] - 1 /\ inbox'[m] \in Nat
      /\ \A k \in Mails : k # m => inbox'[k] = inbox[k]
  BY <1>1, <1>2, <1>3
<1>5. broker' = broker \/ (inbox'[m] # 0 /\ broker' = broker \cup {m})
  <2>1. CASE inbox'[m] = 0
    BY <1>1, <2>1
  <2>2. CASE inbox'[m] # 0
    <3>1. broker' \in Published(m, 1)
      BY <1>1, <2>2
    <3>2. QED
      BY <2>2, <3>1, PublishedMeans
  <2>3. QED
    BY <2>1, <2>2
<1>6. Heavy(m) /\ \A k \in Mails : inbox'[k] > 0 => Heavy(k)
  BY <1>2, <1>4 DEF Turns
<1>7. \A v \in Workers : v # w => (Busy(v)' <=> Busy(v)) /\ work'[v].mail = work[v].mail
  BY <1>1 DEF Busy
<1>8. ~Busy(w)' /\ work'[w].mail = Unset
  BY <1>1 DEF Busy
<1>9. Turns'
  <2>1. \A k \in Mails : Heavy(k)' <=> Heavy(k)
    BY Zenon DEF Heavy
  <2>2. \A k \in broker' : inbox'[k] > 0
    <3>1. \A k \in broker : k # m /\ k \in Mails
      BY <1>2 DEF Shape
    <3>2. \A k \in broker : inbox'[k] > 0
      BY <1>4, <3>1 DEF Turns
    <3>3. inbox'[m] # 0 => inbox'[m] > 0
      <4>1. \A n \in Nat : n # 0 => n > 0
        OBVIOUS
      <4>2. QED
        BY <1>4, <4>1, Zenon
    <3>4. QED
      BY <1>5, <3>2, <3>3
  <2>3. \A v \in Workers : v # w /\ Busy(v) =>
          work[v].mail \in Mails /\ inbox'[work[v].mail] > 0 /\ work[v].mail \notin broker'
    <3>1. \A v \in Workers : Busy(v) => work[v].mail \in Mails
      BY RecordsTyped DEF Stages, Turns
    <3>2. QED
      BY <1>2, <1>4, <1>5, <3>1 DEF Turns
  <2>4. QED
    BY <1>1, <1>6, <1>7, <1>8, <2>1, <2>2, <2>3 DEF Turns
<1>10. Tally'
  <2>1. SUFFICES ASSUME NEW k \in Mails
                 PROVE  /\ inbox'[k] <= delivered[k] /\ failed[k] + inbox'[k] <= delivered[k] + 1
                        /\ inbox'[k] = 0 \/ Open(k)' => failed[k] + inbox'[k] <= delivered[k]
    BY <1>1 DEF Tally
  <2>2. CASE k = m
    <3>1. inbox[m] <= delivered[m] /\ failed[m] + inbox[m] <= delivered[m] + 1
      BY <1>2 DEF Tally
    <3>2. failed[m] \in Nat /\ inbox[m] \in Nat /\ delivered[m] \in Nat
      BY <1>2, <1>3
    <3>3. QED
      BY <1>4, <2>2, <3>1, <3>2
  <2>3. CASE k # m
    <3>1. Open(k)' => Open(k)
      <4>1. k \in broker' => k \in broker
        BY <1>5, <2>3
      <4>2. work'[w].mail # k
        BY <1>1, MailAssumption
      <4>3. QED
        BY <1>1, <4>1, <4>2 DEF Open
    <3>2. QED
      BY <1>4, <2>3, <3>1 DEF Tally
  <2>4. QED
    BY <2>2, <2>3
<1>11. QED
  BY <1>9, <1>10

LEMMA DieTurns ==
  ASSUME Shape, Turns, Tally, NEW w \in Workers, Die(w)
  PROVE  Turns' /\ Tally'
<1>1. /\ UNCHANGED <<delivered, inbox, broker, failed>>
      /\ \A v \in Workers : v # w => work'[v] = work[v]
      /\ work'[w].at = "idle" /\ work'[w].mail = Unset
  BY DieMeans, IdleKnown
<1>2. \A v \in Workers : v # w => (Busy(v)' <=> Busy(v)) /\ work'[v].mail = work[v].mail
  BY <1>1 DEF Busy
<1>3. ~Busy(w)' /\ work'[w].mail = Unset
  BY <1>1 DEF Busy
<1>4. Turns'
  <2>1. \A k \in Mails : Heavy(k)' <=> Heavy(k)
    BY Zenon DEF Heavy
  <2>2. QED
    BY <1>1, <1>2, <1>3, <2>1 DEF Turns
<1>5. \A k \in Mails : Open(k)' => Open(k)
  BY <1>1, <1>2, MailAssumption DEF Open
<1>6. Tally'
  BY <1>1, <1>5 DEF Tally
<1>7. QED
  BY <1>4, <1>6

-----------------------------------------------------------------------------
(* The types.                                                               *)

LEMMA AmidShape ==
  ASSUME Shape, NEW w \in Workers, Amid(w),
         clock' \in Nat, places' \in Seq(PlaceRows), imports' \in Seq(Mails),
         tenders' \in Seq(TenderRows), lifecycles' \subseteq 1..Len(tenders'),
         started' \in Seq(Nat), Len(started') = Len(tenders')
  PROVE  Shape'
BY DEF Shape, Amid

LEMMA QuietShape ==
  ASSUME Shape, Quiet, UNCHANGED <<delivered, inbox, failed, deaths>>, broker' \subseteq Mails,
         work' \in [Workers -> Works]
  PROVE  Shape'
BY DEF Shape, Quiet

\* The tables only grow.
Grown ==
  /\ clock <= clock' /\ Len(places) <= Len(places')
  /\ Len(imports) <= Len(imports') /\ Len(tenders) <= Len(tenders')

LEMMA Lengths ==
  ASSUME Shape
  PROVE  /\ clock \in Nat /\ Len(places) \in Nat /\ Len(imports) \in Nat /\ Len(tenders) \in Nat
         /\ DOMAIN places = 1..Len(places) /\ DOMAIN imports = 1..Len(imports)
         /\ DOMAIN tenders = 1..Len(tenders) /\ DOMAIN started = DOMAIN tenders
         /\ \A w \in Workers :
              /\ work[w].found \in Nat /\ work[w].since \in Nat /\ work[w].import \in Nat
              /\ work[w].row \in Nat /\ work[w].ids \in Seq(Nat)
              /\ DOMAIN work[w].ids = 1..Len(work[w].ids) /\ Len(work[w].ids) \in Nat
              /\ \A i \in DOMAIN work[w].ids : work[w].ids[i] \in Nat
<1>1. /\ clock \in Nat /\ Len(places) \in Nat /\ Len(imports) \in Nat /\ Len(tenders) \in Nat
      /\ DOMAIN places = 1..Len(places) /\ DOMAIN imports = 1..Len(imports)
      /\ DOMAIN tenders = 1..Len(tenders) /\ DOMAIN started = DOMAIN tenders
  BY LenProperties DEF Shape
<1>2. ASSUME NEW w \in Workers
      PROVE  /\ work[w].found \in Nat /\ work[w].since \in Nat /\ work[w].import \in Nat
             /\ work[w].row \in Nat /\ work[w].ids \in Seq(Nat)
  BY DEF Shape, Works
<1>3. \A s \in Seq(Nat) : DOMAIN s = 1..Len(s) /\ Len(s) \in Nat /\ \A i \in DOMAIN s : s[i] \in Nat
  BY LenProperties, ElementOfSeq
<1>4. QED
  BY <1>1, <1>2, <1>3

LEMMA NextLengths ==
  ASSUME Shape'
  PROVE  /\ clock' \in Nat /\ Len(places') \in Nat /\ Len(imports') \in Nat
         /\ Len(tenders') \in Nat
BY LenProperties DEF Shape

LEMMA KeptWithin ==
  ASSUME Shape, Shape', References, Grown, NEW v \in Workers,
         work'[v].found = work[v].found, work'[v].since = work[v].since,
         work'[v].import = work[v].import, work'[v].ids = work[v].ids, work'[v].row = work[v].row,
         work'[v].at = "writePlaces" => work[v].at = "writePlaces"
  PROVE  Within(v)'
<1>1. Within(v)
  BY DEF References
<1>2. /\ clock \in Nat /\ Len(places) \in Nat /\ Len(imports) \in Nat /\ Len(tenders) \in Nat
      /\ clock' \in Nat /\ Len(places') \in Nat /\ Len(imports') \in Nat /\ Len(tenders') \in Nat
  BY Lengths, NextLengths
<1>3. /\ work[v].found \in Nat /\ work[v].since \in Nat /\ work[v].import \in Nat
      /\ \A i \in DOMAIN work[v].ids : work[v].ids[i] \in Nat
  BY Lengths
<1>4. /\ work[v].found <= Len(places') /\ work[v].since <= clock'
      /\ work[v].import <= Len(imports')
      /\ \A i \in DOMAIN work[v].ids : work[v].ids[i] <= Len(tenders')
  <2>1. \A a, b, c \in Nat : a <= b /\ b <= c => a <= c
    OBVIOUS
  <2>2. QED
    BY <1>1, <1>2, <1>3, <2>1, Zenon DEF Within, Grown
<1>5. /\ work[v].row <= Len(work[v].ids)
      /\ work[v].at = "writePlaces" => work[v].since > 0
  BY <1>1 DEF Within
<1>6. QED
  BY <1>4, <1>5, Zenon DEF Within

LEMMA ClearedWithin ==
  ASSUME Shape', NEW w \in Workers, NEW m, NEW at, at # "writePlaces", work'[w] = Begun(m, at)
  PROVE  Within(w)'
<1>1. /\ work'[w].found = 0 /\ work'[w].since = 0 /\ work'[w].import = 0 /\ work'[w].row = 0
      /\ work'[w].ids = <<>> /\ work'[w].at # "writePlaces"
  BY DEF Begun
<1>2. DOMAIN work'[w].ids = {} /\ Len(work'[w].ids) = 0
  BY <1>1, EmptySeq
<1>3. clock' \in Nat /\ Len(places') \in Nat /\ Len(imports') \in Nat
  BY NextLengths
<1>4. QED
  BY <1>1, <1>2, <1>3 DEF Within

\* A step that leaves its worker with nothing, or with what it has.
LEMMA PlainWithin ==
  ASSUME Shape, Shape', References, Grown, NEW w \in Workers,
         \/ Leaves(w)
         \/ \E at, next : Goes(w, at, next) /\ next # "writePlaces"
  PROVE  Within(w)'
<1>1. CASE Leaves(w)
  BY <1>1, ClearedWithin DEF Leaves
<1>2. CASE \E at, next : Goes(w, at, next) /\ next # "writePlaces"
  BY <1>2, KeptWithin DEF Goes
<1>3. QED
  BY <1>1, <1>2

LEMMA StepReferences ==
  ASSUME Shape, Shape', References, Grown, NEW w \in Workers, Within(w)',
         \A v \in Workers : v # w => work'[v] = work[v],
         \A p \in DOMAIN places' : {places'[p].since, places'[p].done} \subseteq 1..clock',
         \A t \in DOMAIN tenders' : tenders'[t].import \in DOMAIN imports'
  PROVE  References'
<1>1. \A v \in Workers : v # w => Within(v)'
  BY KeptWithin
<1>2. QED
  BY <1>1 DEF References

\* Nothing but a worker changes.
LEMMA QuietReferences ==
  ASSUME Shape, Shape', References, Quiet, NEW w \in Workers, Within(w)',
         \A v \in Workers : v # w => work'[v] = work[v]
  PROVE  References'
<1>1. Grown
  BY Lengths DEF Quiet, Grown
<1>2. QED
  BY <1>1, StepReferences DEF Quiet, References

(* The same, for the steps in the middle of an item.                        *)
LEMMA QuietAmid ==
  ASSUME Shape, References, NEW w \in Workers, Amid(w), Quiet,
         \/ Leaves(w)
         \/ \E at, next : Goes(w, at, next) /\ next # "writePlaces"
         \/ Shape' /\ Grown => Within(w)'
  PROVE  Shape' /\ References'
<1>1. Shape'
  BY QuietShape, Zenon DEF Amid, Shape
<1>2. Grown
  BY Lengths DEF Quiet, Grown
<1>3. Within(w)'
  BY <1>1, <1>2, PlainWithin
<1>4. QED
  BY <1>1, <1>3, QuietReferences DEF Amid

LEMMA QuietSteps ==
  ASSUME Shape, References, Recorded, NEW w \in Workers,
         FetchPlaces(w) \/ Seek(w) \/ Fetch(w) \/ Project(w) \/ Index(w)
  PROVE  Shape' /\ References'
<1>1. CASE FetchPlaces(w)
  BY <1>1, FetchPlacesMeans, QuietAmid
<1>2. CASE Seek(w)
  <2>1. /\ Amid(w) /\ Quiet /\ work[w].at = "seek"
        /\ \/ Leaves(w)
           \/ Goes(w, "seek", "fetch")
           \/ /\ work'[w].at = "project" /\ work'[w].import \in ImportsOf(work[w].mail)
              /\ work'[w].found = work[w].found /\ work'[w].since = work[w].since
              /\ work'[w].ids = work[w].ids /\ work'[w].row = work[w].row
    BY <1>2, SeekMeans
  <2>2. ASSUME /\ work'[w].at = "project" /\ work'[w].import \in ImportsOf(work[w].mail)
               /\ work'[w].found = work[w].found /\ work'[w].since = work[w].since
               /\ work'[w].ids = work[w].ids /\ work'[w].row = work[w].row
        PROVE  Within(w)'
    <3>1. work'[w].import <= Len(imports)
      BY <2>2, Lengths DEF ImportsOf
    <3>2. Within(w)
      BY DEF References
    <3>3. QED
      BY <2>1, <2>2, <3>1, <3>2, Zenon DEF Within, Quiet
  <2>3. QED
    BY <2>1, <2>2, QuietAmid
<1>3. CASE Fetch(w)
  BY <1>3, FetchMeans, QuietAmid
<1>4. CASE Project(w)
  BY <1>4, ProjectMeans, QuietAmid
<1>5. CASE Index(w)
  <2>1. /\ Amid(w) /\ Quiet /\ work[w].at = "index" /\ work'[w].at = "persist"
        /\ work'[w].found = work[w].found /\ work'[w].since = 0
        /\ work'[w].import = work[w].import
        /\ work'[w].ids = work[w].ids /\ work'[w].row = work[w].row
    BY <1>5, IndexMeans
  <2>2. Within(w)'
    <3>1. 0 <= clock
      BY Lengths
    <3>2. Within(w)
      BY DEF References
    <3>3. QED
      BY <2>1, <3>1, <3>2, Zenon DEF Within, Quiet
  <2>3. QED
    BY <2>1, <2>2, QuietAmid
<1>6. QED
  BY <1>1, <1>2, <1>3, <1>4, <1>5

LEMMA FindPlacesShape ==
  ASSUME Shape, References, NEW w \in Workers, FindPlaces(w)
  PROVE  Shape' /\ References'
<1>1. /\ Amid(w) /\ UNCHANGED Tables /\ clock' = clock + 1
      /\ work[w].at = "findPlaces" /\ work'[w].at = "writePlaces"
      /\ work'[w].since = clock + 1 /\ work'[w].found = NewestPlaces
      /\ work'[w].import = work[w].import /\ work'[w].ids = work[w].ids
      /\ work'[w].row = work[w].row
  BY FindPlacesMeans
<1>2. /\ clock \in Nat /\ Len(places) \in Nat /\ Len(imports) \in Nat /\ Len(tenders) \in Nat
  BY Lengths
<1>3. Shape'
  <2>1. /\ clock' \in Nat /\ places' \in Seq(PlaceRows) /\ imports' \in Seq(Mails)
        /\ tenders' \in Seq(TenderRows) /\ lifecycles' \subseteq 1..Len(tenders')
        /\ started' \in Seq(Nat) /\ Len(started') = Len(tenders')
    BY <1>1, <1>2 DEF Tables, Shape
  <2>2. QED
    BY <1>1, <2>1, AmidShape
<1>4. Grown
  BY <1>1, <1>2 DEF Grown, Tables
<1>5. Within(w)'
  <2>1. /\ work'[w].found <= Len(places') /\ work'[w].since <= clock' /\ work'[w].since > 0
        /\ NewestPlaces \in 0..Len(places)
    BY <1>1, <1>2, NewestKnown DEF Tables
  <2>2. Within(w)
    BY DEF References
  <2>3. QED
    BY <1>1, <2>1, <2>2, Zenon DEF Within, Tables
<1>6. \A p \in DOMAIN places' : {places'[p].since, places'[p].done} \subseteq 1..clock'
  <2>1. \A p \in DOMAIN places : {places[p].since, places[p].done} \subseteq 1..clock
    BY DEF References
  <2>2. QED
    BY <1>1, <1>2, <2>1 DEF Tables
<1>7. \A t \in DOMAIN tenders' : tenders'[t].import \in DOMAIN imports'
  BY <1>1 DEF Tables, References
<1>8. QED
  BY <1>1, <1>3, <1>4, <1>5, <1>6, <1>7, StepReferences DEF Amid

LEMMA WritePlacesShape ==
  ASSUME Shape, References, Turns, NEW w \in Workers, WritePlaces(w)
  PROVE  Shape' /\ References'
<1>1. /\ Amid(w) /\ UNCHANGED <<imports, tenders, lifecycles, started>>
      /\ \/ Leaves(w) /\ clock' = clock /\ places' = places
         \/ /\ clock' = clock + 1 /\ places' \in Seq(PlaceRows) /\ Len(places) <= Len(places')
            /\ \A p \in DOMAIN places' :
                 {places'[p].since, places'[p].done} \subseteq 1..(clock + 1)
            /\ work'[w].at = AfterPlaces(work[w].mail) /\ work'[w].found = 0
            /\ work'[w].since = work[w].since /\ work'[w].import = work[w].import
            /\ work'[w].ids = work[w].ids /\ work'[w].row = work[w].row
  BY WritePlacesMeans
<1>2. /\ clock \in Nat /\ Len(places) \in Nat /\ Len(imports) \in Nat /\ Len(tenders) \in Nat
  BY Lengths
<1>3. CASE Leaves(w) /\ clock' = clock /\ places' = places
  BY <1>1, <1>3, QuietAmid, Zenon DEF Quiet
<1>4. CASE /\ clock' = clock + 1 /\ places' \in Seq(PlaceRows) /\ Len(places) <= Len(places')
           /\ \A p \in DOMAIN places' :
                {places'[p].since, places'[p].done} \subseteq 1..(clock + 1)
           /\ work'[w].at = AfterPlaces(work[w].mail) /\ work'[w].found = 0
           /\ work'[w].since = work[w].since /\ work'[w].import = work[w].import
           /\ work'[w].ids = work[w].ids /\ work'[w].row = work[w].row
  <2>1. Shape'
    <3>1. /\ clock' \in Nat /\ places' \in Seq(PlaceRows) /\ imports' \in Seq(Mails)
          /\ tenders' \in Seq(TenderRows) /\ lifecycles' \subseteq 1..Len(tenders')
          /\ started' \in Seq(Nat) /\ Len(started') = Len(tenders')
      BY <1>1, <1>2, <1>4 DEF Shape
    <3>2. QED
      BY <1>1, <3>1, AmidShape
  <2>2. Grown
    BY <1>1, <1>2, <1>4 DEF Grown
  <2>3. Within(w)'
    <3>1. Len(places') \in Nat /\ clock <= clock'
      BY <1>2, <1>4, LenProperties
    <3>2. Within(w) /\ work[w].since \in Nat
      BY Lengths DEF References
    <3>3. 0 <= Len(places') /\ work[w].since <= clock'
      BY <1>2, <1>4, <3>1, <3>2 DEF Within
    <3>4. AfterPlaces(work[w].mail) # "writePlaces"
      BY DEF AfterPlaces
    <3>5. QED
      BY <1>1, <1>4, <3>2, <3>3, <3>4, Zenon DEF Within
  <2>4. \A p \in DOMAIN places' : {places'[p].since, places'[p].done} \subseteq 1..clock'
    BY <1>4
  <2>5. \A t \in DOMAIN tenders' : tenders'[t].import \in DOMAIN imports'
    BY <1>1 DEF References
  <2>6. QED
    BY <1>1, <2>1, <2>2, <2>3, <2>4, <2>5, StepReferences DEF Amid
<1>5. QED
  BY <1>1, <1>3, <1>4

LEMMA RecordShape ==
  ASSUME Shape, References, Turns, NEW w \in Workers, Record(w)
  PROVE  Shape' /\ References'
<1>1. /\ Amid(w) /\ UNCHANGED <<clock, places, tenders, lifecycles, started>>
      /\ work[w].at = "record"
      /\ \/ Leaves(w) /\ imports' = imports
         \/ /\ imports' = Append(imports, work[w].mail)
            /\ work'[w].at = "project" /\ work'[w].import = Len(imports')
            /\ work'[w].found = work[w].found /\ work'[w].since = work[w].since
            /\ work'[w].ids = work[w].ids /\ work'[w].row = work[w].row
  BY RecordMeans
<1>2. /\ clock \in Nat /\ Len(places) \in Nat /\ Len(imports) \in Nat /\ Len(tenders) \in Nat
      /\ DOMAIN imports = 1..Len(imports)
  BY Lengths
<1>3. CASE Leaves(w) /\ imports' = imports
  BY <1>1, <1>3, QuietAmid, Zenon DEF Quiet
<1>4. CASE /\ imports' = Append(imports, work[w].mail)
           /\ work'[w].at = "project" /\ work'[w].import = Len(imports')
           /\ work'[w].found = work[w].found /\ work'[w].since = work[w].since
           /\ work'[w].ids = work[w].ids /\ work'[w].row = work[w].row
  <2>1. imports \in Seq(Mails) /\ work[w].mail \in Mails
    BY <1>1, RecordsTyped DEF Stages, Shape, Turns, Busy
  <2>2. /\ imports' \in Seq(Mails) /\ Len(imports') = Len(imports) + 1
        /\ DOMAIN imports' = 1..Len(imports')
    BY <1>4, <2>1, AppendProperties, LenProperties
  <2>3. Shape'
    <3>1. /\ clock' \in Nat /\ places' \in Seq(PlaceRows)
          /\ tenders' \in Seq(TenderRows) /\ lifecycles' \subseteq 1..Len(tenders')
          /\ started' \in Seq(Nat) /\ Len(started') = Len(tenders')
      BY <1>1 DEF Shape
    <3>2. QED
      BY <1>1, <2>2, <3>1, AmidShape
  <2>4. Grown
    BY <1>1, <1>2, <2>2 DEF Grown
  <2>5. Within(w)'
    <3>1. Within(w) /\ Len(imports') <= Len(imports')
      BY <1>2, <2>2 DEF References
    <3>2. QED
      BY <1>1, <1>4, <3>1, Zenon DEF Within
  <2>6. \A p \in DOMAIN places' : {places'[p].since, places'[p].done} \subseteq 1..clock'
    BY <1>1 DEF References
  <2>7. \A t \in DOMAIN tenders' : tenders'[t].import \in DOMAIN imports'
    BY <1>1, <1>2, <2>2 DEF References
  <2>8. QED
    BY <1>1, <2>3, <2>4, <2>5, <2>6, <2>7, StepReferences DEF Amid
<1>5. QED
  BY <1>1, <1>3, <1>4

\* What is on record of the rows once w has persisted them.
Zeros(n) == [k \in 1..n |-> 0]

LEMMA Joined ==
  ASSUME Shape, Turns, Recorded, NEW w \in Workers, work[w].at = "persist"
  PROVE  /\ tenders \o Cut(w) \in Seq(TenderRows)
         /\ Len(tenders \o Cut(w)) = Len(tenders) + Size(w)
         /\ DOMAIN (tenders \o Cut(w)) = 1..(Len(tenders) + Size(w))
         /\ \A t \in 1..Len(tenders) : (tenders \o Cut(w))[t] = tenders[t]
         /\ \A t \in (Len(tenders) + 1)..(Len(tenders) + Size(w)) :
              (tenders \o Cut(w))[t].import = work[w].import
         /\ started \o Zeros(Size(w)) \in Seq(Nat)
         /\ Len(started \o Zeros(Size(w))) = Len(tenders) + Size(w)
         /\ \A t \in 1..Len(tenders) : (started \o Zeros(Size(w)))[t] = started[t]
         /\ \A t \in (Len(tenders) + 1)..(Len(tenders) + Size(w)) :
              (started \o Zeros(Size(w)))[t] = 0
<1> DEFINE cut == Cut(w)
           size == Size(w)
           before == Len(tenders)
<1>1. /\ size \in Nat /\ cut \in Seq(TenderRows) /\ Len(cut) = size
      /\ \A k \in 1..size : cut[k].import = work[w].import
  BY CutMeans
<1>2. /\ tenders \in Seq(TenderRows) /\ before \in Nat
      /\ started \in Seq(Nat) /\ Len(started) = before
  BY Lengths DEF Shape
<1> HIDE DEF cut, size, before
<1>3. /\ tenders \o cut \in Seq(TenderRows) /\ Len(tenders \o cut) = before + size
      /\ \A t \in 1..before : (tenders \o cut)[t] = tenders[t]
      /\ \A t \in (before + 1)..(before + size) : (tenders \o cut)[t] = cut[t - before]
      /\ DOMAIN (tenders \o cut) = 1..(before + size)
  <2>1. /\ tenders \o cut \in Seq(TenderRows) /\ Len(tenders \o cut) = Len(tenders) + Len(cut)
        /\ \A t \in 1..(Len(tenders) + Len(cut)) :
             (tenders \o cut)[t] = IF t <= Len(tenders) THEN tenders[t] ELSE cut[t - Len(tenders)]
    BY <1>1, <1>2, ConcatProperties
  <2>2. Len(tenders) = before
    BY DEF before
  <2>3. DOMAIN (tenders \o cut) = 1..Len(tenders \o cut)
    BY <2>1, LenProperties
  <2>4. QED
    BY <1>1, <1>2, <2>1, <2>2, <2>3
<1>4. \A t \in (before + 1)..(before + size) : t - before \in 1..size
  BY <1>1, <1>2
<1>5. \A t \in (before + 1)..(before + size) : (tenders \o cut)[t].import = work[w].import
  BY <1>1, <1>3, <1>4, ZenonT(30)
<1>6. Zeros(size) \in Seq(Nat) /\ Len(Zeros(size)) = size /\ \A k \in 1..size : Zeros(size)[k] = 0
  BY <1>1, IsASeq DEF Zeros
<1>7. /\ started \o Zeros(size) \in Seq(Nat) /\ Len(started \o Zeros(size)) = before + size
      /\ \A t \in 1..before : (started \o Zeros(size))[t] = started[t]
      /\ \A t \in (before + 1)..(before + size) : (started \o Zeros(size))[t] = 0
  <2>1. /\ started \o Zeros(size) \in Seq(Nat)
        /\ Len(started \o Zeros(size)) = Len(started) + Len(Zeros(size))
        /\ \A t \in 1..(Len(started) + Len(Zeros(size))) :
             (started \o Zeros(size))[t] =
               IF t <= Len(started) THEN started[t] ELSE Zeros(size)[t - Len(started)]
    BY <1>2, <1>6, ConcatProperties
  <2>2. QED
    BY <1>1, <1>2, <1>4, <1>6, <2>1
<1>8. QED
  BY <1>3, <1>5, <1>7 DEF cut, size, before

LEMMA PersistShape ==
  ASSUME Shape, References, Turns, Recorded, Batches, NEW w \in Workers, Persist(w)
  PROVE  Shape' /\ References'
<1>1. /\ Amid(w) /\ UNCHANGED <<clock, places, imports, lifecycles>>
      /\ work[w].at = "persist"
      /\ \/ Leaves(w) /\ tenders' = tenders /\ started' = started
         \/ /\ tenders' = tenders \o Cut(w) /\ started' = started \o Zeros(Size(w))
            /\ work'[w].at = "start" /\ work'[w].ids = TenderIds(Rows(w), Len(tenders))
            /\ work'[w].found = work[w].found /\ work'[w].since = work[w].since
            /\ work'[w].import = work[w].import /\ work'[w].row = work[w].row
  BY PersistMeans DEF Zeros
<1>2. /\ clock \in Nat /\ Len(places) \in Nat /\ Len(imports) \in Nat /\ Len(tenders) \in Nat
      /\ DOMAIN tenders = 1..Len(tenders)
  BY Lengths
<1>3. CASE Leaves(w) /\ tenders' = tenders /\ started' = started
  BY <1>1, <1>3, QuietAmid, Zenon DEF Quiet
<1>4. CASE /\ tenders' = tenders \o Cut(w) /\ started' = started \o Zeros(Size(w))
           /\ work'[w].at = "start" /\ work'[w].ids = TenderIds(Rows(w), Len(tenders))
           /\ work'[w].found = work[w].found /\ work'[w].since = work[w].since
           /\ work'[w].import = work[w].import /\ work'[w].row = work[w].row
  <2>1. /\ tenders' \in Seq(TenderRows) /\ Len(tenders') = Len(tenders) + Size(w)
        /\ DOMAIN tenders' = 1..(Len(tenders) + Size(w))
        /\ \A t \in 1..Len(tenders) : tenders'[t] = tenders[t]
        /\ \A t \in (Len(tenders) + 1)..(Len(tenders) + Size(w)) :
             tenders'[t].import = work[w].import
        /\ started' \in Seq(Nat) /\ Len(started') = Len(tenders) + Size(w)
    BY <1>1, <1>4, Joined, Zenon
  <2>2. Size(w) \in Nat /\ Rows(w) \in Seq([Columns -> STRING \X STRING])
    BY <1>1, CutMeans
  <2>3. Len(tenders) <= Len(tenders')
    BY <1>2, <2>1, <2>2
  <2>4. Shape'
    <3>1. /\ clock' \in Nat /\ places' \in Seq(PlaceRows) /\ imports' \in Seq(Mails)
      BY <1>1 DEF Shape
    <3>2. lifecycles' \subseteq 1..Len(tenders')
      BY <1>1, <1>2, <2>1, <2>2 DEF Shape
    <3>3. QED
      BY <1>1, <2>1, <3>1, <3>2, AmidShape
  <2>5. Grown
    BY <1>1, <1>2, <2>3 DEF Grown
  <2>6. Within(w)'
    <3>1. Within(w) /\ work'[w].row = 0
      BY <1>1, <1>4 DEF References, Batches, Batched, Starting
    <3>2. /\ 0 <= Len(work'[w].ids)
          /\ \A i \in DOMAIN work'[w].ids : work'[w].ids[i] <= Len(tenders')
      <4>1. /\ work'[w].ids \in Seq(Nat) /\ DOMAIN work'[w].ids = DOMAIN Rows(w)
            /\ \A i \in DOMAIN work'[w].ids :
                 work'[w].ids[i] \in {0} \cup (Len(tenders) + 1)..(Len(tenders) + Size(w))
        BY <1>2, <1>4, <2>2, IdsMean DEF Size
      <4>2. Len(work'[w].ids) \in Nat
        BY <4>1, LenProperties
      <4>3. QED
        BY <1>2, <2>1, <2>2, <4>1, <4>2
    <3>3. QED
      BY <1>1, <1>4, <3>1, <3>2, Zenon DEF Within
  <2>7. \A p \in DOMAIN places' : {places'[p].since, places'[p].done} \subseteq 1..clock'
    BY <1>1 DEF References
  <2>8. \A t \in DOMAIN tenders' : tenders'[t].import \in DOMAIN imports'
    <3>1. \A t \in 1..(Len(tenders) + Size(w)) :
            t \in 1..Len(tenders) \/ t \in (Len(tenders) + 1)..(Len(tenders) + Size(w))
      BY <1>2, <2>2
    <3>2. work[w].import \in DOMAIN imports
      BY <1>1 DEF Recorded, Traced
    <3>3. \A t \in 1..Len(tenders) : tenders[t].import \in DOMAIN imports
      BY <1>2 DEF References
    <3>4. QED
      BY <1>1, <2>1, <3>1, <3>2, <3>3
  <2>9. QED
    BY <1>1, <2>4, <2>5, <2>6, <2>7, <2>8, StepReferences DEF Amid
<1>5. QED
  BY <1>1, <1>3, <1>4

LEMMA StartShape ==
  ASSUME Shape, References, NEW w \in Workers, Start(w)
  PROVE  Shape' /\ References'
<1>1. /\ Amid(w) /\ UNCHANGED <<clock, places, imports, tenders, started>>
      /\ \/ Leaves(w) /\ lifecycles' = lifecycles
         \/ /\ RowsToStart(w) # {}
            /\ lifecycles' = lifecycles \cup {work[w].ids[NextRow(w)]}
            /\ work'[w].at = "queue" /\ work'[w].row = NextRow(w)
            /\ work'[w].found = work[w].found /\ work'[w].since = work[w].since
            /\ work'[w].import = work[w].import /\ work'[w].ids = work[w].ids
  BY StartMeans
<1>2. CASE Leaves(w) /\ lifecycles' = lifecycles
  BY <1>1, <1>2, QuietAmid, Zenon DEF Quiet
<1>3. CASE /\ RowsToStart(w) # {}
           /\ lifecycles' = lifecycles \cup {work[w].ids[NextRow(w)]}
           /\ work'[w].at = "queue" /\ work'[w].row = NextRow(w)
           /\ work'[w].found = work[w].found /\ work'[w].since = work[w].since
           /\ work'[w].import = work[w].import /\ work'[w].ids = work[w].ids
  <2>1. /\ NextRow(w) \in DOMAIN work[w].ids /\ NextRow(w) \in Nat
        /\ work[w].ids[NextRow(w)] # 0
    BY <1>3, NextRowKnown
  <2>2. Within(w)
    BY DEF References
  <2>3. work[w].ids[NextRow(w)] \in 1..Len(tenders)
    <3>1. work[w].ids[NextRow(w)] \in Nat /\ Len(tenders) \in Nat
      BY <2>1, Lengths
    <3>2. work[w].ids[NextRow(w)] <= Len(tenders)
      BY <2>1, <2>2 DEF Within
    <3>3. QED
      BY <2>1, <3>1, <3>2
  <2>4. Shape'
    <3>1. /\ clock' \in Nat /\ places' \in Seq(PlaceRows) /\ imports' \in Seq(Mails)
          /\ tenders' \in Seq(TenderRows) /\ lifecycles' \subseteq 1..Len(tenders')
          /\ started' \in Seq(Nat) /\ Len(started') = Len(tenders')
      BY <1>1, <1>3, <2>3 DEF Shape
    <3>2. QED
      BY <1>1, <3>1, AmidShape
  <2>5. Grown
    BY <1>1, Lengths DEF Grown
  <2>6. Within(w)'
    <3>1. NextRow(w) <= Len(work[w].ids)
      BY <2>1, Lengths
    <3>2. QED
      BY <1>1, <1>3, <2>2, <3>1, Zenon DEF Within
  <2>7. /\ \A p \in DOMAIN places' : {places'[p].since, places'[p].done} \subseteq 1..clock'
        /\ \A t \in DOMAIN tenders' : tenders'[t].import \in DOMAIN imports'
    BY <1>1 DEF References
  <2>8. QED
    BY <1>1, <2>4, <2>5, <2>6, <2>7, StepReferences DEF Amid
<1>4. QED
  BY <1>1, <1>2, <1>3

(* The run that is queued counts for its tender and for no other.           *)
LEMMA Counted ==
  ASSUME Shape, NEW w \in Workers, started' = [started EXCEPT ![Due(w)] = @ + 1]
  PROVE  /\ started' \in Seq(Nat) /\ Len(started') = Len(started)
         /\ \A t \in DOMAIN started :
              started'[t] = IF t = Due(w) THEN started[t] + 1 ELSE started[t]
<1>1. started \in Seq(Nat) /\ DOMAIN started = 1..Len(started) /\ Len(started) \in Nat
  BY LenProperties DEF Shape
<1>2. CASE Due(w) \in DOMAIN started
  <2>1. started[Due(w)] + 1 \in Nat
    BY <1>1, <1>2, ElementOfSeq
  <2>2. PICK d, n : d = Due(w) /\ n = started[Due(w)] + 1
    OBVIOUS
  <2>3. started' = [started EXCEPT ![d] = n]
    BY <2>2
  <2>4. QED
    BY <1>1, <1>2, <2>1, <2>2, <2>3, ExceptSeq
<1>3. CASE Due(w) \notin DOMAIN started
  <2>1. started' = started
    BY <1>1, <1>3
  <2>2. QED
    BY <1>1, <1>3, <2>1
<1>4. QED
  BY <1>2, <1>3

LEMMA QueueShape ==
  ASSUME Shape, References, NEW w \in Workers, Queue(w)
  PROVE  Shape' /\ References'
<1>1. /\ Amid(w) /\ UNCHANGED <<clock, places, imports, tenders, lifecycles>>
      /\ \/ Leaves(w) /\ started' = started
         \/ Goes(w, "queue", "start") /\ started' = [started EXCEPT ![Due(w)] = @ + 1]
  BY QueueMeans
<1>2. started' \in Seq(Nat) /\ Len(started') = Len(tenders)
  BY <1>1, Counted, SMTT(20) DEF Shape
<1>3. Shape'
  <2>1. /\ clock' \in Nat /\ places' \in Seq(PlaceRows) /\ imports' \in Seq(Mails)
        /\ tenders' \in Seq(TenderRows) /\ lifecycles' \subseteq 1..Len(tenders')
        /\ started' \in Seq(Nat) /\ Len(started') = Len(tenders')
    BY <1>1, <1>2 DEF Shape
  <2>2. QED
    BY <1>1, <2>1, AmidShape
<1>4. Grown
  BY <1>1, Lengths DEF Grown
<1>5. Within(w)'
  BY <1>1, <1>3, <1>4, PlainWithin
<1>6. /\ \A p \in DOMAIN places' : {places'[p].since, places'[p].done} \subseteq 1..clock'
      /\ \A t \in DOMAIN tenders' : tenders'[t].import \in DOMAIN imports'
  BY <1>1 DEF References
<1>7. QED
  BY <1>1, <1>3, <1>4, <1>5, <1>6, StepReferences DEF Amid

(* The steps at both ends of an item.                                       *)
LEMMA EndsShape ==
  ASSUME Shape, References, Turns, NEW w \in Workers,
         \/ Fail(w) \/ Complete(w) \/ Die(w) \/ \E m \in Mails : Take(w, m)
  PROVE  Shape' /\ References'
<1>1. CASE Fail(w)
  <2>1. /\ UNCHANGED <<delivered, inbox, broker, deaths>> /\ Quiet
        /\ work' \in [Workers -> Works] /\ \A v \in Workers : v # w => work'[v] = work[v]
        /\ work[w].at = "failed" /\ failed' = [failed EXCEPT ![work[w].mail] = @ + 1]
        /\ Leaves(w)
    BY <1>1, FailMeans
  <2>2. failed' \in [Mails -> Nat]
    <3>1. failed \in [Mails -> Nat] /\ work[w].mail \in Mails
      BY <2>1, RecordsTyped DEF Stages, Shape, Turns, Busy
    <3>2. QED
      BY <2>1, <3>1
  <2>3. Shape'
    BY <2>1, <2>2 DEF Shape, Quiet
  <2>4. Grown
    BY <2>1, Lengths DEF Quiet, Grown
  <2>5. QED
    BY <2>1, <2>3, <2>4, PlainWithin, QuietReferences
<1>2. CASE Complete(w)
  <2>1. /\ UNCHANGED <<delivered, failed, deaths>> /\ Quiet
        /\ work' \in [Workers -> Works] /\ \A v \in Workers : v # w => work'[v] = work[v]
        /\ work[w].at = "complete" /\ work'[w] = Begun(Unset, "idle")
        /\ inbox' = [inbox EXCEPT ![work[w].mail] = @ - 1]
        /\ broker' \in IF inbox'[work[w].mail] = 0 THEN {broker} ELSE Published(work[w].mail, 1)
    BY <1>2, CompleteMeans DEF Idle
  <2>2. work[w].mail \in Mails /\ inbox[work[w].mail] > 0
    BY <2>1, RecordsTyped DEF Stages, Turns, Busy
  <2>3. inbox' \in [Mails -> Nat]
    BY <2>1, <2>2 DEF Shape
  <2>4. broker' \subseteq Mails
    <3>1. broker' = broker \/ broker' = broker \cup {work[w].mail}
      BY <2>1, PublishedMeans
    <3>2. QED
      BY <2>2, <3>1 DEF Shape
  <2>5. Shape'
    BY <2>1, <2>3, <2>4 DEF Shape, Quiet
  <2>6. QED
    BY <2>1, <2>5, ClearedWithin, QuietReferences
<1>3. CASE Die(w)
  <2>1. /\ UNCHANGED <<delivered, inbox, broker, failed>> /\ Quiet
        /\ work' \in [Workers -> Works] /\ \A v \in Workers : v # w => work'[v] = work[v]
        /\ work'[w] = Begun(Unset, "idle") /\ deaths < MaxDeaths /\ deaths' = deaths + 1
    BY <1>3, DieMeans DEF Idle
  <2>2. deaths' \in 0..MaxDeaths
    BY <2>1, BoundsAssumption DEF Shape
  <2>3. Shape'
    BY <2>1, <2>2 DEF Shape, Quiet
  <2>4. QED
    BY <2>1, <2>3, ClearedWithin, QuietReferences
<1>4. ASSUME NEW m \in Mails, Take(w, m)
      PROVE  Shape' /\ References'
  <2>1. /\ UNCHANGED <<delivered, inbox, failed, deaths>> /\ Quiet
        /\ work' \in [Workers -> Works] /\ \A v \in Workers : v # w => work'[v] = work[v]
        /\ broker' = broker \ {m}
        /\ work'[w] = Begun(m, First(m)) /\ First(m) \in {"fetchPlaces", "seek"}
    BY <1>4, TakeMeans
  <2>2. Shape'
    BY <2>1, QuietShape DEF Shape
  <2>3. QED
    BY <2>1, <2>2, ClearedWithin, QuietReferences
<1>5. QED
  BY <1>1, <1>2, <1>3, <1>4

LEMMA DeliverShape ==
  ASSUME Shape, References, NEW m \in Mails, Deliver(m)
  PROVE  Shape' /\ References'
<1>1. /\ UNCHANGED <<work, failed, deaths>> /\ Quiet
      /\ delivered[m] < MaxDeliveries[m]
      /\ delivered' = [delivered EXCEPT ![m] = @ + 1] /\ inbox' = [inbox EXCEPT ![m] = @ + 1]
      /\ broker' \in Published(m, inbox'[m])
  BY DeliverMeans
<1>2. delivered \in [Mails -> Nat] /\ inbox \in [Mails -> Nat]
  BY DEF Shape
<1>3. delivered' \in [Mails -> Nat] /\ inbox' \in [Mails -> Nat]
  BY <1>1, <1>2
<1>4. \A k \in Mails : delivered'[k] <= MaxDeliveries[k]
  <2>1. \A k \in Mails : MaxDeliveries[k] \in Nat /\ delivered[k] <= MaxDeliveries[k]
    BY BoundsAssumption DEF Shape
  <2>2. QED
    BY <1>1, <1>2, <2>1
<1>5. broker' \subseteq Mails
  <2>1. broker' = broker \/ broker' = broker \cup {m}
    BY <1>1, PublishedMeans
  <2>2. QED
    BY <2>1 DEF Shape
<1>6. Shape'
  BY <1>1, <1>3, <1>4, <1>5 DEF Shape, Quiet
<1>7. Grown
  BY <1>1, Lengths DEF Quiet, Grown
<1>8. \A w \in Workers : Within(w)'
  BY <1>1, <1>6, <1>7, KeptWithin
<1>9. QED
  BY <1>1, <1>6, <1>8 DEF References, Quiet

-----------------------------------------------------------------------------
(* How far the orders have come.                                            *)

LEMMA RecordedKept ==
  ASSUME Shape, Recorded, imports' = imports, NEW w \in Workers, Traced(w)',
         \A v \in Workers : v # w => work'[v] = work[v]
  PROVE  Recorded'
<1>1. \A v \in Workers : v # w => Traced(v)'
  <2>1. \A m : OrdersBook(m)' = OrdersBook(m) /\ ImportsOf(m)' = ImportsOf(m)
    BY Zenon DEF ImportsOf, OrdersBook, FirstOf
  <2>2. QED
    BY <2>1, Zenon DEF Recorded, Traced
<1>2. QED
  BY <1>1 DEF Recorded

LEMMA TracedOn ==
  ASSUME Recorded, imports' = imports, NEW w \in Workers, work'[w].mail = work[w].mail,
         \/ Leaves(w) \/ work'[w].at \in {"fetchPlaces", "findPlaces", "writePlaces"}
         \/ /\ <<work[w].at, work'[w].at>> \in
                 {<<"fetch", "fetch">>, <<"fetch", "record">>, <<"project", "index">>,
                  <<"index", "persist">>, <<"persist", "start">>, <<"start", "queue">>,
                  <<"queue", "start">>}
            /\ work'[w].import = work[w].import
  PROVE  Traced(w)'
<1>1. \A m : OrdersBook(m)' = OrdersBook(m) /\ ImportsOf(m)' = ImportsOf(m)
  BY Zenon DEF ImportsOf, OrdersBook, FirstOf
<1>2. Traced(w)
  BY DEF Recorded
<1>3. QED
  BY <1>1, <1>2 DEF Traced, Leaves, OfOrders

LEMMA RecordedStep ==
  ASSUME Shape, References, Turns, Recorded, NEW w \in Workers, Ingest(w), ~Record(w)
  PROVE  Recorded'
<1>1. \A m : /\ OrdersBook(m)' = OrdersBook(m)
             /\ imports' = imports => ImportsOf(m)' = ImportsOf(m)
  BY Zenon DEF ImportsOf, OrdersBook, FirstOf
<1>2. Traced(w)
  BY DEF Recorded
<1>3. Amid(w)
  BY IngestAmid
<1>4. CASE FetchPlaces(w)
  BY <1>3, <1>4, FetchPlacesMeans, TracedOn, RecordedKept DEF Quiet, Goes, Amid
<1>5. CASE FindPlaces(w)
  BY <1>3, <1>5, FindPlacesMeans, TracedOn, RecordedKept DEF Tables, Amid
<1>6. CASE WritePlaces(w)
  <2>1. imports' = imports /\ (Leaves(w) \/ work'[w].at = AfterPlaces(work[w].mail))
    BY <1>6, WritePlacesMeans
  <2>2. Traced(w)'
    BY <1>1, <1>3, <2>1, TracedOn DEF Traced, AfterPlaces, OfOrders, Amid
  <2>3. QED
    BY <1>3, <2>1, <2>2, RecordedKept DEF Amid
<1>7. CASE Seek(w)
  <2>1. /\ imports' = imports /\ work[w].at = "seek"
        /\ \/ Leaves(w)
           \/ work'[w].at = "fetch" /\ ImportsOf(work[w].mail) = {}
           \/ work'[w].at = "project" /\ work'[w].import \in ImportsOf(work[w].mail)
    BY <1>7, SeekMeans DEF Quiet, Goes
  <2>2. Traced(w)'
    <3>1. CASE Leaves(w)
      BY <1>3, <2>1, <3>1, TracedOn DEF Amid
    <3>2. CASE work'[w].at = "fetch" /\ ImportsOf(work[w].mail) = {}
      BY <1>1, <1>2, <1>3, <2>1, <3>2 DEF Traced, OfOrders, Amid
    <3>3. CASE work'[w].at = "project" /\ work'[w].import \in ImportsOf(work[w].mail)
      BY <1>1, <1>2, <1>3, <2>1, <3>3 DEF Traced, OfOrders, Amid, ImportsOf
    <3>4. QED
      BY <2>1, <3>1, <3>2, <3>3
  <2>3. QED
    BY <1>3, <2>1, <2>2, RecordedKept DEF Amid
<1>8. CASE Fetch(w)
  BY <1>3, <1>8, FetchMeans, TracedOn, RecordedKept DEF Quiet, Goes, Amid
<1>9. CASE Project(w)
  BY <1>3, <1>9, ProjectMeans, TracedOn, RecordedKept DEF Quiet, Goes, Amid
<1>10. CASE Index(w)
  BY <1>3, <1>10, IndexMeans, TracedOn, RecordedKept DEF Quiet, Amid
<1>11. CASE Persist(w)
  <2>1. /\ imports' = imports /\ work[w].at = "persist"
        /\ Leaves(w) \/ (work'[w].at = "start" /\ work'[w].import = work[w].import)
    BY <1>11, PersistMeans
  <2>2. QED
    BY <1>3, <2>1, TracedOn, RecordedKept DEF Amid
<1>12. CASE Start(w)
  <2>1. /\ imports' = imports /\ work[w].at = "start"
        /\ Leaves(w) \/ (work'[w].at = "queue" /\ work'[w].import = work[w].import)
    BY <1>12, StartMeans
  <2>2. QED
    BY <1>3, <2>1, TracedOn, RecordedKept DEF Amid
<1>13. CASE Queue(w)
  <2>1. /\ imports' = imports /\ work[w].at = "queue"
        /\ Leaves(w) \/ (work'[w].at = "start" /\ work'[w].import = work[w].import)
    BY <1>13, QueueMeans DEF Goes
  <2>2. QED
    BY <1>3, <2>1, TracedOn, RecordedKept DEF Amid
<1>14. QED
  BY <1>4, <1>5, <1>6, <1>7, <1>8, <1>9, <1>10, <1>11, <1>12, <1>13, Zenon DEF Ingest

(* Nobody else works on the mail, so that no import of it can have come     *)
(* between the look-up and the insertion.                                   *)
LEMMA RecordRecorded ==
  ASSUME Shape, Turns, Recorded, NEW w \in Workers, Record(w)
  PROVE  Recorded'
<1> DEFINE m == work[w].mail
<1>1. /\ Amid(w) /\ work[w].at = "record"
      /\ \/ Leaves(w) /\ imports' = imports
         \/ /\ imports' = Append(imports, m)
            /\ work'[w].at = "project" /\ work'[w].import = Len(imports')
  BY RecordMeans
<1>2. CASE Leaves(w) /\ imports' = imports
  BY <1>1, <1>2, TracedOn, RecordedKept DEF Amid
<1>3. CASE /\ imports' = Append(imports, m)
           /\ work'[w].at = "project" /\ work'[w].import = Len(imports')
  <2>1. imports \in Seq(Mails) /\ m \in Mails
    BY <1>1, RecordsTyped DEF Stages, Shape, Turns, Busy
  <2>2. Traced(w) /\ ImportsOf(m) = {} /\ OrdersBook(m) # Unset
    BY <1>1 DEF Recorded, Traced, OfOrders
  <2> HIDE DEF m
  <2>3. /\ Len(imports) \in Nat /\ Len(imports') = Len(imports) + 1
        /\ DOMAIN imports = 1..Len(imports) /\ DOMAIN imports' = 1..(Len(imports) + 1)
        /\ \A i \in DOMAIN imports : imports'[i] = imports[i]
        /\ imports'[Len(imports) + 1] = m
    <3>1. /\ Append(imports, m) \in Seq(Mails) /\ Len(Append(imports, m)) = Len(imports) + 1
          /\ \A i \in 1..Len(imports) : Append(imports, m)[i] = imports[i]
          /\ Append(imports, m)[Len(imports) + 1] = m
      BY <2>1, AppendProperties
    <3>2. QED
      BY <1>3, <2>1, <3>1, LenProperties
  <2>4. \A i \in DOMAIN imports : imports[i] # m
    BY <2>2 DEF ImportsOf
  <2>5. \A i \in DOMAIN imports' : i \in DOMAIN imports \/ i = Len(imports) + 1
    BY <2>3
  <2>6. IsInjective(imports')
    BY <2>3, <2>4, <2>5 DEF IsInjective, Recorded
  <2>7. \A k : OrdersBook(k)' = OrdersBook(k)
    BY Zenon DEF OrdersBook, FirstOf
  <2>8. \A k : k # m => ImportsOf(k)' = ImportsOf(k)
    <3>1. \A k : ImportsOf(k)' = {i \in DOMAIN imports' : imports'[i] = k}
      BY Zenon DEF ImportsOf
    <3>2. QED
      BY <2>3, <2>5, <3>1 DEF ImportsOf
  <2>9. Traced(w)'
    <3>1. work'[w].mail = m /\ Len(imports') \in DOMAIN imports' /\ imports'[Len(imports')] = m
      BY <1>1, <2>3 DEF Amid, m
    <3>2. QED
      BY <1>3, <2>2, <2>7, <3>1 DEF Traced
  <2>10. ASSUME NEW v \in Workers, v # w
         PROVE  Traced(v)'
    <3>1. work'[v] = work[v] /\ Traced(v)
      BY <1>1, <2>10 DEF Amid, Recorded
    <3>2. work[v].mail # m
      BY <1>1, <2>10 DEF Turns, Busy, m
    <3>3. ImportsOf(work[v].mail)' = ImportsOf(work[v].mail)
      <4>1. PICK k : k = work[v].mail
        OBVIOUS
      <4>2. ImportsOf(k)' = ImportsOf(k)
        BY <2>8, <3>2, <4>1
      <4>3. QED
        BY <3>1, <4>1, <4>2 DEF ImportsOf
    <3>4. OrdersBook(work[v].mail)' = OrdersBook(work[v].mail)
      <4>1. OrdersBook(work'[v].mail) = OrdersBook(work[v].mail)
        BY <3>1
      <4>2. OrdersBook(work[v].mail)' = OrdersBook(work'[v].mail)
        BY Zenon DEF OrdersBook, FirstOf
      <4>3. QED
        BY <4>1, <4>2
    <3>5. QED
      BY <2>3, <2>5, <3>1, <3>3, <3>4 DEF Traced
  <2>11. QED
    BY <2>6, <2>9, <2>10 DEF Recorded
<1>4. QED
  BY <1>1, <1>2, <1>3

LEMMA EndsRecorded ==
  ASSUME Shape, Turns, Recorded, NEW w \in Workers,
         \/ Fail(w) \/ Complete(w) \/ Die(w) \/ \E m \in Mails : Take(w, m)
  PROVE  Recorded'
<1>1. CASE Fail(w)
  BY <1>1, FailMeans, TracedOn, RecordedKept DEF Quiet
<1>2. CASE Complete(w) \/ Die(w)
  <2>1. /\ imports' = imports /\ work'[w] = Idle
        /\ \A v \in Workers : v # w => work'[v] = work[v]
    BY <1>2, CompleteMeans, DieMeans DEF Quiet
  <2>2. Traced(w)'
    BY <2>1, IdleKnown DEF Traced, OfOrders
  <2>3. QED
    BY <2>1, <2>2, RecordedKept
<1>3. ASSUME NEW m \in Mails, Take(w, m)
      PROVE  Recorded'
  <2>1. /\ imports' = imports /\ \A v \in Workers : v # w => work'[v] = work[v]
        /\ work'[w].mail = m /\ work'[w].at \in {"fetchPlaces", "seek"}
        /\ work'[w].at = "seek" => OrdersBook(m) # Unset
    <3>1. /\ Quiet /\ \A v \in Workers : v # w => work'[v] = work[v]
          /\ work'[w] = Begun(m, First(m)) /\ First(m) \in {"fetchPlaces", "seek"}
          /\ First(m) = "seek" => OrdersBook(m) # Unset
      BY <1>3, TakeMeans
    <3>2. work'[w].mail = m /\ work'[w].at = First(m)
      BY <3>1 DEF Begun
    <3>3. QED
      BY <3>1, <3>2 DEF Quiet
  <2>2. \A k : OrdersBook(k)' = OrdersBook(k)
    BY Zenon DEF OrdersBook, FirstOf
  <2>3. Traced(w)'
    BY <2>1, <2>2 DEF Traced, OfOrders
  <2>4. QED
    BY <2>1, <2>3, RecordedKept
<1>4. QED
  BY <1>1, <1>2, <1>3

-----------------------------------------------------------------------------
(* The tenders of a batch and their runs.                                   *)

\* What is on record stays; lifecycles and rows are added.
Extended ==
  /\ \A t \in 1..Len(tenders) : tenders'[t] = tenders[t]
  /\ \A i \in DOMAIN imports : imports'[i] = imports[i]
  /\ lifecycles \subseteq lifecycles'

LEMMA BatchKnown ==
  ASSUME Shape, References, NEW w \in Workers
  PROVE  /\ Batch(w) \subseteq 1..Len(tenders)
         /\ \A i \in DOMAIN work[w].ids : work[w].ids[i] # 0 => work[w].ids[i] \in Batch(w)
         /\ \A t \in Batch(w) : tenders[t].import \in DOMAIN imports
<1>1. /\ work[w].ids \in Seq(Nat) /\ DOMAIN work[w].ids = 1..Len(work[w].ids)
      /\ \A i \in DOMAIN work[w].ids : work[w].ids[i] \in Nat
      /\ Len(tenders) \in Nat /\ DOMAIN tenders = 1..Len(tenders)
  BY Lengths
<1>2. \A i \in DOMAIN work[w].ids : work[w].ids[i] <= Len(tenders)
  BY DEF References, Within
<1>3. \A i \in DOMAIN work[w].ids : work[w].ids[i] # 0 => work[w].ids[i] \in 1..Len(tenders)
  BY <1>1, <1>2
<1>4. \A t : t \in Batch(w) <=> t # 0 /\ \E i \in DOMAIN work[w].ids : work[w].ids[i] = t
  BY <1>1 DEF Batch, ToSet
<1>5. Batch(w) \subseteq 1..Len(tenders)
  BY <1>3, <1>4
<1>6. \A t \in Batch(w) : tenders[t].import \in DOMAIN imports
  BY <1>1, <1>5 DEF References
<1>7. QED
  BY <1>4, <1>5, <1>6

LEMMA SameBatch ==
  ASSUME NEW w \in Workers, work'[w].ids = work[w].ids
  PROVE  Batch(w)' = Batch(w)
BY Zenon DEF Batch, ToSet

LEMMA BatchedKept ==
  ASSUME Shape, References, Batches, Extended, NEW w \in Workers, work'[w] = work[w],
         Starting(w) => \A t \in Batch(w) : started'[t] = started[t]
  PROVE  Batched(w)'
<1>1. Batched(w)
  BY DEF Batches
<1>2. Starting(w)' <=> Starting(w)
  BY DEF Starting
<1>3. RowsToStart(w)' = RowsToStart(w)
  BY Zenon DEF RowsToStart
<1>4. Batch(w)' = Batch(w)
  BY SameBatch
<1>5. ASSUME Starting(w)
      PROVE  /\ \A t \in Batch(w) : imports'[tenders'[t].import] = work[w].mail
             /\ \A i \in RowsToStart(w) : started'[work[w].ids[i]] = 0
  <2>1. \A t \in Batch(w) : imports'[tenders'[t].import] = work[w].mail
    BY <1>1, <1>5, BatchKnown DEF Batched, Extended
  <2>2. \A i \in RowsToStart(w) : work[w].ids[i] \in Batch(w)
    BY BatchKnown DEF RowsToStart
  <2>3. QED
    BY <1>1, <1>5, <2>1, <2>2 DEF Batched
<1>6. ASSUME work[w].at = "queue"
      PROVE  started'[work[w].ids[work[w].row]] = 0 /\ work[w].ids[work[w].row] \in lifecycles'
  <2>1. work[w].ids[work[w].row] \in Batch(w)
    BY <1>1, <1>6, BatchKnown DEF Batched
  <2>2. QED
    BY <1>1, <1>6, <2>1 DEF Batched, Starting, Extended
<1>7. QED
  BY <1>1, <1>2, <1>3, <1>4, <1>5, <1>6 DEF Batched

(* A step of one worker, as the others see it.                              *)
LEMMA OthersBatched ==
  ASSUME Shape, References, Batches, Extended, NEW w \in Workers, Batched(w)',
         \A v \in Workers : v # w => work'[v] = work[v],
         \A v \in Workers : v # w /\ Starting(v) =>
           /\ \A t \in Batch(v) : started'[t] = started[t]
           /\ Starting(w)' => Batch(v) \cap Batch(w)' = {}
  PROVE  Batches'
<1>1. \A v \in Workers : v # w => Batched(v)'
  BY BatchedKept
<1>2. \A v \in Workers : v # w => Batch(v)' = Batch(v)
  BY SameBatch
<1>3. \A v \in Workers : v # w => (Starting(v)' <=> Starting(v))
  BY DEF Starting
<1>4. \A u, v \in Workers : u # v => Apart(u, v)'
  BY <1>2, <1>3 DEF Batches, Apart
<1>5. QED
  BY <1>1, <1>4 DEF Batches

(* A step after which the worker starts nothing and no run has been queued. *)
LEMMA NothingStarted ==
  ASSUME Shape, References, Batches, StartedOnce, NEW w \in Workers,
         \A v \in Workers : v # w => work'[v] = work[v],
         work'[w].at \notin {"start", "queue"}, work'[w].row = 0,
         UNCHANGED <<tenders, started, lifecycles>>,
         \A i \in DOMAIN imports : imports'[i] = imports[i]
  PROVE  Batches' /\ StartedOnce'
<1>1. Extended
  BY DEF Extended
<1>2. Batched(w)'
  BY DEF Batched, Starting
<1>3. ~Starting(w)'
  BY DEF Starting
<1>4. Batches'
  BY <1>1, <1>2, <1>3, OthersBatched
<1>5. StartedOnce'
  BY DEF StartedOnce
<1>6. QED
  BY <1>4, <1>5

LEMMA PersistBatches ==
  ASSUME Shape, References, Turns, Recorded, Batches, StartedOnce, NEW w \in Workers, Persist(w)
  PROVE  Batches' /\ StartedOnce'
<1> DEFINE n == Len(tenders)
           size == Size(w)
<1>1. /\ Amid(w) /\ UNCHANGED <<imports, lifecycles>> /\ work[w].at = "persist"
      /\ \/ Leaves(w) /\ tenders' = tenders /\ started' = started
         \/ /\ tenders' = tenders \o Cut(w) /\ started' = started \o Zeros(size)
            /\ work'[w].at = "start" /\ work'[w].ids = TenderIds(Rows(w), n)
            /\ work'[w].import = work[w].import /\ work'[w].row = work[w].row
  BY PersistMeans DEF Zeros
<1>2. CASE Leaves(w) /\ tenders' = tenders /\ started' = started
  BY <1>1, <1>2, NothingStarted DEF Amid, Leaves, Begun
<1>3. CASE /\ tenders' = tenders \o Cut(w) /\ started' = started \o Zeros(size)
           /\ work'[w].at = "start" /\ work'[w].ids = TenderIds(Rows(w), n)
           /\ work'[w].import = work[w].import /\ work'[w].row = work[w].row
  <2>1. /\ DOMAIN tenders' = 1..(n + size) /\ \A t \in 1..n : tenders'[t] = tenders[t]
        /\ \A t \in (n + 1)..(n + size) : tenders'[t].import = work[w].import
        /\ \A t \in 1..n : started'[t] = started[t]
        /\ \A t \in (n + 1)..(n + size) : started'[t] = 0
    BY <1>1, <1>3, Joined, Zenon
  <2>2. size \in Nat /\ Rows(w) \in Seq([Columns -> STRING \X STRING])
    BY <1>1, CutMeans
  <2>3. n \in Nat /\ DOMAIN tenders = 1..n
    BY Lengths
  <2>4. /\ work'[w].ids \in Seq(Nat)
        /\ \A i \in DOMAIN work'[w].ids : work'[w].ids[i] \in {0} \cup (n + 1)..(n + size)
    BY <1>3, <2>2, <2>3, IdsMean DEF Size
  <2> HIDE DEF n, size
  <2>5. Batch(w)' \subseteq (n + 1)..(n + size)
    <3>1. \A t : t \in Batch(w)' <=> t # 0 /\ \E i \in DOMAIN work'[w].ids : work'[w].ids[i] = t
      BY Zenon DEF Batch, ToSet
    <3>2. QED
      BY <2>4, <3>1
  <2>6. Extended
    BY <1>1, <2>1 DEF Extended, n
  <2>7. imports[work[w].import] = work[w].mail /\ work'[w].mail = work[w].mail
    BY <1>1 DEF Recorded, Traced, Amid
  <2>8. Batched(w)'
    <3>1. \A t \in Batch(w)' : imports'[tenders'[t].import] = work'[w].mail
      BY <1>1, <2>1, <2>5, <2>7
    <3>2. \A i \in RowsToStart(w)' : started'[work'[w].ids[i]] = 0
      <4>1. \A i \in RowsToStart(w)' : i \in DOMAIN work'[w].ids /\ work'[w].ids[i] # 0
        BY Zenon DEF RowsToStart
      <4>2. QED
        BY <2>1, <2>4, <4>1
    <3>3. QED
      BY <1>3, <3>1, <3>2 DEF Batched, Starting
  <2>9. \A v \in Workers : /\ \A t \in Batch(v) : started'[t] = started[t]
                           /\ Batch(v) \cap Batch(w)' = {}
    <3>1. \A v \in Workers : Batch(v) \subseteq 1..n
      BY BatchKnown DEF n
    <3>2. (1..n) \cap ((n + 1)..(n + size)) = {}
      BY <2>2, <2>3
    <3>3. QED
      BY <2>1, <2>5, <3>1, <3>2
  <2>10. Batches'
    BY <1>1, <2>6, <2>8, <2>9, OthersBatched DEF Amid
  <2>11. StartedOnce'
    <3>1. \A t \in 1..(n + size) : t \in 1..n \/ t \in (n + 1)..(n + size)
      BY <2>2, <2>3
    <3>2. \A t \in 1..n : started'[t] <= 1 /\ (started'[t] = 1 => t \in lifecycles')
      BY <1>1, <2>1, <2>3 DEF StartedOnce
    <3>3. \A t \in (n + 1)..(n + size) : started'[t] <= 1 /\ started'[t] # 1
      BY <2>1
    <3>4. QED
      BY <2>1, <3>1, <3>2, <3>3 DEF StartedOnce
  <2>12. QED
    BY <2>10, <2>11
<1>4. QED
  BY <1>1, <1>2, <1>3

(* The rest of the rows is still to be started.                             *)
LEMMA StartBatches ==
  ASSUME Shape, References, Batches, StartedOnce, NEW w \in Workers, Start(w)
  PROVE  Batches' /\ StartedOnce'
<1>1. /\ Amid(w) /\ UNCHANGED <<imports, tenders, started>> /\ work[w].at = "start"
      /\ \/ Leaves(w) /\ lifecycles' = lifecycles
         \/ /\ RowsToStart(w) # {}
            /\ lifecycles' = lifecycles \cup {work[w].ids[NextRow(w)]}
            /\ work'[w].at = "queue" /\ work'[w].row = NextRow(w)
            /\ work'[w].ids = work[w].ids
  BY StartMeans
<1>2. CASE Leaves(w) /\ lifecycles' = lifecycles
  BY <1>1, <1>2, NothingStarted DEF Amid, Leaves, Begun
<1>3. CASE /\ RowsToStart(w) # {}
           /\ lifecycles' = lifecycles \cup {work[w].ids[NextRow(w)]}
           /\ work'[w].at = "queue" /\ work'[w].row = NextRow(w)
           /\ work'[w].ids = work[w].ids
  <2>1. /\ NextRow(w) \in RowsToStart(w) /\ NextRow(w) \in DOMAIN work[w].ids
        /\ NextRow(w) \in Nat /\ work[w].row < NextRow(w) /\ work[w].ids[NextRow(w)] # 0
    BY <1>3, NextRowKnown
  <2>2. Batched(w) /\ Starting(w)
    BY <1>1 DEF Batches, Starting
  <2>3. RowsToStart(w)' \subseteq RowsToStart(w)
    <3>1. \A i \in DOMAIN work[w].ids : i \in Nat /\ work[w].row \in Nat
      BY Lengths
    <3>2. \A i \in DOMAIN work[w].ids : i > NextRow(w) => i > work[w].row
      BY <2>1, <3>1
    <3>3. QED
      BY <1>3, <3>2, Zenon DEF RowsToStart
  <2>4. Batch(w)' = Batch(w)
    BY <1>3, SameBatch
  <2>5. Batched(w)'
    <3>1. work'[w].mail = work[w].mail
      BY <1>1 DEF Amid
    <3>2. /\ \A t \in Batch(w)' : imports'[tenders'[t].import] = work'[w].mail
          /\ \A i \in RowsToStart(w)' : started'[work'[w].ids[i]] = 0
          /\ started'[work'[w].ids[NextRow(w)]] = 0
      BY <1>1, <1>3, <2>1, <2>2, <2>3, <2>4, <3>1 DEF Batched
    <3>3. QED
      BY <1>3, <2>1, <3>2 DEF Batched, Starting
  <2>6. Extended
    BY <1>1, <1>3 DEF Extended
  <2>7. Batches'
    BY <1>1, <2>2, <2>4, <2>5, <2>6, OthersBatched DEF Amid, Batches, Apart
  <2>8. StartedOnce'
    BY <1>1, <1>3 DEF StartedOnce
  <2>9. QED
    BY <2>7, <2>8
<1>4. QED
  BY <1>1, <1>2, <1>3

LEMMA QueueBatches ==
  ASSUME Shape, References, Batches, StartedOnce, NEW w \in Workers, Queue(w)
  PROVE  Batches' /\ StartedOnce'
<1>1. /\ Amid(w) /\ UNCHANGED <<imports, tenders, lifecycles>> /\ work[w].at = "queue"
      /\ \/ Leaves(w) /\ started' = started
         \/ Goes(w, "queue", "start") /\ started' = [started EXCEPT ![Due(w)] = @ + 1]
  BY QueueMeans
<1>2. CASE Leaves(w) /\ started' = started
  BY <1>1, <1>2, NothingStarted DEF Amid, Leaves, Begun
<1>3. CASE Goes(w, "queue", "start") /\ started' = [started EXCEPT ![Due(w)] = @ + 1]
  <2>1. Batched(w) /\ Starting(w)
    BY <1>1 DEF Batches, Starting
  <2>2. /\ work[w].row \in DOMAIN work[w].ids /\ Due(w) # 0
        /\ started[Due(w)] = 0 /\ Due(w) \in lifecycles
    BY <1>1, <2>1 DEF Batched, Due
  <2>3. /\ Due(w) \in Batch(w) /\ Batch(w) \subseteq DOMAIN tenders
        /\ DOMAIN started = DOMAIN tenders /\ DOMAIN tenders = 1..Len(tenders)
        /\ \A v \in Workers : Batch(v) \subseteq DOMAIN tenders
    BY <2>2, BatchKnown, Lengths DEF Due
  <2>4. \A t \in DOMAIN tenders :
          started'[t] = IF t = Due(w) THEN started[t] + 1 ELSE started[t]
    BY <1>3, <2>3, Counted
  <2>5. \A v \in Workers : v # w /\ Starting(v) =>
          /\ \A t \in Batch(v) : started'[t] = started[t]
          /\ Batch(v) \cap Batch(w) = {}
    <3>1. \A v \in Workers : v # w /\ Starting(v) => Batch(v) \cap Batch(w) = {}
      BY <2>1 DEF Batches, Apart
    <3>2. QED
      BY <2>3, <2>4, <3>1
  <2>6. /\ work'[w].at = "start" /\ work'[w].ids = work[w].ids /\ work'[w].row = work[w].row
        /\ work'[w].mail = work[w].mail
    BY <1>1, <1>3 DEF Goes, Amid
  <2>7. Batch(w)' = Batch(w)
    BY <2>6, SameBatch
  <2>8. RowsToStart(w)' = RowsToStart(w)
    BY <2>6, Zenon DEF RowsToStart
  <2>9. \A i \in RowsToStart(w) : work[w].ids[i] \in Batch(w) /\ work[w].ids[i] # Due(w)
    <3>1. \A i \in RowsToStart(w) :
            /\ i \in DOMAIN work[w].ids /\ work[w].ids[i] # 0 /\ work[w].row < i
            /\ \A j \in 1..(i - 1) : work[w].ids[j] # work[w].ids[i]
      BY Lengths DEF RowsToStart
    <3>2. \A i \in RowsToStart(w) : work[w].row \in 1..(i - 1)
      <4>1. /\ work[w].row \in Nat /\ 1 <= work[w].row
            /\ \A i \in RowsToStart(w) : i \in Nat
        <5>1. /\ work[w].row \in Nat /\ work[w].row \in DOMAIN work[w].ids
              /\ DOMAIN work[w].ids = 1..Len(work[w].ids) /\ Len(work[w].ids) \in Nat
          BY <2>2, Lengths, Zenon
        <5>2. \A n \in Nat : \A i \in 1..n : i \in Nat /\ 1 <= i
          OBVIOUS
        <5>3. QED
          BY <3>1, <5>1, <5>2, Zenon
      <4>2. \A r, i \in Nat : 1 <= r /\ r < i => r \in 1..(i - 1)
        OBVIOUS
      <4>3. QED
        BY <3>1, <4>1, <4>2, Zenon
    <3>3. QED
      BY <3>1, <3>2, BatchKnown DEF Due
  <2>10. Batched(w)'
    <3>1. \A t \in Batch(w)' : imports'[tenders'[t].import] = work'[w].mail
      BY <1>1, <2>1, <2>6, <2>7 DEF Batched
    <3>2. \A i \in RowsToStart(w)' : started'[work'[w].ids[i]] = 0
      BY <2>1, <2>3, <2>4, <2>6, <2>8, <2>9 DEF Batched
    <3>3. QED
      BY <2>6, <3>1, <3>2 DEF Batched, Starting
  <2>11. Extended
    BY <1>1 DEF Extended
  <2>12. Batches'
    BY <1>1, <2>5, <2>7, <2>10, <2>11, OthersBatched DEF Amid
  <2>13. StartedOnce'
    BY <1>1, <2>2, <2>3, <2>4 DEF StartedOnce
  <2>14. QED
    BY <2>12, <2>13
<1>4. QED
  BY <1>1, <1>2, <1>3

LEMMA EndsBatches ==
  ASSUME Shape, References, Turns, Batches, StartedOnce, NEW w \in Workers,
         \/ Fail(w) \/ Complete(w) \/ Die(w) \/ \E m \in Mails : Take(w, m)
  PROVE  Batches' /\ StartedOnce'
<1>1. CASE Fail(w)
  <2>1. /\ Quiet /\ Leaves(w) /\ \A v \in Workers : v # w => work'[v] = work[v]
    BY <1>1, FailMeans
  <2>2. work'[w].at \in {"failed", "complete"} /\ work'[w].row = 0
    BY <2>1 DEF Leaves, Begun
  <2>3. QED
    BY <2>1, <2>2, NothingStarted DEF Quiet
<1>2. CASE Complete(w) \/ Die(w)
  <2>1. /\ Quiet /\ work'[w] = Idle /\ \A v \in Workers : v # w => work'[v] = work[v]
    BY <1>2, CompleteMeans, DieMeans
  <2>2. QED
    BY <2>1, IdleKnown, NothingStarted DEF Quiet
<1>3. ASSUME NEW m \in Mails, Take(w, m)
      PROVE  Batches' /\ StartedOnce'
  <2>1. /\ Quiet /\ \A v \in Workers : v # w => work'[v] = work[v]
        /\ work'[w] = Begun(m, First(m)) /\ First(m) \in {"fetchPlaces", "seek"}
    BY <1>3, TakeMeans
  <2>2. work'[w].at = First(m) /\ work'[w].row = 0
    BY <2>1 DEF Begun
  <2>3. QED
    BY <2>1, <2>2, NothingStarted DEF Quiet
<1>4. QED
  BY <1>1, <1>2, <1>3

(* The stages before the tenders, which start nothing.                      *)
Early(w) ==
  \/ FetchPlaces(w) \/ FindPlaces(w) \/ WritePlaces(w) \/ Seek(w) \/ Fetch(w)
  \/ Record(w) \/ Project(w) \/ Index(w)

LEMMA EarlyKeeps ==
  ASSUME Shape, References, Turns, Recorded, NEW w \in Workers, Early(w)
  PROVE  /\ work[w].at \notin {"start", "queue"} /\ work'[w].at \notin {"start", "queue"}
         /\ Leaves(w) \/ work'[w].row = work[w].row
         /\ UNCHANGED <<tenders, started, lifecycles>>
         /\ \A i \in DOMAIN imports : imports'[i] = imports[i]
<1>1. CASE FetchPlaces(w)
  BY <1>1, FetchPlacesMeans DEF Quiet, Goes, Leaves
<1>2. CASE FindPlaces(w)
  BY <1>2, FindPlacesMeans DEF Tables
<1>3. CASE WritePlaces(w)
  BY <1>3, WritePlacesMeans DEF Leaves, AfterPlaces
<1>4. CASE Seek(w)
  BY <1>4, SeekMeans DEF Quiet, Goes, Leaves
<1>5. CASE Fetch(w)
  BY <1>5, FetchMeans DEF Quiet, Goes, Leaves
<1>6. CASE Record(w)
  <2>1. /\ work[w].at = "record" /\ UNCHANGED <<tenders, started, lifecycles>>
        /\ \/ Leaves(w) /\ imports' = imports
           \/ /\ imports' = Append(imports, work[w].mail)
              /\ work'[w].at = "project" /\ work'[w].row = work[w].row
    BY <1>6, RecordMeans
  <2>2. imports \in Seq(Mails) /\ work[w].mail \in Mails
    BY <2>1, RecordsTyped DEF Stages, Shape, Turns, Busy
  <2>3. /\ DOMAIN imports = 1..Len(imports)
        /\ \A i \in 1..Len(imports) : Append(imports, work[w].mail)[i] = imports[i]
    BY <2>2, AppendProperties, LenProperties
  <2>4. QED
    BY <2>1, <2>3 DEF Leaves
<1>7. CASE Project(w)
  BY <1>7, ProjectMeans DEF Quiet, Goes, Leaves
<1>8. CASE Index(w)
  BY <1>8, IndexMeans DEF Quiet
<1>9. QED
  BY <1>1, <1>2, <1>3, <1>4, <1>5, <1>6, <1>7, <1>8 DEF Early

LEMMA EarlyBatches ==
  ASSUME Shape, References, Turns, Recorded, Batches, StartedOnce, NEW w \in Workers, Early(w)
  PROVE  Batches' /\ StartedOnce'
<1>1. work[w].at \notin {"start", "queue"} => work[w].row = 0
  BY DEF Batches, Batched, Starting
<1>2. Amid(w)
  BY IngestAmid, Zenon DEF Ingest, Early
<1>3. /\ work[w].at \notin {"start", "queue"} /\ work'[w].at \notin {"start", "queue"}
      /\ Leaves(w) \/ work'[w].row = work[w].row
      /\ UNCHANGED <<tenders, started, lifecycles>>
      /\ \A i \in DOMAIN imports : imports'[i] = imports[i]
  BY EarlyKeeps
<1>4. work'[w].row = 0
  BY <1>1, <1>3 DEF Leaves, Begun
<1>5. QED
  BY <1>2, <1>3, <1>4, NothingStarted DEF Amid

-----------------------------------------------------------------------------
(* All of it together.                                                      *)

LEMMA InitInv == Init => Inv
<1> SUFFICES ASSUME Init PROVE Inv
  OBVIOUS
<1>1. /\ delivered = [m \in Mails |-> 0] /\ inbox = [m \in Mails |-> 0]
      /\ failed = [m \in Mails |-> 0] /\ broker = {} /\ work = [w \in Workers |-> Idle]
      /\ clock = 0 /\ places = <<>> /\ imports = <<>> /\ tenders = <<>>
      /\ lifecycles = {} /\ started = <<>> /\ deaths = 0
  BY DEF Init
<1>2. \A w \in Workers : work[w] = Idle
  BY <1>1
<1>3. DOMAIN imports = {} /\ DOMAIN places = {} /\ DOMAIN tenders = {}
      /\ Len(imports) = 0 /\ Len(places) = 0 /\ Len(tenders) = 0 /\ Len(started) = 0
  BY <1>1, EmptySeq
<1>4. Shape
  <2>1. /\ {delivered, inbox, failed} \subseteq [Mails -> Nat] /\ broker \subseteq Mails
        /\ clock \in Nat /\ lifecycles \subseteq 1..Len(tenders)
    BY <1>1
  <2>2. \A m \in Mails : delivered[m] <= MaxDeliveries[m]
    BY <1>1, BoundsAssumption
  <2>3. work \in [Workers -> Works]
    BY <1>1, IdleKnown
  <2>4. /\ places \in Seq(PlaceRows) /\ imports \in Seq(Mails) /\ tenders \in Seq(TenderRows)
        /\ started \in Seq(Nat)
    BY <1>1, EmptySeq
  <2>5. deaths \in 0..MaxDeaths
    BY <1>1, BoundsAssumption
  <2>6. QED
    BY <1>3, <2>1, <2>2, <2>3, <2>4, <2>5 DEF Shape
<1>5. References
  <2>1. \A w \in Workers : DOMAIN work[w].ids = {} /\ Len(work[w].ids) = 0
    BY <1>2, IdleKnown, EmptySeq
  <2>2. \A w \in Workers : Within(w)
    BY <1>1, <1>2, <1>3, <2>1, IdleKnown DEF Within
  <2>3. QED
    BY <1>3, <2>2 DEF References
<1>6. Turns
  BY <1>1, <1>2, IdleKnown DEF Turns, Busy
<1>7. Tally
  BY <1>1 DEF Tally
<1>8. Recorded
  BY <1>2, <1>3, IdleKnown DEF Recorded, Traced, IsInjective, OfOrders
<1>9. Batches
  BY <1>2, IdleKnown DEF Batches, Batched, Apart, Starting
<1>10. StartedOnce
  BY <1>3 DEF StartedOnce
<1>11. QED
  BY <1>4, <1>5, <1>6, <1>7, <1>8, <1>9, <1>10 DEF Inv

LEMMA IngestInv ==
  ASSUME Inv, NEW w \in Workers, Ingest(w)
  PROVE  Inv'
<1> USE DEF Inv
<1>1. Amid(w) /\ Turns' /\ Tally'
  BY IngestAmid, AmidTurns
<1>2. Shape' /\ References'
  BY QuietSteps, FindPlacesShape, WritePlacesShape, RecordShape, PersistShape, StartShape,
     QueueShape, Zenon DEF Ingest
<1>3. Recorded'
  BY RecordedStep, RecordRecorded
<1>4. Batches' /\ StartedOnce'
  BY EarlyBatches, PersistBatches, StartBatches, QueueBatches, Zenon DEF Ingest, Early
<1>5. QED
  BY <1>1, <1>2, <1>3, <1>4

LEMMA EndsInv ==
  ASSUME Inv, NEW w \in Workers,
         \/ Fail(w) \/ Complete(w) \/ Die(w) \/ \E m \in Mails : Take(w, m)
  PROVE  Inv'
<1> USE DEF Inv
<1>1. Turns' /\ Tally'
  BY FailTurns, CompleteTurns, DieTurns, TakeTurns, Zenon
<1>2. Shape' /\ References' /\ Recorded' /\ Batches' /\ StartedOnce'
  BY EndsShape, EndsRecorded, EndsBatches, Zenon
<1>3. QED
  BY <1>1, <1>2

LEMMA DeliverInv ==
  ASSUME Inv, NEW m \in Mails, Deliver(m)
  PROVE  Inv'
<1> USE DEF Inv
<1>1. Turns' /\ Tally' /\ Shape' /\ References'
  BY DeliverTurns, DeliverShape
<1>2. work' = work /\ Quiet
  BY DeliverMeans
<1>3. Recorded'
  <2>1. \A k : OrdersBook(k)' = OrdersBook(k) /\ ImportsOf(k)' = ImportsOf(k)
    BY <1>2, Zenon DEF ImportsOf, OrdersBook, FirstOf, Quiet
  <2>2. QED
    BY <1>2, <2>1, Zenon DEF Recorded, Traced, Quiet
<1>4. Batches' /\ StartedOnce'
  <2>1. \A v \in Workers : /\ Batch(v)' = Batch(v) /\ RowsToStart(v)' = RowsToStart(v)
                           /\ Starting(v)' <=> Starting(v)
    BY <1>2, Zenon DEF Batch, ToSet, RowsToStart, Starting
  <2>2. Batches'
    BY <1>2, <2>1, Zenon DEF Batches, Batched, Apart, Quiet
  <2>3. StartedOnce'
    BY <1>2 DEF StartedOnce, Quiet
  <2>4. QED
    BY <2>2, <2>3
<1>5. QED
  BY <1>1, <1>3, <1>4

LEMMA StillInv == ASSUME Inv, UNCHANGED vars PROVE Inv'
<1>1. /\ UNCHANGED <<delivered, inbox, broker, work, failed, deaths>> /\ Quiet
  BY Zenon DEF vars, Quiet
<1>2. Shape' /\ References'
  BY <1>1 DEF Inv, Shape, References, Within, Quiet
<1>3. Turns' /\ Tally'
  <2>1. \A m \in Mails : (Heavy(m)' <=> Heavy(m)) /\ (Open(m)' <=> Open(m))
    BY <1>1, Zenon DEF Heavy, Open
  <2>2. \A w \in Workers : Busy(w)' <=> Busy(w)
    BY <1>1, Zenon DEF Busy
  <2>3. QED
    BY <1>1, <2>1, <2>2 DEF Inv, Turns, Tally
<1>4. Recorded'
  <2>1. \A k : OrdersBook(k)' = OrdersBook(k) /\ ImportsOf(k)' = ImportsOf(k)
    BY <1>1, Zenon DEF ImportsOf, OrdersBook, FirstOf, Quiet
  <2>2. QED
    BY <1>1, <2>1, Zenon DEF Inv, Recorded, Traced, Quiet
<1>5. Batches' /\ StartedOnce'
  <2>1. \A v \in Workers : /\ Batch(v)' = Batch(v) /\ RowsToStart(v)' = RowsToStart(v)
                           /\ Starting(v)' <=> Starting(v)
    BY <1>1, Zenon DEF Batch, ToSet, RowsToStart, Starting
  <2>2. Batches'
    BY <1>1, <2>1, Zenon DEF Inv, Batches, Batched, Apart, Quiet
  <2>3. StartedOnce'
    BY <1>1 DEF Inv, StartedOnce, Quiet
  <2>4. QED
    BY <2>2, <2>3
<1>6. QED
  BY <1>2, <1>3, <1>4, <1>5 DEF Inv

LEMMA Invariance == Spec => []Inv
<1>1. ASSUME Inv, [Next]_vars
      PROVE  Inv'
  <2>1. CASE UNCHANGED vars
    BY <1>1, <2>1, StillInv
  <2>2. CASE Next
    BY <1>1, <2>2, IngestInv, EndsInv, DeliverInv, Zenon DEF Next, Attempt
  <2>3. QED
    BY <1>1, <2>1, <2>2
<1>2. QED
  BY <1>1, InitInv, PTL DEF Spec

(* A sequence of members of a smaller set is one over that set.             *)
LEMMA Narrowed ==
  ASSUME NEW S, NEW T, NEW s \in Seq(S), \A i \in DOMAIN s : s[i] \in T
  PROVE  s \in Seq(T)
<1>1. Len(s) \in Nat /\ DOMAIN s = 1..Len(s) /\ s = [i \in 1..Len(s) |-> s[i]]
  BY LenProperties
<1>2. [i \in 1..Len(s) |-> s[i]] \in Seq(T)
  BY <1>1, IsASeq
<1>3. QED
  BY <1>1, <1>2

LEMMA InvTypeOK == Inv => TypeOK
<1> SUFFICES ASSUME Inv PROVE TypeOK
  OBVIOUS
<1> USE DEF Inv
<1>1. \A m \in Mails : {delivered[m], inbox[m], failed[m]} \subseteq 0..MaxDeliveries[m]
  <2>1. SUFFICES ASSUME NEW m \in Mails
                 PROVE  {delivered[m], inbox[m], failed[m]} \subseteq 0..MaxDeliveries[m]
    OBVIOUS
  <2>2. /\ delivered[m] \in Nat /\ inbox[m] \in Nat /\ failed[m] \in Nat
        /\ delivered[m] <= MaxDeliveries[m] /\ MaxDeliveries[m] \in Nat
    BY BoundsAssumption DEF Shape
  <2>3. /\ inbox[m] <= delivered[m] /\ failed[m] + inbox[m] <= delivered[m] + 1
        /\ inbox[m] = 0 => failed[m] + inbox[m] <= delivered[m]
    BY DEF Tally
  <2>4. failed[m] <= delivered[m]
    BY <2>2, <2>3
  <2>5. QED
    BY <2>2, <2>3, <2>4
<1>2. ASSUME NEW w \in Workers
      PROVE  /\ work[w].at \in Stages
             /\ work[w].mail \in Mails \cup {Unset}
             /\ work[w].try \in 1..FetchAttempts
             /\ work[w].found \in 0..Len(places)
             /\ work[w].since \in 0..clock
             /\ work[w].import \in 0..Len(imports)
             /\ work[w].from \in Mails \cup {NoPlaces}
             /\ work[w].ids \in Seq(0..Len(tenders))
             /\ work[w].row \in 0..Len(work[w].ids)
  <2>1. /\ work[w].at \in Stages /\ work[w].mail \in Mails \cup {Unset}
        /\ work[w].try \in 1..FetchAttempts /\ work[w].from \in Mails \cup {NoPlaces}
    BY DEF Shape, Works
  <2>2. /\ work[w].found \in Nat /\ work[w].since \in Nat /\ work[w].import \in Nat
        /\ work[w].row \in Nat /\ work[w].ids \in Seq(Nat) /\ Len(work[w].ids) \in Nat
        /\ \A i \in DOMAIN work[w].ids : work[w].ids[i] \in Nat
        /\ clock \in Nat /\ Len(places) \in Nat /\ Len(imports) \in Nat /\ Len(tenders) \in Nat
    BY Lengths
  <2>3. Within(w)
    BY DEF References
  <2>4. \A a, b \in Nat : a <= b => a \in 0..b
    OBVIOUS
  <2>5. /\ work[w].found \in 0..Len(places) /\ work[w].since \in 0..clock
        /\ work[w].import \in 0..Len(imports) /\ work[w].row \in 0..Len(work[w].ids)
        /\ \A i \in DOMAIN work[w].ids : work[w].ids[i] \in 0..Len(tenders)
    BY <2>2, <2>3, <2>4, Zenon DEF Within
  <2>6. work[w].ids \in Seq(0..Len(tenders))
    BY <2>2, <2>5, Narrowed
  <2>7. QED
    BY <2>1, <2>5, <2>6
<1>3. places \in Seq([mail : Mails, since : 1..clock, done : 1..clock])
  <2>1. places \in Seq(PlaceRows)
    BY DEF Shape
  <2>2. \A p \in DOMAIN places : places[p] \in PlaceRows
    BY <2>1, LenProperties, ElementOfSeq
  <2>3. \A p \in DOMAIN places : {places[p].since, places[p].done} \subseteq 1..clock
    BY DEF References
  <2>4. \A p \in DOMAIN places : places[p] \in [mail : Mails, since : 1..clock, done : 1..clock]
    BY <2>2, <2>3 DEF PlaceRows
  <2>5. QED
    BY <2>1, <2>4, Narrowed
<1>4. /\ imports \in Seq(Mails) /\ broker \subseteq Mails /\ clock \in Nat
      /\ deaths \in 0..MaxDeaths
      /\ \A t \in DOMAIN tenders : tenders[t].import \in DOMAIN imports
  BY DEF Shape, References
<1>5. /\ lifecycles \subseteq DOMAIN tenders /\ DOMAIN started = DOMAIN tenders
      /\ \A t \in DOMAIN started : started[t] \in Nat
  BY LenProperties, ElementOfSeq, Lengths DEF Shape
<1>6. QED
  BY <1>1, <1>2, <1>3, <1>4, <1>5 DEF TypeOK

-----------------------------------------------------------------------------
(* Tenders without a run.                                                   *)

\* Why the tender t of mail m has none.
Cause(t, m) == failed[m] > 0 \/ Stuck(m) \/ \E w \in Workers : Underway(w, t)

LEMMA StrandedMeans ==
  StrandedAccounted <=>
    \A t \in DOMAIN tenders : started[t] = 0 => Cause(t, imports[tenders[t].import])
BY Zenon DEF StrandedAccounted, Cause

(* Who is still to start a tender has its mail in hand.                     *)
LEMMA UnderwayBusy ==
  ASSUME Inv, NEW w \in Workers, NEW t \in DOMAIN tenders, Underway(w, t)
  PROVE  /\ work[w].at \in {"failed", "start", "queue"}
         /\ work[w].mail = imports[tenders[t].import]
<1>1. work[w].at \in {"failed", "start", "queue"}
  BY DEF Underway
<1>2. CASE work[w].at = "failed"
  BY <1>2 DEF Underway
<1>3. CASE work[w].at \in {"start", "queue"}
  <2>1. t # 0
    BY Lengths DEF Inv
  <2>2. Batched(w) /\ Starting(w)
    BY <1>3 DEF Inv, Batches, Starting
  <2>3. t \in Batch(w)
    <3>1. \A i \in DOMAIN work[w].ids : work[w].ids[i] # 0 => work[w].ids[i] \in Batch(w)
      BY BatchKnown DEF Inv
    <3>2. \E i \in DOMAIN work[w].ids : work[w].ids[i] = t
      BY <1>3, <2>2 DEF Underway, RowsToStart, Batched
    <3>3. QED
      BY <2>1, <3>1, <3>2
  <2>4. QED
    BY <1>3, <2>2, <2>3 DEF Batched
<1>4. QED
  BY <1>1, <1>2, <1>3

\* The tenders on record are those they were, with the mail of each, and keep their runs.
SameTenders ==
  /\ tenders' = tenders /\ \A t \in DOMAIN tenders : started'[t] = 0 => started[t] = 0
  /\ \A i \in DOMAIN imports : imports'[i] = imports[i]

LEMMA UnderwayKept ==
  ASSUME Inv, \A i \in DOMAIN imports : imports'[i] = imports[i], NEW w \in Workers,
         NEW t \in DOMAIN tenders, tenders'[t] = tenders[t],
         work'[w] = work[w], Underway(w, t)
  PROVE  Underway(w, t)'
<1>1. RowsToStart(w)' = RowsToStart(w)
  BY Zenon DEF RowsToStart
<1>2. imports'[tenders'[t].import] = imports[tenders[t].import]
  BY DEF Inv, References
<1>3. QED
  BY <1>1, <1>2, Zenon DEF Underway

(* Where the reasons are kept, every tender still has one.                  *)
LEMMA StrandedKept ==
  ASSUME Inv, StrandedAccounted, SameTenders,
         \A t \in DOMAIN tenders : Cause(t, imports[tenders[t].import]) /\ started'[t] = 0 =>
           \A m : m = imports[tenders[t].import] => Cause(t, m)'
  PROVE  StrandedAccounted'
<1>1. ASSUME NEW t \in DOMAIN tenders, started'[t] = 0
      PROVE  (Cause(t, imports[tenders[t].import]))'
  <2>1. Cause(t, imports[tenders[t].import])
    BY <1>1, StrandedMeans DEF SameTenders
  <2>2. PICK m : m = imports[tenders[t].import]
    OBVIOUS
  <2>3. Cause(t, m)'
    BY <1>1, <2>1, <2>2
  <2>4. m = imports'[tenders'[t].import]
    BY <2>2 DEF SameTenders, Inv, References
  <2>5. QED
    BY <2>3, <2>4 DEF Cause, Stuck
<1>2. \A t \in DOMAIN tenders' : started'[t] = 0 => (Cause(t, imports[tenders[t].import]))'
  BY <1>1 DEF SameTenders
<1>3. QED
  BY <1>2, Zenon DEF StrandedAccounted, Cause

(* What the others are at is left to them; so is a mail nobody works on.    *)
LEMMA CauseKept ==
  ASSUME Inv, SameTenders, NEW w \in Workers, \A v \in Workers : v # w => work'[v] = work[v],
         NEW t \in DOMAIN tenders, NEW m, m = imports[tenders[t].import], started'[t] = 0,
         Cause(t, m), failed[m] > 0 => failed'[m] > 0, Stuck(m) => Stuck(m)',
         Underway(w, t) => Cause(t, m)'
  PROVE  Cause(t, m)'
<1>1. CASE failed[m] > 0 \/ Stuck(m)
  BY <1>1 DEF Cause
<1>2. ASSUME NEW v \in Workers, Underway(v, t)
      PROVE  Cause(t, m)'
  <2>1. CASE v = w
    BY <1>2, <2>1
  <2>2. CASE v # w
    BY <1>2, <2>2, UnderwayKept DEF Cause, SameTenders
  <2>3. QED
    BY <2>1, <2>2
<1>3. QED
  BY <1>1, <1>2 DEF Cause

LEMMA AmidStuck ==
  ASSUME NEW w \in Workers, Amid(w), NEW m
  PROVE  /\ Stuck(m)' <=> Stuck(m)
         /\ failed' = failed /\ \A v \in Workers : v # w => work'[v] = work[v]
BY DEF Amid, Stuck

LEMMA EarlyStranded ==
  ASSUME Inv, StrandedAccounted, NEW w \in Workers, Early(w)
  PROVE  StrandedAccounted'
<1>1. /\ SameTenders /\ work[w].at \notin {"start", "queue"}
  BY EarlyKeeps DEF Inv, SameTenders
<1>2. Amid(w)
  BY IngestAmid, Zenon DEF Ingest, Early, Inv
<1>3. \A t : ~Underway(w, t)
  BY <1>1, <1>2 DEF Underway, Amid
<1>4. QED
  BY <1>1, <1>2, <1>3, AmidStuck, CauseKept, StrandedKept

(* The tenders just inserted are those of rows that are still to be started. *)
LEMMA PersistStranded ==
  ASSUME Inv, StrandedAccounted, NEW w \in Workers, Persist(w)
  PROVE  StrandedAccounted'
<1> DEFINE n == Len(tenders)
           size == Size(w)
<1>1. /\ Amid(w) /\ UNCHANGED <<imports, lifecycles>> /\ work[w].at = "persist"
      /\ \/ Leaves(w) /\ tenders' = tenders /\ started' = started
         \/ /\ tenders' = tenders \o Cut(w) /\ started' = started \o Zeros(size)
            /\ work'[w].at = "start" /\ work'[w].ids = TenderIds(Rows(w), n)
            /\ work'[w].import = work[w].import /\ work'[w].row = work[w].row
  BY PersistMeans DEF Zeros, Inv
<1>2. \A t : ~Underway(w, t)
  BY <1>1 DEF Underway
<1>3. CASE Leaves(w) /\ tenders' = tenders /\ started' = started
  <2>1. SameTenders
    BY <1>1, <1>3 DEF SameTenders
  <2>2. QED
    BY <1>1, <1>2, <2>1, AmidStuck, CauseKept, StrandedKept
<1>4. CASE /\ tenders' = tenders \o Cut(w) /\ started' = started \o Zeros(size)
           /\ work'[w].at = "start" /\ work'[w].ids = TenderIds(Rows(w), n)
           /\ work'[w].row = work[w].row
  <2>1. /\ DOMAIN tenders' = 1..(n + size) /\ \A t \in 1..n : tenders'[t] = tenders[t]
        /\ \A t \in 1..n : started'[t] = started[t]
    BY <1>1, <1>4, Joined, Zenon DEF Inv
  <2>2. size \in Nat /\ Rows(w) \in Seq([Columns -> STRING \X STRING])
    BY <1>1, CutMeans DEF Inv
  <2>3. n \in Nat /\ DOMAIN tenders = 1..n
    BY Lengths DEF Inv
  <2>4. work'[w].row = 0
    BY <1>1, <1>4 DEF Inv, Batches, Batched, Starting
  <2>5. \A t \in (n + 1)..(n + size) :
          \E i \in DOMAIN work'[w].ids :
            work'[w].ids[i] = t /\ \A j \in 1..(i - 1) : work'[w].ids[j] # t
    <3> DEFINE ids == TenderIds(Rows(w), n)
    <3>1. /\ DOMAIN ids = DOMAIN Rows(w)
          /\ \A t \in (n + 1)..(n + Cardinality(Headers(Rows(w)))) :
               \E i \in DOMAIN Rows(w) : ids[i] = t /\ \A j \in 1..(i - 1) : ids[j] # t
      BY <2>2, <2>3, IdsMean
    <3>2. size = Cardinality(Headers(Rows(w))) /\ work'[w].ids = ids
      BY <1>4 DEF Size
    <3> HIDE DEF ids, n, size
    <3>3. QED
      BY <3>1, <3>2
  <2>6. DOMAIN work'[w].ids = DOMAIN Rows(w) /\ DOMAIN Rows(w) = 1..Len(Rows(w))
        /\ Len(Rows(w)) \in Nat
    BY <1>4, <2>2, <2>3, IdsMean, LenProperties
  <2> HIDE DEF n, size
  <2>7. ASSUME NEW t \in (n + 1)..(n + size)
        PROVE  Underway(w, t)'
    <3>1. PICK i \in DOMAIN work'[w].ids :
            work'[w].ids[i] = t /\ \A j \in 1..(i - 1) : work'[w].ids[j] # t
      BY <2>5
    <3>2. i > work'[w].row /\ t # 0
      BY <2>3, <2>4, <2>6
    <3>3. i \in RowsToStart(w)'
      BY <3>1, <3>2, Zenon DEF RowsToStart
    <3>4. QED
      BY <1>4, <3>1, <3>3 DEF Underway
  <2>8. ASSUME NEW t \in 1..n, started'[t] = 0
        PROVE  (Cause(t, imports[tenders[t].import]))'
    <3>1. PICK m : m = imports[tenders[t].import]
      OBVIOUS
    <3>2. Cause(t, m)
      BY <2>1, <2>3, <2>8, <3>1, StrandedMeans
    <3>3. failed[m] > 0 \/ Stuck(m) => Cause(t, m)'
      <4>1. failed' = failed /\ (Stuck(m)' <=> Stuck(m))
        BY <1>1, AmidStuck
      <4>2. QED
        BY <4>1 DEF Cause
    <3>4. ASSUME NEW v \in Workers, Underway(v, t)
          PROVE  Cause(t, m)'
      <4>1. v # w
        BY <1>2, <3>4
      <4>2. work'[v] = work[v] /\ tenders'[t] = tenders[t] /\ imports' = imports
        BY <1>1, <2>1, <4>1 DEF Amid
      <4>3. Underway(v, t)'
        BY <2>3, <3>4, <4>2, UnderwayKept
      <4>4. QED
        BY <4>3 DEF Cause
    <3>5. Cause(t, m)'
      BY <3>2, <3>3, <3>4 DEF Cause
    <3>6. m = imports'[tenders'[t].import]
      BY <1>1, <2>1, <3>1
    <3>7. QED
      BY <3>5, <3>6 DEF Cause, Stuck
  <2>9. \A t \in DOMAIN tenders' : started'[t] = 0 => (Cause(t, imports[tenders[t].import]))'
    <3>1. \A t \in 1..(n + size) : t \in 1..n \/ t \in (n + 1)..(n + size)
      BY <2>2, <2>3
    <3>2. QED
      BY <2>1, <2>7, <2>8, <3>1, Zenon DEF Cause
  <2>10. QED
    BY <2>9, Zenon DEF StrandedAccounted, Cause
<1>5. QED
  BY <1>1, <1>3, <1>4

LEMMA StartStranded ==
  ASSUME Inv, StrandedAccounted, NEW w \in Workers, Start(w)
  PROVE  StrandedAccounted'
<1>1. /\ Amid(w) /\ UNCHANGED <<imports, tenders, started>> /\ work[w].at = "start"
      /\ \/ Leaves(w) /\ (RowsToStart(w) # {} => work'[w].at = "failed")
         \/ /\ RowsToStart(w) # {}
            /\ work'[w].at = "queue" /\ work'[w].row = NextRow(w)
            /\ work'[w].ids = work[w].ids
  BY StartMeans DEF Inv
<1>2. SameTenders
  BY <1>1 DEF SameTenders
<1>3. ASSUME NEW t \in DOMAIN tenders, NEW m, m = imports[tenders[t].import], Underway(w, t)
      PROVE  Cause(t, m)'
  <2>1. PICK i \in RowsToStart(w) : work[w].ids[i] = t
    BY <1>1, <1>3 DEF Underway
  <2>2. work[w].mail = m
    BY <1>3, UnderwayBusy
  <2>3. CASE work'[w].at = "failed"
    BY <1>1, <1>3, <2>2, <2>3 DEF Cause, Underway, Amid
  <2>4. CASE /\ work'[w].at = "queue" /\ work'[w].row = NextRow(w)
             /\ work'[w].ids = work[w].ids
    <3>1. NextRow(w) \in Nat /\ i \in Nat /\ NextRow(w) <= i
      <4>1. i \in DOMAIN work[w].ids
        BY <2>1 DEF RowsToStart
      <4>2. NextRow(w) \in Nat /\ NextRow(w) <= i
        BY <2>1, NextRowKnown DEF Inv
      <4>3. QED
        BY <4>1, <4>2, Lengths DEF Inv
    <3>2. CASE i = NextRow(w)
      BY <2>1, <2>4, <3>2 DEF Cause, Underway
    <3>3. CASE i # NextRow(w)
      <4>1. i > NextRow(w)
        BY <3>1, <3>3
      <4>2. i \in RowsToStart(w)'
        BY <2>1, <2>4, <4>1, Zenon DEF RowsToStart
      <4>3. QED
        BY <2>1, <2>4, <4>2 DEF Cause, Underway
    <3>4. QED
      BY <3>2, <3>3
  <2>5. QED
    BY <1>1, <2>1, <2>3, <2>4
<1>4. QED
  BY <1>1, <1>2, <1>3, AmidStuck, CauseKept, StrandedKept

LEMMA QueueStranded ==
  ASSUME Inv, StrandedAccounted, NEW w \in Workers, Queue(w)
  PROVE  StrandedAccounted'
<1>1. /\ Amid(w) /\ UNCHANGED <<imports, tenders>> /\ work[w].at = "queue"
      /\ \/ work'[w].at = "failed" /\ started' = started
         \/ Goes(w, "queue", "start") /\ started' = [started EXCEPT ![Due(w)] = @ + 1]
  BY QueueMeans DEF Inv
<1>2. started' # started => \A t \in DOMAIN tenders :
        started'[t] = IF t = Due(w) THEN started[t] + 1 ELSE started[t]
  BY <1>1, Counted, Lengths DEF Inv
<1>3. \A t \in DOMAIN tenders : started[t] \in Nat
  BY Lengths, ElementOfSeq, LenProperties DEF Inv, Shape
<1>4. SameTenders
  BY <1>1, <1>2, <1>3 DEF SameTenders
<1>5. started' # started => started'[Due(w)] # 0 \/ Due(w) \notin DOMAIN tenders
  BY <1>2, <1>3
<1>6. ASSUME NEW t \in DOMAIN tenders, NEW m, m = imports[tenders[t].import], Underway(w, t),
             started'[t] = 0
      PROVE  Cause(t, m)'
  <2>1. work[w].mail = m
    BY <1>6, UnderwayBusy
  <2>2. CASE work'[w].at = "failed"
    BY <1>1, <1>6, <2>1, <2>2 DEF Cause, Underway, Amid
  <2>3. CASE Goes(w, "queue", "start") /\ started' = [started EXCEPT ![Due(w)] = @ + 1]
    <3>1. t # Due(w)
      <4>1. \A k \in DOMAIN tenders :
              started'[k] = IF k = Due(w) THEN started[k] + 1 ELSE started[k]
        BY <2>3, Counted, Lengths DEF Inv
      <4>2. QED
        BY <1>3, <1>6, <4>1
    <3>2. PICK i \in RowsToStart(w) : work[w].ids[i] = t
      BY <1>1, <1>6, <3>1 DEF Underway, Due
    <3>3. RowsToStart(w)' = RowsToStart(w)
      BY <2>3, Zenon DEF RowsToStart, Goes
    <3>4. QED
      BY <2>3, <3>2, <3>3 DEF Cause, Underway, Goes
  <2>4. QED
    BY <1>1, <2>2, <2>3
<1>7. QED
  BY <1>1, <1>4, <1>6, AmidStuck, CauseKept, StrandedKept

LEMMA FailStranded ==
  ASSUME Inv, StrandedAccounted, NEW w \in Workers, Fail(w)
  PROVE  StrandedAccounted'
<1>1. PICK k : k = work[w].mail
  OBVIOUS
<1>2. /\ UNCHANGED <<inbox, broker>> /\ Quiet
      /\ \A v \in Workers : v # w => work'[v] = work[v]
      /\ work[w].at = "failed" /\ failed' = [failed EXCEPT ![k] = @ + 1]
      /\ work'[w].mail = work[w].mail
  BY <1>1, FailMeans DEF Inv
<1>3. SameTenders
  BY <1>2 DEF SameTenders, Quiet
<1>4. failed \in [Mails -> Nat] /\ k \in Mails
  BY <1>1, <1>2, RecordsTyped DEF Stages, Inv, Shape, Turns, Busy
<1>5. failed'[k] > 0 /\ \A m : failed[m] > 0 => failed'[m] > 0
  <2>1. failed'[k] = failed[k] + 1 /\ failed[k] \in Nat /\ \A m : m # k => failed'[m] = failed[m]
    BY <1>2, <1>4
  <2>2. failed'[k] > 0
    BY <2>1
  <2>3. QED
    BY <2>1, <2>2, Zenon
<1>6. \A m : Stuck(m) => Stuck(m)'
  BY <1>2 DEF Stuck
<1>7. ASSUME NEW t \in DOMAIN tenders, NEW m, m = imports[tenders[t].import], Underway(w, t)
      PROVE  Cause(t, m)'
  <2>1. m = k
    BY <1>1, <1>7, UnderwayBusy
  <2>2. QED
    BY <1>5, <2>1 DEF Cause
<1>8. QED
  BY <1>2, <1>3, <1>5, <1>6, <1>7, CauseKept, StrandedKept

LEMMA CompleteStranded ==
  ASSUME Inv, StrandedAccounted, NEW w \in Workers, Complete(w)
  PROVE  StrandedAccounted'
<1>1. PICK k : k = work[w].mail
  OBVIOUS
<1>2. /\ failed' = failed /\ Quiet
      /\ \A v \in Workers : v # w => work'[v] = work[v]
      /\ work[w].at = "complete" /\ work'[w].mail = Unset
      /\ inbox' = [inbox EXCEPT ![k] = @ - 1]
      /\ broker' \in IF inbox'[k] = 0 THEN {broker} ELSE Published(k, 1)
  BY <1>1, CompleteMeans, IdleKnown DEF Inv
<1>3. SameTenders
  BY <1>2 DEF SameTenders, Quiet
<1>4. broker' = broker \/ broker' = broker \cup {k}
  BY <1>2, PublishedMeans
<1>5. ASSUME NEW t \in DOMAIN tenders, NEW m, m = imports[tenders[t].import], Stuck(m)
      PROVE  Stuck(m)'
  <2>1. m # k
    BY <1>1, <1>5 DEF Stuck
  <2>2. m \in Mails
    BY <1>5, ElementOfSeq, LenProperties DEF Inv, Shape, References
  <2>3. inbox'[m] = inbox[m]
    BY <1>2, <2>1, <2>2 DEF Inv, Shape
  <2>4. m # Unset
    BY <2>2, MailAssumption
  <2>5. QED
    BY <1>2, <1>4, <1>5, <2>1, <2>3, <2>4 DEF Stuck
<1>6. \A t : ~Underway(w, t)
  BY <1>2 DEF Underway
<1>7. QED
  BY <1>2, <1>3, <1>5, <1>6, CauseKept, StrandedKept

(* The item of a worker that dies hangs at the head of its queue.           *)
LEMMA DieStranded ==
  ASSUME Inv, StrandedAccounted, NEW w \in Workers, Die(w)
  PROVE  StrandedAccounted'
<1>1. /\ UNCHANGED <<inbox, broker, failed>> /\ Quiet
      /\ \A v \in Workers : v # w => work'[v] = work[v]
      /\ work[w].at # "idle" /\ work'[w].mail = Unset
  BY DieMeans, IdleKnown DEF Inv
<1>2. SameTenders
  BY <1>1 DEF SameTenders, Quiet
<1>3. ASSUME NEW t \in DOMAIN tenders, NEW m, m = imports[tenders[t].import]
      PROVE  m # Unset
  <2>1. m \in Mails
    BY <1>3, ElementOfSeq, LenProperties DEF Inv, Shape, References
  <2>2. QED
    BY <2>1, MailAssumption
<1>4. ASSUME NEW t \in DOMAIN tenders, NEW m, m = imports[tenders[t].import], Stuck(m)
      PROVE  Stuck(m)'
  BY <1>1, <1>3, <1>4 DEF Stuck
<1>5. ASSUME NEW t \in DOMAIN tenders, NEW m, m = imports[tenders[t].import], Underway(w, t)
      PROVE  Cause(t, m)'
  <2>1. work[w].mail = m
    BY <1>5, UnderwayBusy
  <2>2. /\ inbox[m] > 0 /\ m \notin broker
        /\ \A v \in Workers : v # w => work[v].mail # m
    BY <1>1, <2>1 DEF Inv, Turns, Busy
  <2>3. m # Unset
    BY <1>3, <1>5
  <2>4. Stuck(m)'
    BY <1>1, <2>2, <2>3 DEF Stuck
  <2>5. QED
    BY <2>4 DEF Cause
<1>6. QED
  BY <1>1, <1>2, <1>4, <1>5, CauseKept, StrandedKept

LEMMA TakeStranded ==
  ASSUME Inv, StrandedAccounted, NEW w \in Workers, NEW k \in Mails, Take(w, k)
  PROVE  StrandedAccounted'
<1>1. /\ UNCHANGED <<inbox, failed>> /\ Quiet
      /\ \A v \in Workers : v # w => work'[v] = work[v]
      /\ work[w].at = "idle" /\ k \in broker /\ broker' = broker \ {k}
      /\ work'[w] = Begun(k, First(k))
  BY TakeMeans DEF Inv
<1>2. work'[w].mail = k
  BY <1>1 DEF Begun
<1>3. SameTenders
  BY <1>1 DEF SameTenders, Quiet
<1>4. \A m : Stuck(m) => Stuck(m)'
  BY <1>1, <1>2 DEF Stuck
<1>5. \A t : ~Underway(w, t)
  BY <1>1 DEF Underway
<1>6. QED
  BY <1>1, <1>3, <1>4, <1>5, CauseKept, StrandedKept

(* A delivery behind an item that hangs does not wake its mail.             *)
LEMMA DeliverStranded ==
  ASSUME Inv, StrandedAccounted, NEW k \in Mails, Deliver(k)
  PROVE  StrandedAccounted'
<1>1. /\ UNCHANGED <<work, failed>> /\ Quiet /\ inbox' = [inbox EXCEPT ![k] = @ + 1]
      /\ broker' \in Published(k, inbox'[k])
  BY DeliverMeans DEF Inv
<1>2. SameTenders
  BY <1>1 DEF SameTenders, Quiet
<1>3. inbox \in [Mails -> Nat] /\ inbox'[k] = inbox[k] + 1
      /\ \A m : m # k => inbox'[m] = inbox[m]
  BY <1>1 DEF Inv, Shape
<1>4. broker' = broker \/ (inbox[k] = 0 /\ broker' = broker \cup {k})
  <2>1. broker' = broker \/ (inbox'[k] = 1 /\ broker' = broker \cup {k})
    BY <1>1, PublishedMeans
  <2>2. QED
    BY <1>3, <2>1
<1>5. ASSUME NEW m, Stuck(m)
      PROVE  Stuck(m)'
  <2>1. inbox'[m] > 0
    BY <1>3, <1>5 DEF Stuck
  <2>2. m \notin broker'
    BY <1>3, <1>4, <1>5 DEF Stuck
  <2>3. QED
    BY <1>1, <1>5, <2>1, <2>2 DEF Stuck
<1>6. ASSUME NEW t \in DOMAIN tenders, NEW m, m = imports[tenders[t].import], Cause(t, m)
      PROVE  Cause(t, m)'
  <2>1. \A v \in Workers : Underway(v, t) => Underway(v, t)'
    BY <1>1, UnderwayKept DEF Quiet
  <2>2. QED
    BY <1>1, <1>5, <1>6, <2>1 DEF Cause
<1>7. QED
  BY <1>2, <1>6, StrandedKept

LEMMA StillStranded ==
  ASSUME Inv, StrandedAccounted, UNCHANGED vars
  PROVE  StrandedAccounted'
<1>1. /\ UNCHANGED <<work, inbox, broker, failed>> /\ SameTenders
  BY Zenon DEF vars, placeVars, runVars, SameTenders
<1>2. ASSUME NEW t \in DOMAIN tenders, NEW m, m = imports[tenders[t].import], Cause(t, m)
      PROVE  Cause(t, m)'
  <2>1. Stuck(m)' <=> Stuck(m)
    BY <1>1 DEF Stuck
  <2>2. \A v \in Workers : Underway(v, t) => Underway(v, t)'
    BY <1>1, UnderwayKept DEF SameTenders
  <2>3. QED
    BY <1>1, <1>2, <2>1, <2>2 DEF Cause
<1>3. QED
  BY <1>1, <1>2, StrandedKept

LEMMA StepStranded ==
  ASSUME Inv, StrandedAccounted, [Next]_vars
  PROVE  StrandedAccounted'
<1>1. ASSUME NEW w \in Workers, Attempt(w)
      PROVE  StrandedAccounted'
  <2>1. CASE Ingest(w)
    BY <2>1, EarlyStranded, PersistStranded, StartStranded, QueueStranded, Zenon DEF Ingest, Early
  <2>2. CASE Fail(w) \/ Complete(w) \/ Die(w)
    BY <2>2, FailStranded, CompleteStranded, DieStranded
  <2>3. QED
    BY <1>1, <2>1, <2>2 DEF Attempt
<1>2. QED
  BY <1>1, TakeStranded, DeliverStranded, StillStranded, Zenon DEF Next

-----------------------------------------------------------------------------
(* The locations a mail brings.                                             *)

\* Once they are on record, they stay there or give way to later ones.
Recording == {"seek", "fetch", "record", "project", "index"}

Brought(w) ==
  work[w].at \in Recording /\ PlacesBook(work[w].mail) # Unset =>
    work[w].since > 0 /\ \E p \in DOMAIN places : places[p].done > work[w].since

AllBrought == \A w \in Workers : Brought(w)

\* What customers are resolved with.
OwnPlaces ==
  \A w \in Workers :
    work[w].at = "index" /\ PlacesBook(work[w].mail) # Unset =>
      /\ work[w].since > 0 /\ \E p \in DOMAIN places : places[p].done > work[w].since
      /\ Len(places) = 1 => places[NewestPlaces].done > work[w].since

\* Rows of locations are kept, or written anew by a transaction that ends now.
Renewed ==
  \A p \in DOMAIN places :
    p \in DOMAIN places' /\ (places'[p] = places[p] \/ places'[p].done = clock + 1)

LEMMA BroughtKept ==
  ASSUME Inv, AllBrought, Renewed, NEW v \in Workers,
         \/ work'[v].at \notin Recording
         \/ /\ work[v].at \in Recording /\ work'[v].mail = work[v].mail
            /\ work'[v].since = work[v].since
  PROVE  Brought(v)'
<1>1. \A k : PlacesBook(k)' = PlacesBook(k)
  BY Zenon DEF PlacesBook, FirstOf
<1>2. CASE work'[v].at \notin Recording
  BY <1>2 DEF Brought, Recording
<1>3. CASE /\ work[v].at \in Recording /\ work'[v].mail = work[v].mail
           /\ work'[v].since = work[v].since
  <2>1. work[v].since \in Nat /\ work[v].since <= clock /\ clock \in Nat
    BY Lengths DEF Inv, References, Within
  <2>2. clock + 1 > work[v].since
    BY <2>1
  <2>3. ASSUME NEW p \in DOMAIN places, places[p].done > work[v].since
        PROVE  p \in DOMAIN places' /\ places'[p].done > work[v].since
    BY <2>2, <2>3, Zenon DEF Renewed
  <2>4. PlacesBook(work'[v].mail) = PlacesBook(work[v].mail)
    BY <1>3
  <2>5. PlacesBook(work[v].mail)' = PlacesBook(work'[v].mail)
    BY Zenon DEF PlacesBook, FirstOf
  <2>6. Brought(v)
    BY DEF AllBrought
  <2>7. QED
    BY <1>3, <2>3, <2>4, <2>5, <2>6 DEF Brought
<1>4. QED
  BY <1>2, <1>3

(* A step of one worker, after which its own locations are on record.       *)
LEMMA BroughtStep ==
  ASSUME Inv, AllBrought, Renewed, NEW w \in Workers, Brought(w)',
         \A v \in Workers : v # w => work'[v] = work[v]
  PROVE  AllBrought'
<1>1. \A v \in Workers : v # w => Brought(v)'
  <2>1. SUFFICES ASSUME NEW v \in Workers, v # w
                 PROVE  Brought(v)'
    OBVIOUS
  <2>2. work'[v] = work[v]
    BY <2>1
  <2>3. QED
    <3>1. CASE work[v].at \in Recording
      BY <2>2, <3>1, BroughtKept
    <3>2. CASE work[v].at \notin Recording
      BY <2>2, <3>2, BroughtKept
    <3>3. QED
      BY <3>1, <3>2
<1>2. QED
  BY <1>1 DEF AllBrought

LEMMA IngestBrought ==
  ASSUME Inv, AllBrought, NEW w \in Workers, Ingest(w)
  PROVE  AllBrought'
<1>1. Amid(w)
  BY IngestAmid DEF Inv
<1>2. CASE WritePlaces(w)
  <2>1. /\ work[w].at = "writePlaces"
        /\ \/ Leaves(w) /\ places' = places
           \/ /\ Renewed /\ \E p \in DOMAIN places' : places'[p].done = clock + 1
              /\ work'[w].since = work[w].since
    BY <1>2, WritePlacesMeans, Zenon DEF Inv, Renewed
  <2>2. CASE Leaves(w) /\ places' = places
    BY <1>1, <2>2, BroughtKept, BroughtStep DEF Leaves, Recording, Renewed, Amid
  <2>3. CASE /\ Renewed /\ \E p \in DOMAIN places' : places'[p].done = clock + 1
             /\ work'[w].since = work[w].since
    <3>1. /\ work[w].since \in Nat /\ work[w].since <= clock /\ clock \in Nat
          /\ work[w].since > 0
      BY <2>1, Lengths DEF Inv, References, Within
    <3>2. clock + 1 > work[w].since
      BY <3>1
    <3>3. Brought(w)'
      BY <2>3, <3>1, <3>2, Zenon DEF Brought
    <3>4. QED
      BY <1>1, <2>3, <3>3, BroughtStep DEF Amid
  <2>4. QED
    BY <2>1, <2>2, <2>3
<1>3. CASE ~WritePlaces(w)
  <2>1. /\ places' = places
        /\ \/ work'[w].at \notin Recording
           \/ work[w].at \in Recording /\ work'[w].since = work[w].since
    <3> USE DEF Inv
    <3>1. CASE FetchPlaces(w)
      BY <3>1, FetchPlacesMeans DEF Quiet, Goes, Leaves, Recording
    <3>2. CASE FindPlaces(w)
      BY <3>2, FindPlacesMeans DEF Tables, Recording
    <3>3. CASE Seek(w)
      BY <3>3, SeekMeans DEF Quiet, Goes, Leaves, Recording
    <3>4. CASE Fetch(w)
      BY <3>4, FetchMeans DEF Quiet, Goes, Leaves, Recording
    <3>5. CASE Record(w)
      BY <3>5, RecordMeans DEF Leaves, Recording
    <3>6. CASE Project(w)
      BY <3>6, ProjectMeans DEF Quiet, Goes, Leaves, Recording
    <3>7. CASE Index(w)
      BY <3>7, IndexMeans DEF Quiet, Recording
    <3>8. CASE Persist(w)
      BY <3>8, PersistMeans DEF Leaves, Recording
    <3>9. CASE Start(w)
      BY <3>9, StartMeans DEF Leaves, Recording
    <3>10. CASE Queue(w)
      BY <3>10, QueueMeans DEF Goes, Recording
    <3>11. QED
      BY <1>3, <3>1, <3>2, <3>3, <3>4, <3>5, <3>6, <3>7, <3>8, <3>9, <3>10, Zenon DEF Ingest
  <2>2. Renewed /\ work'[w].mail = work[w].mail
    BY <1>1, <2>1 DEF Renewed, Amid
  <2>3. Brought(w)'
    BY <2>1, <2>2, BroughtKept
  <2>4. QED
    BY <1>1, <2>2, <2>3, BroughtStep DEF Amid
<1>4. QED
  BY <1>2, <1>3

(* A mail with locations begins with them (First).                          *)
LEMMA EndsBrought ==
  ASSUME Inv, AllBrought, NEW w \in Workers,
         \/ Fail(w) \/ Complete(w) \/ Die(w) \/ \E m \in Mails : Take(w, m)
  PROVE  AllBrought'
<1>1. CASE Fail(w) \/ Complete(w) \/ Die(w)
  <2>1. /\ Quiet /\ \A v \in Workers : v # w => work'[v] = work[v]
        /\ work'[w].at \in {"complete", "idle"}
    BY <1>1, FailMeans, CompleteMeans, DieMeans, IdleKnown DEF Inv
  <2>2. Renewed /\ work'[w].at \notin Recording
    BY <2>1 DEF Quiet, Renewed, Recording
  <2>3. QED
    BY <2>1, <2>2, BroughtKept, BroughtStep
<1>2. ASSUME NEW m \in Mails, Take(w, m)
      PROVE  AllBrought'
  <2>1. /\ Quiet /\ \A v \in Workers : v # w => work'[v] = work[v]
        /\ work'[w] = Begun(m, First(m))
    BY <1>2, TakeMeans DEF Inv
  <2>2. Renewed /\ work'[w].at = First(m) /\ work'[w].mail = m
    BY <2>1 DEF Quiet, Renewed, Begun
  <2>3. First(m) \notin Recording \/ PlacesBook(m) = Unset
    BY DEF First, Recording
  <2>4. PlacesBook(work[w].mail)' = PlacesBook(work'[w].mail)
    BY Zenon DEF PlacesBook, FirstOf
  <2>5. PlacesBook(work'[w].mail) = PlacesBook(m)
    BY <2>2
  <2>6. Brought(w)'
    BY <2>2, <2>3, <2>4, <2>5 DEF Brought, Recording
  <2>7. QED
    BY <2>1, <2>2, <2>6, BroughtStep
<1>3. QED
  BY <1>1, <1>2

LEMMA StillBrought ==
  ASSUME AllBrought, work' = work, places' = places
  PROVE  AllBrought'
<1>1. ASSUME NEW v \in Workers
      PROVE  Brought(v)'
  <2>1. PlacesBook(work'[v].mail) = PlacesBook(work[v].mail) /\ Brought(v)
    BY DEF AllBrought
  <2>2. PlacesBook(work[v].mail)' = PlacesBook(work'[v].mail)
    BY Zenon DEF PlacesBook, FirstOf
  <2>3. QED
    BY <2>1, <2>2 DEF Brought
<1>2. QED
  BY <1>1 DEF AllBrought

LEMMA BroughtPlaces == Inv /\ AllBrought => OwnPlaces
<1> SUFFICES ASSUME Inv, AllBrought, NEW w \in Workers,
                    work[w].at = "index", PlacesBook(work[w].mail) # Unset
             PROVE  /\ work[w].since > 0
                    /\ \E p \in DOMAIN places : places[p].done > work[w].since
                    /\ Len(places) = 1 => places[NewestPlaces].done > work[w].since
  BY DEF OwnPlaces
<1>1. work[w].since > 0
  BY DEF AllBrought, Brought, Recording
<1>2. PICK p \in DOMAIN places : places[p].done > work[w].since
  BY DEF AllBrought, Brought, Recording
<1>3. DOMAIN places = 1..Len(places) /\ (places # <<>> => NewestPlaces \in DOMAIN places)
  BY Lengths, NewestKnown DEF Inv
<1>4. Len(places) = 1 => NewestPlaces = p
  <2> SUFFICES ASSUME Len(places) = 1
               PROVE  NewestPlaces = p
    OBVIOUS
  <2>1. DOMAIN places = 1..1
    BY <1>3
  <2>2. places # <<>>
    BY Len(<<>>) = 0
  <2>3. \A i \in 1..1 : i = 1
    OBVIOUS
  <2>4. QED
    BY <1>2, <1>3, <2>1, <2>2, <2>3, Zenon
<1>5. QED
  BY <1>1, <1>2, <1>4

-----------------------------------------------------------------------------
(* Which locations are the newest, with two workers.                        *)

Writing(w) == work[w].at = "writePlaces"

\* Written by a transaction that began last.
Top(p) == p \in DOMAIN places /\ \A q \in DOMAIN places : places[q].since <= places[p].since

\* A row is complete after its transaction began.
Later == \A p \in DOMAIN places : places[p].done > places[p].since

\* Of two that are about to write, the one that began later has found what is
\* still the newest row.
Fresh(v, w) ==
  v # w /\ Writing(v) /\ Writing(w) =>
    /\ work[v].since # work[w].since
    /\ work[v].since < work[w].since => work[w].found = NewestPlaces

\* If the row that is about to be overwritten was written by one that began
\* later, no other row was.
Alone(w) ==
  Writing(w) /\ work[w].found \in DOMAIN places /\ places[work[w].found].since >= work[w].since =>
    \A q \in DOMAIN places : q # work[w].found => places[q].since < work[w].since

\* The newest row was complete after the worker began to record its own.
Leading(w) ==
  work[w].at \in Recording =>
    \A p \in DOMAIN places : Top(p) => places[p].done > work[w].since

Settled ==
  /\ Later
  /\ \A v, w \in Workers : Fresh(v, w)
  /\ \A w \in Workers : Alone(w) /\ Leading(w)

(* The newest row is the one whose transaction began last.                  *)
LEMMA TopKnown ==
  ASSUME Shape, References, places # <<>>
  PROVE  Top(NewestPlaces)
<1>1. DOMAIN places = 1..Len(places) /\ Len(places) \in Nat /\ clock \in Nat
  BY LenProperties DEF Shape
<1>2. \A p \in DOMAIN places : places[p].since \in Nat /\ places[p].since <= clock
  <2>1. \A p \in DOMAIN places : places[p].since \in 1..clock
    BY DEF References
  <2>2. QED
    BY <1>1, <2>1
<1> DEFINE since(p) == places[p].since
           ages == {n \in Nat : \E p \in DOMAIN places : n = clock - since(p)}
<1>3. 1 \in DOMAIN places
  BY <1>1, EmptySeq DEF Shape
<1>4. ages \in SUBSET Nat /\ ages # {}
  <2>1. clock - since(1) \in Nat
    BY <1>1, <1>2, <1>3
  <2>2. QED
    BY <1>3, <2>1
<1>5. PICK n \in ages : \A m \in ages : n <= m
  BY <1>4, LeastOf
<1>6. PICK p \in DOMAIN places : n = clock - since(p)
  BY <1>5
<1>7. \A q \in DOMAIN places : since(q) <= since(p)
  <2>1. SUFFICES ASSUME NEW q \in DOMAIN places
                 PROVE  since(q) <= since(p)
    OBVIOUS
  <2>2. clock - since(q) \in Nat
    BY <1>1, <1>2
  <2>3. n <= clock - since(q)
    BY <1>5, <2>2
  <2>4. QED
    BY <1>1, <1>2, <1>6, <2>3
<1>8. QED
  BY <1>7 DEF NewestPlaces, Top

(* Of two workers, who is not the one is the other.                         *)
LEMMA NoThird ==
  ASSUME Cardinality(Workers) <= 2, NEW u \in Workers, NEW v \in Workers, NEW w \in Workers,
         u # v, v # w
  PROVE  u = w
<1>1. SUFFICES ASSUME u # w
               PROVE  FALSE
  OBVIOUS
<1>2. IsFiniteSet({u}) /\ Cardinality({u}) = 1
  BY FS_Singleton
<1>3. IsFiniteSet({u} \cup {v}) /\ Cardinality({u} \cup {v}) = 2
  BY <1>2, FS_AddElement
<1>4. Cardinality(({u} \cup {v}) \cup {w}) = 3
  BY <1>1, <1>3, FS_AddElement
<1>5. ({u} \cup {v}) \cup {w} \subseteq Workers
  OBVIOUS
<1>6. Cardinality(({u} \cup {v}) \cup {w}) <= Cardinality(Workers) /\ Cardinality(Workers) \in Nat
  BY <1>5, WorkersAssumption, FS_Subset, FS_CardinalityType
<1>7. QED
  BY <1>4, <1>6

(* Rows and what is found of them lie in the past.                          *)
LEMMA RowTimes ==
  ASSUME Inv
  PROVE  /\ clock \in Nat /\ Len(places) \in Nat /\ DOMAIN places = 1..Len(places)
         /\ \A p \in DOMAIN places : /\ places[p].since \in Nat /\ places[p].since <= clock
                                     /\ places[p].done \in Nat /\ places[p].done <= clock
                                     /\ places[p].done > 0
         /\ \A w \in Workers : /\ work[w].since \in Nat /\ work[w].since <= clock
                               /\ work[w].found \in Nat /\ work[w].found <= Len(places)
<1>1. /\ clock \in Nat /\ Len(places) \in Nat /\ DOMAIN places = 1..Len(places)
      /\ \A w \in Workers : work[w].since \in Nat /\ work[w].found \in Nat
  BY Lengths DEF Inv
<1>2. \A w \in Workers : work[w].since <= clock /\ work[w].found <= Len(places)
  BY DEF Inv, References, Within
<1>3. \A p \in DOMAIN places : places[p].since \in 1..clock /\ places[p].done \in 1..clock
  BY DEF Inv, References
<1>4. \A n \in 1..clock : n \in Nat /\ n <= clock /\ n > 0
  BY <1>1
<1>5. QED
  BY <1>1, <1>2, <1>3, <1>4

(* One row is written, the one that was found or a new one.                 *)
LEMMA RowWritten ==
  ASSUME Inv, NEW w \in Workers, WritePlaces(w), clock' # clock
  PROVE  \E r : /\ DOMAIN places' = DOMAIN places \cup {r}
                /\ places'[r].since = work[w].since /\ places'[r].done = clock + 1
                /\ \A p \in DOMAIN places : p # r => places'[p] = places[p]
                /\ work[w].found = 0 => r \notin DOMAIN places
                /\ work[w].found # 0 => r = work[w].found /\ r \in DOMAIN places
<1>1. places \in Seq(PlaceRows) /\ work[w].mail \in Mails /\ work[w].since \in Nat /\ clock \in Nat
  <2>1. /\ work[w] \in Works /\ work[w].at = "writePlaces"
        /\ clock \in Nat /\ places \in Seq(PlaceRows)
    BY Zenon DEF WritePlaces, Inv, Shape
  <2>2. work[w].mail # Unset
    BY <2>1 DEF Inv, Turns, Busy
  <2>3. QED
    BY <2>1, <2>2 DEF Works
<1>2. PICK new : new = [mail |-> work[w].mail, since |-> work[w].since, done |-> clock + 1]
  OBVIOUS
<1>3. new \in PlaceRows /\ new.since = work[w].since /\ new.done = clock + 1
  BY <1>1, <1>2 DEF PlaceRows
<1>4. places' = PlacesWritten(w)
  BY Zenon DEF WritePlaces, placeVars
<1>5. places' = IF work[w].found = 0 THEN Append(places, new)
                ELSE [places EXCEPT ![work[w].found] = new]
  BY <1>2, <1>4, Zenon DEF PlacesWritten, InsertImport, UpdateRawData
<1>6. CASE work[w].found = 0
  <2>1. /\ Len(Append(places, new)) = Len(places) + 1
        /\ Append(places, new)[Len(places) + 1] = new
        /\ \A i \in 1..Len(places) : Append(places, new)[i] = places[i]
        /\ Append(places, new) \in Seq(PlaceRows)
    BY <1>1, <1>3, AppendProperties
  <2>2. /\ DOMAIN Append(places, new) = 1..(Len(places) + 1) /\ DOMAIN places = 1..Len(places)
        /\ Len(places) \in Nat
    BY <1>1, <2>1, LenProperties
  <2>3. PICK r : r = Len(places) + 1
    OBVIOUS
  <2>4. 1..(Len(places) + 1) = (1..Len(places)) \cup {r} /\ r \notin 1..Len(places)
    BY <2>2, <2>3
  <2>5. places' = Append(places, new)
    BY <1>5, <1>6
  <2>6. /\ DOMAIN places' = DOMAIN places \cup {r} /\ places'[r] = new
        /\ \A p \in DOMAIN places : p # r => places'[p] = places[p]
        /\ r \notin DOMAIN places
    BY <2>1, <2>2, <2>3, <2>4, <2>5
  <2>7. QED
    BY <1>3, <1>6, <2>6
<1>7. CASE work[w].found # 0
  <2>1. PICK r : r = work[w].found
    OBVIOUS
  <2>2. r \in DOMAIN places
    BY <1>7, <2>1, RowTimes
  <2>3. places' = [places EXCEPT ![r] = new]
    BY <1>5, <1>7, <2>1
  <2>4. /\ DOMAIN places' = DOMAIN places \cup {r} /\ places'[r] = new
        /\ \A p \in DOMAIN places : p # r => places'[p] = places[p]
    BY <2>2, <2>3
  <2>5. QED
    BY <1>3, <1>7, <2>1, <2>2, <2>4
<1>8. QED
  BY <1>6, <1>7

(* Two workers: whoever writes leaves the newest row complete after the     *)
(* other began.                                                             *)
LEMMA WriteSettled ==
  ASSUME Inv, Cardinality(Workers) <= 2, Settled, NEW w \in Workers, WritePlaces(w), clock' # clock,
         \A v \in Workers : v # w => work'[v] = work[v],
         work'[w].at # "writePlaces", work'[w].since = work[w].since
  PROVE  Settled'
<1>1. PICK r : /\ DOMAIN places' = DOMAIN places \cup {r}
               /\ places'[r].since = work[w].since /\ places'[r].done = clock + 1
               /\ \A p \in DOMAIN places : p # r => places'[p] = places[p]
               /\ work[w].found = 0 => r \notin DOMAIN places
               /\ work[w].found # 0 => r = work[w].found /\ r \in DOMAIN places
  BY RowWritten
<1>2. PICK s : s = work[w].since
  OBVIOUS
<1>3. s \in Nat /\ s <= clock /\ clock \in Nat /\ Writing(w)
  BY <1>2, RowTimes, Zenon DEF WritePlaces, Writing
<1>4. /\ \A p \in DOMAIN places : places[p].since \in Nat /\ places[p].done \in Nat
      /\ \A v \in Workers : work[v].since \in Nat /\ work[v].since <= clock
  BY RowTimes
<1>5. /\ \A p \in DOMAIN places' : p = r \/ (p \in DOMAIN places /\ p # r /\ places'[p] = places[p])
      /\ r \in DOMAIN places' /\ places'[r].since = s /\ places'[r].done = clock + 1
  BY <1>1, <1>2
<1>6. Later'
  BY <1>3, <1>4, <1>5 DEF Later, Settled
<1>7. ASSUME NEW u \in Workers, NEW v \in Workers
      PROVE  Fresh(u, v)'
  <2>1. CASE u = w \/ v = w
    BY <2>1 DEF Fresh, Writing
  <2>2. CASE u # w /\ v # w
    BY <2>2, NoThird DEF Fresh
  <2>3. QED
    BY <2>1, <2>2
<1>8. ASSUME NEW v \in Workers
      PROVE  Alone(v)'
  <2>1. CASE v = w
    BY <2>1 DEF Alone, Writing
  <2>2. CASE v # w
    <3>1. PICK f, t : f = work[v].found /\ t = work[v].since
      OBVIOUS
    <3>2. work'[v] = work[v] /\ t \in Nat
      BY <1>4, <2>2, <3>1
    <3>3. SUFFICES ASSUME Writing(v), f \in DOMAIN places', places'[f].since >= t,
                          NEW q \in DOMAIN places', q # f
                   PROVE  places'[q].since < t
      BY <3>1, <3>2 DEF Alone, Writing
    <3>4. f \in DOMAIN places
      <4>1. f \in Nat /\ f <= Len(places) /\ DOMAIN places = 1..Len(places) /\ Len(places) \in Nat
        BY <3>1, RowTimes
      <4>2. DOMAIN places' = 1..Len(places')
        BY <4>1 DEF WritePlaces, PlacesWritten, InsertImport, UpdateRawData
      <4>3. QED
        BY <3>3, <4>1, <4>2
    <3>5. t # s /\ (t < s => work[w].found = NewestPlaces)
      BY <1>2, <1>3, <2>2, <3>1, <3>3 DEF Settled, Fresh
    <3>6. places[f].since >= t => \A p \in DOMAIN places : p # f => places[p].since < t
      BY <3>1, <3>3, <3>4 DEF Settled, Alone
    <3>7. CASE s < t
      <4>1. f # r
        BY <1>3, <1>5, <3>2, <3>3, <3>7
      <4>2. places'[f] = places[f]
        BY <1>1, <3>4, <4>1
      <4>3. \A p \in DOMAIN places : p # f => places[p].since < t
        BY <3>3, <3>6, <4>2
      <4>4. QED
        BY <1>5, <3>3, <3>7, <4>3
    <3>8. CASE t < s
      <4>1. work[w].found = NewestPlaces /\ Top(NewestPlaces)
        <5>1. places # <<>>
          BY <3>4, EmptySeq
        <5>2. Top(NewestPlaces)
          BY <5>1, TopKnown DEF Inv
        <5>3. QED
          BY <3>5, <3>8, <5>2
      <4>2. r = work[w].found /\ r \in DOMAIN places /\ Top(r)
        <5>1. NewestPlaces # 0
          BY <4>1, RowTimes DEF Top
        <5>2. QED
          BY <1>1, <4>1, <5>1
      <4>3. \A p \in DOMAIN places : places[p].since <= places[r].since
        BY <4>2 DEF Top
      <4>4. CASE f = r
        <5>1. q \in DOMAIN places /\ places'[q] = places[q]
          BY <1>5, <3>3, <4>4
        <5>2. places[q].since <= places[f].since
          BY <4>3, <4>4, <5>1
        <5>3. QED
          BY <1>4, <3>2, <3>3, <3>4, <3>6, <5>1, <5>2
      <4>5. CASE f # r
        <5>1. places'[f] = places[f]
          BY <1>1, <3>4, <4>5
        <5>2. places[r].since < t
          BY <3>3, <3>6, <4>2, <4>5, <5>1
        <5>3. places[f].since <= places[r].since
          BY <3>4, <4>3
        <5>4. QED
          BY <1>4, <3>2, <3>3, <3>4, <4>2, <5>1, <5>2, <5>3
      <4>6. QED
        BY <4>4, <4>5
    <3>9. QED
      BY <1>3, <3>2, <3>5, <3>7, <3>8
  <2>3. QED
    BY <2>1, <2>2
<1>9. ASSUME NEW v \in Workers
      PROVE  Leading(v)'
  <2>1. PICK t : t = work[v].since
    OBVIOUS
  <2>2. t \in Nat /\ t <= clock /\ work'[v].since = t
    BY <1>4, <2>1
  <2>3. SUFFICES ASSUME work'[v].at \in Recording, NEW p \in DOMAIN places',
                        \A q \in DOMAIN places' : places'[q].since <= places'[p].since
                 PROVE  places'[p].done > t
    BY <2>2 DEF Leading, Top
  <2>4. s <= places'[p].since
    BY <1>5, <2>3
  <2>5. CASE p = r
    BY <1>3, <1>5, <2>2, <2>5
  <2>6. CASE p # r /\ v = w
    BY <1>2, <1>3, <1>4, <1>5, <2>1, <2>4, <2>6 DEF Settled, Later
  <2>7. CASE p # r /\ v # w
    <3>1. p \in DOMAIN places /\ places'[p] = places[p]
      BY <1>5, <2>7
    <3>2. ASSUME NEW q \in DOMAIN places
          PROVE  places[q].since <= places[p].since
      <4>1. CASE q # r
        BY <1>1, <2>3, <3>1, <4>1
      <4>2. CASE q = r
        <5>1. r = work[w].found /\ r \in DOMAIN places
          BY <1>1, <4>2
        <5>2. places[r].since >= s => places[p].since < s
          BY <1>2, <1>3, <2>7, <3>1, <5>1 DEF Settled, Alone
        <5>3. QED
          BY <1>3, <1>4, <2>4, <3>1, <4>2, <5>1, <5>2
      <4>3. QED
        BY <4>1, <4>2
    <3>3. Top(p)
      BY <3>1, <3>2 DEF Top
    <3>4. work[v].at \in Recording
      BY <2>3, <2>7
    <3>5. QED
      BY <2>1, <3>1, <3>3, <3>4 DEF Settled, Leading
  <2>8. QED
    BY <2>5, <2>6, <2>7
<1>10. QED
  BY <1>6, <1>7, <1>8, <1>9 DEF Settled

(* The newest row is told by the rows alone.                                *)
LEMMA SameNewest == ASSUME places' = places PROVE NewestPlaces' = NewestPlaces
BY DEF NewestPlaces

(* Who begins now finds the newest row, and no row was written by one that  *)
(* began later.                                                             *)
LEMMA FindSettled ==
  ASSUME Inv, Settled, NEW w \in Workers, places' = places,
         \A v \in Workers : v # w => work'[v] = work[v],
         work'[w].at = "writePlaces", work'[w].since = clock + 1, work'[w].found = NewestPlaces
  PROVE  Settled'
<1>1. /\ clock \in Nat
      /\ \A p \in DOMAIN places : places[p].since \in Nat /\ places[p].since <= clock
      /\ \A v \in Workers : work[v].since \in Nat /\ work[v].since <= clock
  BY RowTimes
<1>2. PICK newest : newest = NewestPlaces
  OBVIOUS
<1>3. NewestPlaces' = newest
  BY <1>2, SameNewest
<1>4. Later'
  BY DEF Later, Settled
<1>5. ASSUME NEW u \in Workers, NEW v \in Workers
      PROVE  Fresh(u, v)'
  <2>1. SUFFICES ASSUME u # v, work'[u].at = "writePlaces", work'[v].at = "writePlaces"
                 PROVE  /\ work'[u].since # work'[v].since
                        /\ work'[u].since < work'[v].since => work'[v].found = newest
    BY <1>3 DEF Fresh, Writing
  <2>2. CASE u # w /\ v # w
    BY <1>2, <2>1, <2>2 DEF Settled, Fresh, Writing
  <2>3. CASE u = w
    BY <1>1, <2>1, <2>3
  <2>4. CASE v = w
    BY <1>1, <1>2, <2>1, <2>4
  <2>5. QED
    BY <2>2, <2>3, <2>4
<1>6. ASSUME NEW v \in Workers
      PROVE  Alone(v)'
  <2>1. CASE v # w
    BY <2>1 DEF Settled, Alone, Writing
  <2>2. CASE v = w
    BY <1>1, <2>2 DEF Alone
  <2>3. QED
    BY <2>1, <2>2
<1>7. ASSUME NEW v \in Workers
      PROVE  Leading(v)'
  BY DEF Settled, Leading, Top, Recording
<1>8. QED
  BY <1>4, <1>5, <1>6, <1>7 DEF Settled

(* No row is written, and nobody is about to write who was not before.      *)
LEMMA StillSettled ==
  ASSUME Inv, Settled, places' = places,
         \A v \in Workers :
           /\ work'[v].at = "writePlaces" => /\ work[v].at = "writePlaces"
                                             /\ work'[v].since = work[v].since
                                             /\ work'[v].found = work[v].found
           /\ work'[v].at \in Recording =>
                work'[v].since = 0 \/ (work[v].at \in Recording /\ work'[v].since = work[v].since)
  PROVE  Settled'
<1>1. PICK newest : newest = NewestPlaces
  OBVIOUS
<1>2. NewestPlaces' = newest
  BY <1>1, SameNewest
<1>3. Later'
  BY DEF Later, Settled
<1>4. ASSUME NEW u \in Workers, NEW v \in Workers
      PROVE  Fresh(u, v)'
  <2>1. SUFFICES ASSUME u # v, work'[u].at = "writePlaces", work'[v].at = "writePlaces"
                 PROVE  /\ work'[u].since # work'[v].since
                        /\ work'[u].since < work'[v].since => work'[v].found = newest
    BY <1>2 DEF Fresh, Writing
  <2>2. QED
    BY <1>1, <2>1 DEF Settled, Fresh, Writing
<1>5. ASSUME NEW v \in Workers
      PROVE  Alone(v)'
  BY DEF Settled, Alone, Writing
<1>6. ASSUME NEW v \in Workers
      PROVE  Leading(v)'
  <2>1. SUFFICES ASSUME work'[v].at \in Recording, NEW p \in DOMAIN places, Top(p)
                 PROVE  places[p].done > work'[v].since
    BY DEF Leading, Top
  <2>2. QED
    BY <2>1, RowTimes DEF Settled, Leading
<1>7. QED
  BY <1>3, <1>4, <1>5, <1>6 DEF Settled

(* Whoever takes the step, what a mail brings is on record.                 *)
LEMMA StepBrought ==
  ASSUME Inv, AllBrought, [Next]_vars
  PROVE  AllBrought'
<1>1. ASSUME UNCHANGED vars \/ \E m \in Mails : Deliver(m)
      PROVE  AllBrought'
  <2>1. work' = work /\ places' = places
    BY <1>1, Zenon DEF Deliver, vars, placeVars
  <2>2. QED
    BY <2>1, StillBrought
<1>2. QED
  BY <1>1, IngestBrought, EndsBrought, Zenon DEF Next, Attempt

(* A step of one worker that neither writes locations nor looks for them.   *)
LEMMA OthersSettled ==
  ASSUME Inv, Settled, places' = places, NEW w \in Workers,
         \A v \in Workers : v # w => work'[v] = work[v],
         work'[w].at # "writePlaces",
         work'[w].at \in Recording =>
           work'[w].since = 0 \/ (work[w].at \in Recording /\ work'[w].since = work[w].since)
  PROVE  Settled'
<1>1. \A v \in Workers :
        /\ work'[v].at = "writePlaces" => /\ work[v].at = "writePlaces"
                                          /\ work'[v].since = work[v].since
                                          /\ work'[v].found = work[v].found
        /\ work'[v].at \in Recording =>
             work'[v].since = 0 \/ (work[v].at \in Recording /\ work'[v].since = work[v].since)
  <2>1. SUFFICES ASSUME NEW v \in Workers
                 PROVE  /\ work'[v].at = "writePlaces" => /\ work[v].at = "writePlaces"
                                                          /\ work'[v].since = work[v].since
                                                          /\ work'[v].found = work[v].found
                        /\ work'[v].at \in Recording =>
                             \/ work'[v].since = 0
                             \/ work[v].at \in Recording /\ work'[v].since = work[v].since
    BY Zenon
  <2>2. CASE v = w
    BY <2>2
  <2>3. CASE v # w
    <3>1. work'[v] = work[v]
      BY <2>3
    <3>2. QED
      BY <3>1
  <2>4. QED
    BY <2>2, <2>3
<1>2. QED
  BY <1>1, StillSettled

(* A step within an item, with two workers.                                 *)
LEMMA IngestSettled ==
  ASSUME Inv, Cardinality(Workers) <= 2, Settled, NEW w \in Workers, Ingest(w)
  PROVE  Settled'
<1>1. \A v \in Workers : v # w => work'[v] = work[v]
  BY IngestAmid DEF Inv, Amid
<1>2. CASE WritePlaces(w)
  <2>1. \/ Leaves(w) /\ places' = places
        \/ /\ clock' = clock + 1 /\ work'[w].at = AfterPlaces(work[w].mail)
           /\ work'[w].since = work[w].since
    BY <1>2, WritePlacesMeans, Zenon DEF Inv
  <2>2. CASE Leaves(w) /\ places' = places
    BY <1>1, <2>2, OthersSettled DEF Leaves, Recording
  <2>3. CASE /\ clock' = clock + 1 /\ work'[w].at = AfterPlaces(work[w].mail)
             /\ work'[w].since = work[w].since
    <3>1. work'[w].at # "writePlaces"
      BY <2>3 DEF AfterPlaces
    <3>2. clock' # clock
      BY <2>3, RowTimes
    <3>3. QED
      BY <1>1, <1>2, <2>3, <3>1, <3>2, WriteSettled
  <2>4. QED
    BY <2>1, <2>2, <2>3
<1>3. CASE FindPlaces(w)
  <2>1. /\ places' = places /\ work'[w].at = "writePlaces"
        /\ work'[w].since = clock + 1 /\ work'[w].found = NewestPlaces
    BY <1>3, FindPlacesMeans DEF Tables, Inv
  <2>2. QED
    BY <1>1, <2>1, FindSettled
<1>4. CASE ~WritePlaces(w) /\ ~FindPlaces(w)
  <2>1. /\ places' = places /\ work'[w].at # "writePlaces"
        /\ \/ work'[w].at \notin Recording
           \/ work[w].at \in Recording /\ work'[w].since = work[w].since
    <3> USE DEF Inv
    <3>1. CASE FetchPlaces(w)
      BY <3>1, FetchPlacesMeans DEF Quiet, Goes, Leaves, Recording
    <3>2. CASE Seek(w)
      BY <3>2, SeekMeans DEF Quiet, Goes, Leaves, Recording
    <3>3. CASE Fetch(w)
      BY <3>3, FetchMeans DEF Quiet, Goes, Leaves, Recording
    <3>4. CASE Record(w)
      BY <3>4, RecordMeans DEF Leaves, Recording
    <3>5. CASE Project(w)
      BY <3>5, ProjectMeans DEF Quiet, Goes, Leaves, Recording
    <3>6. CASE Index(w)
      BY <3>6, IndexMeans DEF Quiet, Recording
    <3>7. CASE Persist(w)
      BY <3>7, PersistMeans DEF Leaves, Recording
    <3>8. CASE Start(w)
      BY <3>8, StartMeans DEF Leaves, Recording
    <3>9. CASE Queue(w)
      BY <3>9, QueueMeans DEF Goes, Recording
    <3>10. QED
      BY <1>4, <3>1, <3>2, <3>3, <3>4, <3>5, <3>6, <3>7, <3>8, <3>9, Zenon DEF Ingest
  <2>2. QED
    BY <1>1, <2>1, OthersSettled
<1>5. QED
  BY <1>2, <1>3, <1>4

(* Whoever takes the step, with two workers.                                *)
LEMMA StepSettled ==
  ASSUME Inv, Cardinality(Workers) <= 2, Settled, [Next]_vars
  PROVE  Settled'
<1>1. ASSUME NEW w \in Workers, Fail(w) \/ Complete(w) \/ Die(w)
      PROVE  Settled'
  <2>1. /\ Quiet /\ \A v \in Workers : v # w => work'[v] = work[v]
        /\ work'[w].at \in {"complete", "idle"}
    BY <1>1, FailMeans, CompleteMeans, DieMeans, IdleKnown DEF Inv
  <2>2. places' = places /\ work'[w].at \notin Recording /\ work'[w].at # "writePlaces"
    BY <2>1 DEF Quiet, Recording
  <2>3. QED
    BY <2>1, <2>2, OthersSettled
<1>2. ASSUME NEW w \in Workers, NEW m \in Mails, Take(w, m)
      PROVE  Settled'
  <2>1. /\ Quiet /\ \A v \in Workers : v # w => work'[v] = work[v]
        /\ work'[w] = Begun(m, First(m)) /\ First(m) \in {"fetchPlaces", "seek"}
    BY <1>2, TakeMeans DEF Inv
  <2>2. places' = places /\ work'[w].at # "writePlaces" /\ work'[w].since = 0
    BY <2>1 DEF Quiet, Begun
  <2>3. QED
    BY <2>1, <2>2, OthersSettled
<1>3. ASSUME UNCHANGED vars \/ \E m \in Mails : Deliver(m)
      PROVE  Settled'
  <2>1. work' = work /\ places' = places
    BY <1>3, Zenon DEF Deliver, vars, placeVars
  <2>2. QED
    BY <2>1, StillSettled
<1>4. QED
  BY <1>1, <1>2, <1>3, IngestSettled, Zenon DEF Next, Attempt

(* What a mail has its customers resolved with, whichever row is newest.    *)
LEMMA SettledPlaces ==
  ASSUME Inv, AllBrought, Cardinality(Workers) <= 2 => Settled, NEW w \in Workers,
         work[w].at = "index", PlacesBook(work[w].mail) # Unset
  PROVE  /\ work[w].since > 0 /\ \E p \in DOMAIN places : places[p].done > work[w].since
         /\ Len(places) = 1 \/ Cardinality(Workers) <= 2 =>
              places[NewestPlaces].done > work[w].since
<1>1. /\ work[w].since > 0 /\ \E p \in DOMAIN places : places[p].done > work[w].since
      /\ Len(places) = 1 => places[NewestPlaces].done > work[w].since
  BY BroughtPlaces DEF OwnPlaces
<1>2. ASSUME Cardinality(Workers) <= 2
      PROVE  places[NewestPlaces].done > work[w].since
  <2>1. Leading(w)
    BY <1>2 DEF Settled
  <2>2. places # <<>>
    BY <1>1, EmptySeq
  <2>3. Top(NewestPlaces)
    BY <2>2, TopKnown DEF Inv
  <2>4. QED
    BY <2>1, <2>3 DEF Leading, Recording, Top
<1>3. QED
  BY <1>1, <1>2

-----------------------------------------------------------------------------
(* What the sheet completes of an order, and what its tender has.           *)

\* The usable rows of an order, and the keys of their lines.
Mine(rows, order) == {i \in Usable(rows) : Identifier(rows[i].order) = order}
Keys(rows, order) == {LineKey(ProductOf(rows[i])) : i \in Mine(rows, order)}

(* The positions before one, of those from 1 to n.                          *)
LEMMA Earlier ==
  \A n \in Nat : \A i \in 1..n :
    /\ \A j \in 1..(i - 1) : j \in 1..n /\ j < i
    /\ \A j \in 1..n : j < i => j \in 1..(i - 1)
OBVIOUS

(* Of an order with a number, the first rows of its positions that give a   *)
(* product are its usable rows.                                             *)
LEMMA PositionsMean ==
  ASSUME NEW T, NEW rows \in Seq(T), NEW order, order # ""
  PROVE  {i \in PositionsOf(rows, order) : HasProduct(rows[i])} = Mine(rows, order)
<1> DEFINE key(i) == <<Identifier(rows[i].order), ParsePosition(rows[i].position)>>
<1>1. DOMAIN rows = 1..Len(rows) /\ Len(rows) \in Nat
  BY LenProperties
<1>2. \A i \in DOMAIN rows :
        (~\E j \in 1..(i - 1) : key(j) = key(i)) <=> \A j \in DOMAIN rows : j < i => key(j) # key(i)
  <2> HIDE DEF key
  <2>1. QED
    BY <1>1, Earlier, Zenon
<1>3. \A i : key(i)[1] = Identifier(rows[i].order) /\ key(i)[2] = ParsePosition(rows[i].position)
  OBVIOUS
<1>4. ASSUME NEW i \in DOMAIN rows
      PROVE  i \in PositionsOf(rows, order) <=>
               i \in Kept(rows) /\ Identifier(rows[i].order) = order
  <2>1. i \in PositionsOf(rows, order) <=>
          /\ key(i)[1] = order /\ key(i)[2] # "" /\ ~\E j \in 1..(i - 1) : key(j) = key(i)
    BY Zenon DEF PositionsOf
  <2>2. i \in Kept(rows) <=>
          "" \notin {key(i)[1], key(i)[2]} /\ \A j \in DOMAIN rows : j < i => key(j) # key(i)
    BY Zenon DEF Kept
  <2> HIDE DEF key
  <2>3. QED
    BY <1>2, <1>3, <2>1, <2>2
<1>5. PositionsOf(rows, order) \subseteq DOMAIN rows /\ Kept(rows) \subseteq DOMAIN rows
  BY Zenon DEF PositionsOf, Kept
<1>6. QED
  BY <1>4, <1>5, Zenon DEF Mine, Usable

(* A row that is kept has an order.                                         *)
LEMMA OrdersNamed ==
  ASSUME NEW T, NEW rows \in Seq(T), NEW i \in Usable(rows)
  PROVE  Identifier(rows[i].order) # "" /\ i \in DOMAIN rows
BY DEF Usable, Kept

(* The orders that the sheet completes are those of the headers, with the   *)
(* keys of their usable rows.                                               *)
LEMMA WantedMeans ==
  ASSUME NEW m \in DOMAIN ProjectedRows
  PROVE  /\ m \in DOMAIN Wanted
         /\ DOMAIN Wanted[m] = {Identifier(ProjectedRows[m][h].order) :
                                  h \in Headers(ProjectedRows[m])}
         /\ \A o \in DOMAIN Wanted[m] : Wanted[m][o] = Keys(ProjectedRows[m], o)
<1> DEFINE rows == ProjectedRows[m]
           keys(order) == {LineKey(ProductOf(rows[i])) :
                             i \in {i \in PositionsOf(rows, order) : HasProduct(rows[i])}}
           orders == {Identifier(rows[i].order) : i \in DOMAIN rows} \ {""}
           headed == {Identifier(rows[h].order) : h \in Headers(rows)}
<1>1. rows \in Seq([Columns -> STRING \X STRING])
  BY RowsAssumption
<1>2. m \in DOMAIN Wanted /\ Wanted[m] = [order \in {o \in orders : keys(o) # {}} |-> keys(order)]
  BY Zenon DEF Wanted
<1>3. \A o \in orders : keys(o) = Keys(rows, o)
  <2>1. SUFFICES ASSUME NEW o \in orders
                 PROVE  keys(o) = Keys(rows, o)
    OBVIOUS
  <2>2. {i \in PositionsOf(rows, o) : HasProduct(rows[i])} = Mine(rows, o)
    BY <1>1, <2>1, PositionsMean
  <2>3. QED
    BY <2>2, Zenon DEF Keys
<1> HIDE DEF keys
<1>4. \A o \in orders : keys(o) # {} <=> o \in headed
  <2>1. ASSUME NEW o \in orders, keys(o) # {}
        PROVE  o \in headed
    <3>1. PICK i \in Usable(rows) : Identifier(rows[i].order) = o
      BY <1>3, <2>1 DEF Keys, Mine
    <3>2. QED
      BY <1>1, <3>1, HeaderKnown
  <2>2. ASSUME NEW h \in Headers(rows), Identifier(rows[h].order) \in orders
        PROVE  keys(Identifier(rows[h].order)) # {}
    <3>1. h \in Mine(rows, Identifier(rows[h].order))
      BY <1>1, HeadersFinite DEF Mine
    <3>2. Keys(rows, Identifier(rows[h].order)) # {}
      BY <3>1 DEF Keys
    <3>3. QED
      BY <1>3, <2>2, <3>2, Zenon
  <2>3. QED
    BY <2>1, <2>2
<1>5. headed \subseteq orders
  BY <1>1, HeadersFinite, OrdersNamed
<1>6. {o \in orders : keys(o) # {}} = headed
  BY <1>4, <1>5
<1>7. Wanted[m] = [order \in headed |-> keys(order)]
  BY <1>2, <1>6
<1>8. \A o \in headed : Wanted[m][o] = Keys(rows, o)
  BY <1>3, <1>5, <1>7
<1>9. DOMAIN Wanted[m] = headed
  BY <1>7
<1>10. QED
  BY <1>2, <1>8, <1>9

(* The tender of a header has one line for each key of its order's usable   *)
(* rows, and no other.                                                      *)
LEMMA LinesMean ==
  ASSUME NEW T, NEW rows \in Seq(T), NEW h \in Headers(rows)
  PROVE  /\ {LineKey(l) : l \in Lines(rows, h)} = Keys(rows, Identifier(rows[h].order))
         /\ Cardinality(Lines(rows, h)) = Cardinality(Keys(rows, Identifier(rows[h].order)))
<1> DEFINE mine == Mine(rows, Identifier(rows[h].order))
           keys == Keys(rows, Identifier(rows[h].order))
           key(i) == LineKey(ProductOf(rows[i]))
           first == {i \in mine : \A j \in mine : j < i => key(j) # key(i)}
           lines == Lines(rows, h)
<1>1. mine \subseteq Nat /\ mine \subseteq 1..Len(rows) /\ Len(rows) \in Nat
  BY HeadersFinite DEF Mine
<1>2. lines = {ProductOf(rows[i]) : i \in first}
  BY Zenon DEF Lines, Mine
<1>3. keys = {key(i) : i \in mine}
  BY DEF Keys
<1> HIDE DEF mine, keys, key
<1>4. \A i \in mine : \E f \in first : key(f) = key(i)
  <2>1. SUFFICES ASSUME NEW i \in mine
                 PROVE  \E f \in first : key(f) = key(i)
    OBVIOUS
  <2>2. {j \in mine : key(j) = key(i)} \in SUBSET Nat /\ {j \in mine : key(j) = key(i)} # {}
    BY <1>1
  <2>3. PICK f \in {j \in mine : key(j) = key(i)} : \A j \in {j \in mine : key(j) = key(i)} : f <= j
    BY <2>2, LeastOf
  <2>4. \A j \in mine : j < f => key(j) # key(f)
    BY <1>1, <2>3
  <2>5. QED
    BY <2>3, <2>4
<1>5. \A f, g \in first : key(f) = key(g) => f = g
  BY <1>1
<1>6. \A l \in lines : \E i \in first : l = ProductOf(rows[i]) /\ LineKey(l) = key(i)
  BY <1>2 DEF key
<1>7. \A i \in first : ProductOf(rows[i]) \in lines /\ LineKey(ProductOf(rows[i])) = key(i)
  BY <1>2 DEF key
<1>8. first \subseteq mine
  OBVIOUS
<1> HIDE DEF first, lines
<1>9. {LineKey(l) : l \in lines} = keys
  <2>1. \A l \in lines : LineKey(l) \in keys
    BY <1>3, <1>6, <1>8
  <2>2. ASSUME NEW k \in keys
        PROVE  \E l \in lines : LineKey(l) = k
    <3>1. PICK i \in mine : k = key(i)
      BY <1>3
    <3>2. PICK f \in first : key(f) = key(i)
      BY <1>4
    <3>3. QED
      BY <1>7, <3>1, <3>2
  <2>3. QED
    BY <2>1, <2>2
<1>10. Cardinality(lines) = Cardinality(keys)
  <2> DEFINE f == [l \in lines |-> LineKey(l)]
  <2>1. \A k, l \in lines : LineKey(k) = LineKey(l) => k = l
    BY <1>5, <1>6
  <2>2. f \in [lines -> keys] /\ \A k, l \in lines : f[k] = f[l] => k = l
    BY <1>9, <2>1
  <2>3. \A k \in keys : \E l \in lines : f[l] = k
    BY <1>9
  <2>4. f \in Bijection(lines, keys)
    BY <2>2, <2>3 DEF Bijection, Injection, Surjection, IsInjective
  <2>5. IsFiniteSet(keys)
    <3>1. IsFiniteSet(mine)
      <4>1. IsFiniteSet(1..Len(rows))
        BY <1>1, FS_Interval
      <4>2. QED
        BY <1>1, <4>1, FS_Subset
    <3>2. [i \in mine |-> key(i)] \in Surjection(mine, keys)
      BY <1>3 DEF Surjection
    <3>3. QED
      BY <3>1, <3>2, FS_Surjection
  <2>6. IsFiniteSet(lines)
    BY <2>4, <2>5, FS_Injection DEF Bijection
  <2>7. QED
    BY <2>4, <2>6, FS_Bijection DEF ExistsBijection
<1>11. QED
  BY <1>9, <1>10 DEF keys, lines

\* The tender is one that is cut for the mail, as far as its order and lines go.
CutFor(tender, m) ==
  m \in DOMAIN ProjectedRows /\
  \E h \in Headers(ProjectedRows[m]) :
    /\ tender.order = Identifier(ProjectedRows[m][h].order)
    /\ tender.lines = Lines(ProjectedRows[m], h)

Covered == \A t \in DOMAIN tenders : CutFor(tenders[t], imports[tenders[t].import])

(* Each tender of a batch is cut for the mail; the batch has one for each   *)
(* order that the sheet completes.                                          *)
LEMMA BatchCovers ==
  ASSUME NEW m \in DOMAIN ProjectedRows, NEW from \in Mails \cup {NoPlaces}, NEW import \in Nat,
         NEW batch, batch = Inserted(ProjectedRows[m], from, import),
         NEW size, size = Cardinality(Headers(ProjectedRows[m]))
  PROVE  /\ \A k \in 1..size : CutFor(batch[k], m)
         /\ \A j, k \in 1..size : batch[j].order = batch[k].order => j = k
         /\ {batch[k].order : k \in 1..size} = DOMAIN Wanted[m]
<1> DEFINE rows == ProjectedRows[m]
           header(k) == CHOOSE h \in Headers(rows) : BatchPlace(rows, h) = k
           order(h) == Identifier(rows[h].order)
<1>1. rows \in Seq([Columns -> STRING \X STRING])
  BY RowsAssumption
<1>2. batch = [k \in 1..size |-> TenderOf(rows, header(k), from, import)]
  BY Zenon DEF Inserted
<1>3. \A k \in 1..size : \E h \in Headers(rows) : BatchPlace(rows, h) = k
  BY <1>1, BatchPlaces
<1>4. \A k \in 1..size : header(k) \in Headers(rows) /\ BatchPlace(rows, header(k)) = k
  BY <1>3, Zenon
<1>5. \A k \in 1..size :
        batch[k].order = order(header(k)) /\ batch[k].lines = Lines(rows, header(k))
  <2>1. \A k \in 1..size : batch[k] = TenderOf(rows, header(k), from, import)
    BY <1>2, Zenon
  <2>2. \A h : /\ TenderOf(rows, h, from, import).order = order(h)
              /\ TenderOf(rows, h, from, import).lines = Lines(rows, h)
    BY DEF TenderOf
  <2>3. QED
    BY <2>1, <2>2, Zenon
<1> HIDE DEF header
<1>6. \A g, h \in Headers(rows) : order(g) = order(h) => g = h
  <2>1. SUFFICES ASSUME NEW g \in Headers(rows), NEW h \in Headers(rows), order(g) = order(h)
                 PROVE  g = h
    OBVIOUS
  <2>2. ~(g < h) /\ ~(h < g)
    BY <1>1, <2>1, HeadersFinite, Zenon DEF Headers
  <2>3. g \in Nat /\ h \in Nat
    BY <1>1, HeadersFinite
  <2>4. QED
    BY <2>2, <2>3
<1>7. \A h \in Headers(rows) : BatchPlace(rows, h) \in 1..size /\ header(BatchPlace(rows, h)) = h
  <2>1. SUFFICES ASSUME NEW h \in Headers(rows)
                 PROVE  BatchPlace(rows, h) \in 1..size /\ header(BatchPlace(rows, h)) = h
    OBVIOUS
  <2>2. BatchPlace(rows, h) \in 1..size
    BY <1>1, BatchPlaces
  <2>3. QED
    BY <1>1, <1>4, <2>2, BatchPlaces
<1>8. DOMAIN Wanted[m] = {order(h) : h \in Headers(rows)}
  BY WantedMeans
<1> HIDE DEF order, rows
<1>9. \A k \in 1..size : CutFor(batch[k], m)
  BY <1>4, <1>5, Zenon DEF CutFor, order, rows
<1>10. \A j, k \in 1..size : batch[j].order = batch[k].order => j = k
  <2>1. SUFFICES ASSUME NEW j \in 1..size, NEW k \in 1..size, batch[j].order = batch[k].order
                 PROVE  j = k
    OBVIOUS
  <2>2. order(header(j)) = order(header(k))
    BY <1>5, <2>1
  <2>3. header(j) = header(k)
    BY <1>4, <1>6, <2>2, Zenon
  <2>4. BatchPlace(rows, header(j)) = j /\ BatchPlace(rows, header(k)) = k
    BY <1>4
  <2>5. QED
    BY <2>3, <2>4, Zenon
<1>11. {batch[k].order : k \in 1..size} = {order(h) : h \in Headers(rows)}
  <2>1. \A k \in 1..size : batch[k].order \in {order(h) : h \in Headers(rows)}
    BY <1>4, <1>5
  <2>2. \A h \in Headers(rows) : \E k \in 1..size : batch[k].order = order(h)
    BY <1>5, <1>7
  <2>3. QED
    BY <2>1, <2>2
<1>12. QED
  BY <1>8, <1>9, <1>10, <1>11

(* What is on record after a batch has gone in.                             *)
LEMMA PersistCovers ==
  ASSUME Inv, NEW w \in Workers, Persist(w), tenders' # tenders
  PROVE  /\ imports' = imports /\ Size(w) \in Nat /\ Len(tenders) \in Nat
         /\ DOMAIN tenders = 1..Len(tenders) /\ DOMAIN tenders' = 1..(Len(tenders) + Size(w))
         /\ Len(tenders') = Len(tenders) + Size(w)
         /\ \A t \in DOMAIN tenders : tenders'[t] = tenders[t]
         /\ \A t \in (Len(tenders) + 1)..(Len(tenders) + Size(w)) :
              /\ tenders'[t] = Cut(w)[t - Len(tenders)] /\ t - Len(tenders) \in 1..Size(w)
              /\ imports[tenders'[t].import] = work[w].mail
              /\ CutFor(tenders'[t], work[w].mail)
         /\ \A j, k \in 1..Size(w) : Cut(w)[j].order = Cut(w)[k].order => j = k
         /\ {Cut(w)[k].order : k \in 1..Size(w)} = DOMAIN Wanted[work[w].mail]
<1> USE DEF Inv
<1>1. work[w].at = "persist" /\ imports' = imports /\ tenders' = tenders \o Cut(w)
  BY PersistMeans
<1>2. /\ Size(w) \in Nat /\ Cut(w) \in Seq(TenderRows) /\ Len(Cut(w)) = Size(w)
      /\ \A k \in 1..Size(w) : Cut(w)[k].import = work[w].import
  BY <1>1, CutMeans
<1>3. Len(tenders) \in Nat /\ DOMAIN tenders = 1..Len(tenders)
  BY Lengths
<1>4. /\ DOMAIN tenders' = 1..(Len(tenders) + Size(w))
      /\ Len(tenders') = Len(tenders) + Size(w)
      /\ \A t \in DOMAIN tenders : tenders'[t] = tenders[t]
  BY <1>1, <1>3, Joined
<1>5. ASSUME NEW t \in (Len(tenders) + 1)..(Len(tenders) + Size(w))
      PROVE  tenders'[t] = Cut(w)[t - Len(tenders)] /\ t - Len(tenders) \in 1..Size(w)
  <2>1. tenders \in Seq(TenderRows)
    BY DEF Shape
  <2>2. \A i \in 1..(Len(tenders) + Len(Cut(w))) :
          (tenders \o Cut(w))[i] =
            IF i <= Len(tenders) THEN tenders[i] ELSE Cut(w)[i - Len(tenders)]
    BY <1>2, <2>1, ConcatProperties
  <2>3. t \in 1..(Len(tenders) + Size(w)) /\ ~(t <= Len(tenders)) /\ t - Len(tenders) \in 1..Size(w)
    BY <1>2, <1>3
  <2>4. QED
    BY <1>1, <1>2, <2>2, <2>3, Zenon
<1>6. work[w].mail \in DOMAIN ProjectedRows
  <2>1. work[w].mail \in Mails /\ OrdersBook(work[w].mail) # Unset
    BY <1>1, RecordsTyped DEF Turns, Busy, Recorded, Traced, OfOrders, Stages
  <2>2. QED
    BY <2>1 DEF ProjectedRows
<1>7. /\ \A k \in 1..Size(w) : CutFor(Cut(w)[k], work[w].mail)
      /\ \A j, k \in 1..Size(w) : Cut(w)[j].order = Cut(w)[k].order => j = k
      /\ {Cut(w)[k].order : k \in 1..Size(w)} = DOMAIN Wanted[work[w].mail]
  <2>1. work[w].from \in Mails \cup {NoPlaces} /\ work[w].import \in Nat
    BY DEF Shape, Works
  <2>2. PICK m \in DOMAIN ProjectedRows, from \in Mails \cup {NoPlaces}, import \in Nat :
          m = work[w].mail /\ from = work[w].from /\ import = work[w].import
    BY <1>6, <2>1
  <2>3. /\ Cut(w) = Inserted(ProjectedRows[m], from, import)
        /\ Size(w) = Cardinality(Headers(ProjectedRows[m]))
    BY <2>2, Zenon DEF Rows, Cut, Size
  <2>4. /\ \A k \in 1..Size(w) : CutFor(Cut(w)[k], m)
        /\ \A j, k \in 1..Size(w) : Cut(w)[j].order = Cut(w)[k].order => j = k
        /\ {Cut(w)[k].order : k \in 1..Size(w)} = DOMAIN Wanted[m]
    BY <2>3, BatchCovers
  <2>5. QED
    BY <2>2, <2>4, Zenon
<1>8. imports[work[w].import] = work[w].mail
  BY <1>1 DEF Recorded, Traced
<1>9. \A t \in (Len(tenders) + 1)..(Len(tenders) + Size(w)) :
        /\ tenders'[t] = Cut(w)[t - Len(tenders)] /\ t - Len(tenders) \in 1..Size(w)
        /\ imports[tenders'[t].import] = work[w].mail
        /\ CutFor(tenders'[t], work[w].mail)
  <2>1. SUFFICES ASSUME NEW t \in (Len(tenders) + 1)..(Len(tenders) + Size(w))
                 PROVE  /\ tenders'[t] = Cut(w)[t - Len(tenders)] /\ t - Len(tenders) \in 1..Size(w)
                        /\ imports[tenders'[t].import] = work[w].mail
                        /\ CutFor(tenders'[t], work[w].mail)
    OBVIOUS
  <2>2. tenders'[t] = Cut(w)[t - Len(tenders)] /\ t - Len(tenders) \in 1..Size(w)
    BY <1>5
  <2>3. tenders'[t].import = work[w].import /\ CutFor(tenders'[t], work[w].mail)
    BY <1>2, <1>7, <2>2
  <2>4. QED
    BY <1>8, <2>2, <2>3
<1>10. QED
  BY <1>1, <1>2, <1>3, <1>4, <1>7, <1>9

(* Every other step leaves the tenders as they are, and what is imported.   *)
LEMMA TendersKept ==
  ASSUME Inv, [Next]_vars, tenders' = tenders \/ ~\E w \in Workers : Persist(w)
  PROVE  tenders' = tenders /\ \A i \in DOMAIN imports : imports'[i] = imports[i]
<1> USE DEF Inv
<1>1. CASE UNCHANGED vars
  BY <1>1, Zenon DEF vars
<1>2. CASE \E m \in Mails : Deliver(m)
  BY <1>2, Zenon DEF Deliver
<1>3. ASSUME NEW w \in Workers, NEW m \in Mails, Take(w, m)
      PROVE  UNCHANGED <<tenders, imports>>
  BY <1>3, Zenon DEF Take
<1>4. ASSUME NEW w \in Workers, Early(w)
      PROVE  tenders' = tenders /\ \A i \in DOMAIN imports : imports'[i] = imports[i]
  BY <1>4, EarlyKeeps
<1>5. ASSUME NEW w \in Workers, Persist(w)
      PROVE  imports' = imports
  BY <1>5, PersistMeans
<1>6. ASSUME NEW w \in Workers, Start(w) \/ Queue(w)
      PROVE  UNCHANGED <<tenders, imports>>
  BY <1>6, Zenon DEF Start, Queue
<1>7. ASSUME NEW w \in Workers, Fail(w) \/ Complete(w) \/ Die(w)
      PROVE  UNCHANGED <<tenders, imports>>
  BY <1>7, FailMeans, CompleteMeans, DieMeans DEF Quiet
<1>8. CASE Next
  <2>1. CASE \E w \in Workers : Persist(w)
    BY <1>5, <2>1
  <2>2. CASE \E w \in Workers : Early(w)
    BY <1>4, <2>2
  <2>3. CASE ~\E w \in Workers : Persist(w) \/ Early(w)
    BY <1>2, <1>3, <1>6, <1>7, <1>8, <2>3, Zenon DEF Next, Attempt, Ingest, Early
  <2>4. QED
    BY <2>1, <2>2, <2>3
<1>9. QED
  BY <1>1, <1>8

(* A tender on record stays the one it was cut as.                          *)
LEMMA StepCovered ==
  ASSUME Inv, Covered, [Next]_vars
  PROVE  Covered'
<1> USE DEF Inv
<1>1. ASSUME \A t \in DOMAIN tenders' : CutFor(tenders'[t], imports'[tenders'[t].import])
      PROVE  Covered'
  <2>1. \A t \in DOMAIN tenders' : CutFor(tenders[t], imports[tenders[t].import])'
    BY <1>1, Zenon DEF CutFor
  <2>2. QED
    BY <2>1, Zenon DEF Covered
<1>2. \A t \in DOMAIN tenders : tenders[t].import \in DOMAIN imports
  BY DEF References
<1>3. CASE tenders' = tenders \/ ~\E w \in Workers : Persist(w)
  <2>1. tenders' = tenders /\ \A i \in DOMAIN imports : imports'[i] = imports[i]
    BY <1>3, TendersKept
  <2>2. \A t \in DOMAIN tenders' : imports'[tenders'[t].import] = imports[tenders[t].import]
    BY <1>2, <2>1
  <2>3. QED
    BY <1>1, <2>1, <2>2 DEF Covered
<1>4. ASSUME NEW w \in Workers, Persist(w), tenders' # tenders
      PROVE  Covered'
  <2>1. /\ imports' = imports /\ Size(w) \in Nat /\ Len(tenders) \in Nat
        /\ DOMAIN tenders = 1..Len(tenders) /\ DOMAIN tenders' = 1..(Len(tenders) + Size(w))
        /\ \A t \in DOMAIN tenders : tenders'[t] = tenders[t]
        /\ \A t \in (Len(tenders) + 1)..(Len(tenders) + Size(w)) :
             /\ imports[tenders'[t].import] = work[w].mail
             /\ CutFor(tenders'[t], work[w].mail)
    BY <1>4, PersistCovers
  <2>2. \A t \in DOMAIN tenders' :
          t \in DOMAIN tenders \/ t \in (Len(tenders) + 1)..(Len(tenders) + Size(w))
    BY <2>1
  <2>3. ASSUME NEW t \in DOMAIN tenders
        PROVE  CutFor(tenders'[t], imports'[tenders'[t].import])
    BY <2>1 DEF Covered
  <2>4. QED
    BY <1>1, <2>1, <2>2, <2>3
<1>5. QED
  BY <1>3, <1>4

(* A tender that was cut for a mail has what its sheet completes.           *)
LEMMA CutIsWanted ==
  ASSUME NEW tender, NEW m, CutFor(tender, m)
  PROVE  /\ tender.order \in DOMAIN Wanted[m]
         /\ {LineKey(l) : l \in tender.lines} = Wanted[m][tender.order]
         /\ Cardinality(tender.lines) = Cardinality(Wanted[m][tender.order])
<1>1. m \in DOMAIN ProjectedRows
  BY DEF CutFor
<1>2. PICK h \in Headers(ProjectedRows[m]) :
        /\ tender.order = Identifier(ProjectedRows[m][h].order)
        /\ tender.lines = Lines(ProjectedRows[m], h)
  BY DEF CutFor
<1>3. ProjectedRows[m] \in Seq([Columns -> STRING \X STRING])
  BY <1>1, RowsAssumption
<1>4. tender.order \in DOMAIN Wanted[m]
      /\ Wanted[m][tender.order] = Keys(ProjectedRows[m], tender.order)
  BY <1>1, <1>2, WantedMeans
<1>5. /\ {LineKey(l) : l \in tender.lines} = Keys(ProjectedRows[m], tender.order)
      /\ Cardinality(tender.lines) = Cardinality(Keys(ProjectedRows[m], tender.order))
  BY <1>2, <1>3, LinesMean, Zenon
<1>6. QED
  BY <1>4, <1>5, Zenon

(* As many numbers as there are from one to another.                        *)
LEMMA SpanFinite ==
  ASSUME NEW a \in Nat, NEW n \in Nat
  PROVE  IsFiniteSet((a + 1)..(a + n))
BY FS_Interval

-----------------------------------------------------------------------------
(* In every reachable state the variables have their types, each step what  *)
(* its stage goes by, and no item count is beyond the deliveries.           *)
THEOREM TypeCorrect == Spec => []TypeOK
BY Invariance, InvTypeOK, PTL

(* The queue of the mail keeps two workers from its look-up and its         *)
(* insertion, and a batch of tenders is one worker's until its runs are     *)
(* queued: nothing is imported or started twice, whatever comes twice,      *)
(* fails or dies.                                                           *)
THEOREM ImportsCorrect == Spec => []ImportInv
<1>1. Inv => ImportInv
  BY InvTypeOK, Zenon DEF Inv, Recorded, ImportInv, ImportedOnce
<1>2. QED
  BY <1>1, Invariance, PTL

(* A tender without a run is being worked on, or its mail is among the      *)
(* failed items or hangs at the head of its queue.                          *)
THEOREM NoneStranded == Spec => []StrandedAccounted
<1>1. Init => StrandedAccounted
  BY EmptySeq DEF Init, StrandedAccounted
<1>2. Inv /\ StrandedAccounted /\ [Next]_vars => StrandedAccounted'
  BY StepStranded
<1>3. QED
  BY <1>1, <1>2, Invariance, PTL DEF Spec

(* A mail that brings locations has its customers resolved once its own, or  *)
(* later ones written over them, are on record; and with one row, or with   *)
(* two workers, against no locations complete before it began to record its *)
(* own, whichever row is the newest.                                        *)
THEOREM OwnLocationsUsed == Spec => OwnLocations
<1> DEFINE Few == Cardinality(Workers) <= 2 => Settled
           resolved == \A w \in Workers :
             /\ work[w].at = "index" /\ PlacesBook(work[w].mail) # Unset
             /\ work'[w].from # NoPlaces
             => /\ work[w].since > 0 /\ \E p \in DOMAIN places : places[p].done > work[w].since
                /\ Len(places) = 1 \/ Cardinality(Workers) <= 2 =>
                     places[NewestPlaces].done > work[w].since
<1>1. Init => AllBrought /\ Few
  <2> SUFFICES ASSUME Init
               PROVE  AllBrought /\ Settled
    OBVIOUS
  <2>1. /\ \A w \in Workers : work[w].at = "idle"
        /\ DOMAIN places = {}
    BY IdleKnown, EmptySeq DEF Init
  <2>2. AllBrought
    BY <2>1 DEF AllBrought, Brought, Recording
  <2>3. Later /\ \A v, w \in Workers : Fresh(v, w)
    BY <2>1 DEF Later, Fresh, Writing
  <2>4. \A w \in Workers : Alone(w) /\ Leading(w)
    BY <2>1 DEF Alone, Leading, Writing, Recording
  <2>5. QED
    BY <2>2, <2>3, <2>4 DEF Settled
<1>2. Inv /\ AllBrought /\ [Next]_vars => AllBrought'
  BY StepBrought
<1>3. Inv /\ Few /\ [Next]_vars => Few'
  BY StepSettled
<1>4. Inv /\ AllBrought /\ Few => resolved
  BY SettledPlaces
<1>5. Spec => []Inv
  BY Invariance
<1>6. Inv /\ AllBrought /\ Few /\ [Next]_vars => [resolved]_vars
  BY <1>4
<1> HIDE DEF Few, resolved
<1>7. Spec => [][resolved]_vars
  BY <1>1, <1>2, <1>3, <1>5, <1>6, PTL DEF Spec
<1>8. QED
  BY <1>7 DEF OwnLocations, resolved

(* However a workbook repeats, misspells or leaves out what its rows say, a *)
(* tender has the lines that its order's positions complete, each once.     *)
THEOREM LinesOfItsPositions == Spec => []PositionsCovered
<1>1. Init => Covered
  BY EmptySeq DEF Init, Covered
<1>2. Inv /\ Covered /\ [Next]_vars => Covered'
  BY StepCovered
<1>3. Covered => PositionsCovered
  <2>1. SUFFICES ASSUME Covered, NEW t \in DOMAIN tenders
                 PROVE  LET lines == tenders[t].lines
                            wanted == Wanted[imports[tenders[t].import]]
                        IN /\ tenders[t].order \in DOMAIN wanted
                           /\ {LineKey(l) : l \in lines} = wanted[tenders[t].order]
                           /\ Cardinality(lines) = Cardinality(wanted[tenders[t].order])
    BY Zenon DEF PositionsCovered
  <2>2. CutFor(tenders[t], imports[tenders[t].import])
    BY <2>1 DEF Covered
  <2>3. QED
    BY <2>2, CutIsWanted, Zenon
<1>4. QED
  BY <1>1, <1>2, <1>3, Invariance, PTL DEF Spec

(* An attempt inserts one tender for each order that the sheet completes,   *)
(* and none besides.                                                        *)
THEOREM OrdersOnce == Spec => OneTenderPerOrder
<1> DEFINE added == DOMAIN tenders' \ DOMAIN tenders
           named == {tenders'[t].order : t \in added}
           apart == added # {} =>
                      /\ Cardinality(named) = Cardinality(added)
                      /\ named = DOMAIN Wanted[imports[tenders'[Len(tenders')].import]]
<1>1. ASSUME Inv, [Next]_vars
      PROVE  apart
  <2>1. SUFFICES ASSUME added # {}
                 PROVE  /\ Cardinality(named) = Cardinality(added)
                        /\ named = DOMAIN Wanted[imports[tenders'[Len(tenders')].import]]
    OBVIOUS
  <2>2. PICK w \in Workers : Persist(w) /\ tenders' # tenders
    BY <1>1, <2>1, TendersKept
  <2>3. /\ Size(w) \in Nat /\ Len(tenders) \in Nat
        /\ DOMAIN tenders = 1..Len(tenders) /\ DOMAIN tenders' = 1..(Len(tenders) + Size(w))
        /\ Len(tenders') = Len(tenders) + Size(w)
        /\ \A t \in (Len(tenders) + 1)..(Len(tenders) + Size(w)) :
             /\ tenders'[t] = Cut(w)[t - Len(tenders)] /\ t - Len(tenders) \in 1..Size(w)
             /\ imports[tenders'[t].import] = work[w].mail
        /\ \A j, k \in 1..Size(w) : Cut(w)[j].order = Cut(w)[k].order => j = k
        /\ {Cut(w)[k].order : k \in 1..Size(w)} = DOMAIN Wanted[work[w].mail]
    BY <1>1, <2>2, PersistCovers
  <2> DEFINE span == (Len(tenders) + 1)..(Len(tenders) + Size(w))
             f == [t \in span |-> tenders'[t].order]
  <2>4. added = span
    BY <2>3
  <2>5. \A s, t \in span : tenders'[s].order = tenders'[t].order => s = t
    <3>1. SUFFICES ASSUME NEW s \in span, NEW t \in span, tenders'[s].order = tenders'[t].order
                   PROVE  s = t
      OBVIOUS
    <3>2. s - Len(tenders) = t - Len(tenders)
      BY <2>3, <3>1
    <3>3. QED
      BY <2>3, <3>2
  <2>6. Cardinality(named) = Cardinality(added)
    <3> HIDE DEF span
    <3>1. f \in [span -> named] /\ \A s, t \in span : f[s] = f[t] => s = t
      BY <2>4, <2>5
    <3>2. \A o \in named : \E t \in span : f[t] = o
      BY <2>4
    <3>3. f \in Bijection(span, named)
      BY <3>1, <3>2 DEF Bijection, Injection, Surjection, IsInjective
    <3>4. IsFiniteSet(span)
      BY <2>3, SpanFinite DEF span
    <3>5. QED
      BY <2>4, <3>3, <3>4, FS_Bijection DEF ExistsBijection
  <2>7. named = DOMAIN Wanted[work[w].mail]
    <3>1. \A o \in named : o \in {Cut(w)[k].order : k \in 1..Size(w)}
      BY <2>3, <2>4
    <3>2. ASSUME NEW k \in 1..Size(w)
          PROVE  Cut(w)[k].order \in named
      <4>1. Len(tenders) + k \in span /\ (Len(tenders) + k) - Len(tenders) = k
        BY <2>3
      <4>2. tenders'[Len(tenders) + k] = Cut(w)[k]
        BY <2>3, <4>1
      <4>3. QED
        BY <2>4, <4>1, <4>2
    <3>3. named = {Cut(w)[k].order : k \in 1..Size(w)}
      <4> HIDE DEF named
      <4>1. QED
        BY <3>1, <3>2
    <3>4. QED
      BY <2>3, <3>3, Zenon
  <2>8. imports[tenders'[Len(tenders')].import] = work[w].mail
    <3>1. Len(tenders') \in span
      BY <2>1, <2>3, <2>4
    <3>2. QED
      BY <2>3, <3>1
  <2>9. QED
    BY <2>6, <2>7, <2>8
<1>2. ASSUME Inv, [Next]_vars
      PROVE  [LET new == DOMAIN tenders' \ DOMAIN tenders
                  orders == {tenders'[t].order : t \in new}
              IN new # {} =>
                   /\ Cardinality(orders) = Cardinality(new)
                   /\ orders = DOMAIN Wanted[imports[tenders'[Len(tenders')].import]]]_vars
  BY <1>1, <1>2, Zenon
<1>3. QED
  BY <1>2, Invariance, PTL DEF Spec, OneTenderPerOrder

=============================================================================
