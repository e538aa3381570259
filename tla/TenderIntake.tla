---------------------------- MODULE TenderIntake ----------------------------
(***************************************************************************)
(* From the mail with the workbooks to the load_tendering runs: the Unipile *)
(* webhook and the queue of each mail, the workers that fetch the workbook  *)
(* of delivery locations and the one of customer orders, the rows they      *)
(* record, the tenders cut from the rows and the run started for each.      *)
(*                                                                         *)
(* Cells are pairs of what the reader made of the cell and its text.  Left  *)
(* out: dates, prices and the address lines that nothing looks at, replies  *)
(* (LoadTendering) and what happens to a run once it is queued (RunQueue).  *)
(***************************************************************************)
EXTENDS Integers, FiniteSets, SequencesExt

CONSTANTS Workers,        \* Celery workers
          Mails,          \* ids of the mails
          Mail,           \* what a mail carries, a function of the id
          Book,           \* the content of each workbook
          PackCodes,      \* the active rows of pack_codes
          Whole,          \* the texts that stand for positive integers
          UnitOf,         \* the unit a text stands for, a function of the known ones
          StateOf,        \* the state of the cities that pgeocode finds
          FetchAttempts,  \* _ATTACHMENT_FETCH_ATTEMPTS
          Failing,        \* the operations that may fail
          MaxDeliveries,  \* webhooks for a mail, a function of the id
          MaxDeaths       \* workers that die

Unset == "unset"
NoPlaces == "none"
Blank == <<"blank", "">>

\* The columns of LOAD_TENDERING_ROW_PROJECTION that are modelled.
Columns == {"order", "position", "product", "quantity", "unit", "pack", "place"}

\* As many processes as a pool has.
ASSUME WorkersAssumption == IsFiniteSet(Workers)
ASSUME BookAssumption ==
  \A b \in DOMAIN Book :
    \A s \in ToSet(Book[b].sheets) : \A row \in ToSet(s.rows) : \A c \in DOMAIN row :
      c \in Columns \cup {"customer", "city", "state", "other"} /\ row[c] \in STRING \X STRING
ASSUME MailAssumption ==
  /\ Unset \notin Mails \cup DOMAIN Book
  /\ \A m \in Mails :
       /\ Mail[m].account \in BOOLEAN
       /\ Mail[m].files \in Seq([name : {"delivery_location", "customers_orders", "other"},
                                book : DOMAIN Book])
ASSUME FailingAssumption ==
  Failing \subseteq {"publish", "transient", "fetch", "refuse", "insert", "read", "places",
                     "persist", "resolve", "enqueue"}
ASSUME BoundsAssumption ==
  /\ MaxDeaths \in Nat
  /\ MaxDeliveries \in [Mails -> Nat]
  /\ FetchAttempts \in Nat \ {0}

VARIABLES delivered,  \* webhooks received for each mail
          inbox,      \* the items in email_ingress_work_queue of each mail
          broker,     \* the mails of which Celery holds a task
          work,       \* what each worker is at
          clock,      \* orders the transactions on the locations
          places,     \* the data_imports rows of delivery locations, by id
          imports,    \* the data_imports rows of orders: the mail of each, by id
          tenders,    \* the tenders rows with their product lines, by id
          lifecycles, \* the tenders with a lifecycle
          started,    \* the runs queued for each tender
          failed,     \* the items of each mail on failed:email_ingress
          deaths      \* workers that died

vars == <<delivered, inbox, broker, work, clock, places, imports, tenders, lifecycles, started,
          failed, deaths>>

-----------------------------------------------------------------------------
(* What a mail carries.                                                    *)

\* The file is the first of its kind on the mail.
FirstOf(m, name) ==
  LET at == {i \in DOMAIN Mail[m].files : Mail[m].files[i].name = name} IN
  IF at = {} THEN Unset ELSE Mail[m].files[CHOOSE i \in at : \A j \in at : i <= j].book

PlacesBook(m) == FirstOf(m, "delivery_location")
OrdersBook(m) == FirstOf(m, "customers_orders")

\* payload_requires_heavy_ingress_work; other mails never reach this queue.
Heavy(m) ==
  \E i \in DOMAIN Mail[m].files :
    Mail[m].files[i].name \in {"delivery_location", "customers_orders"}

-----------------------------------------------------------------------------
(* Cells and rows.                                                         *)

\* A whole number reads the same as an integer, a float and a text.
Identifier(cell) == IF cell[1] = "blank" THEN "" ELSE cell[2]

ParsePosition(cell) == IF cell[2] \in Whole THEN cell[2] ELSE ""

ParseQuantity(cell) == IF cell[1] = "text" /\ cell[2] \notin Whole THEN "" ELSE cell[2]

ParseUnit(cell) == IF cell[2] \in DOMAIN UnitOf THEN UnitOf[cell[2]] ELSE ""

\* The rows of all the sheets, one after the other.
SheetRows(book) == FlattenSeq([i \in DOMAIN book.sheets |-> book.sheets[i].rows])

\* A column that the sheet does not have is blank, one nobody asks for goes.
ProjectRow(row) == [c \in Columns |-> IF c \in DOMAIN row THEN row[c] ELSE Blank]

HasAnyValue(row) == \E c \in Columns : row[c][2] # ""

Projected(book) ==
  LET rows == SheetRows(book) IN
  SelectSeq([i \in DOMAIN rows |-> ProjectRow(rows[i])], HasAnyValue)

ProjectedRows ==
  [m \in {m \in Mails : OrdersBook(m) # Unset} |-> Projected(Book[OrdersBook(m)])]

\* What is read of a workbook is rows, one after the other.
ASSUME RowsAssumption ==
  \A m \in DOMAIN ProjectedRows : ProjectedRows[m] \in Seq([Columns -> STRING \X STRING])

\* Faulty variant, used as a mutant.
AllKept(rows) ==
  {i \in DOMAIN rows :
    /\ Identifier(rows[i].order) # ""
    /\ ParsePosition(rows[i].position) # ""}

\* dedupe_projected_rows_by_order_and_position: the first of a position stays.
Kept(rows) ==
  LET key(i) == <<Identifier(rows[i].order), ParsePosition(rows[i].position)>> IN
  {i \in DOMAIN rows :
    /\ "" \notin {key(i)[1], key(i)[2]}
    /\ \A j \in DOMAIN rows : j < i => key(j) # key(i)}

PackOf(row) == IF row.pack[2] \in PackCodes THEN row.pack[2] ELSE Unset

\* product_metadata_for_ingest: the code is kept when the catalogue lacks it.
ProductSource(row) == IF PackOf(row) # Unset THEN "" ELSE row.pack[2]

\* projected_row_to_tender_product_insert returns something.
HasProduct(row) ==
  /\ row.product[2] # ""
  /\ ParseQuantity(row.quantity) # ""
  /\ ParseUnit(row.unit) # ""

ProductOf(row) ==
  [product |-> row.product[2], quantity |-> ParseQuantity(row.quantity), pack |-> PackOf(row),
   unit |-> ParseUnit(row.unit), source |-> ProductSource(row)]

LineKey(line) == <<line.product, line.quantity, line.pack>>

-----------------------------------------------------------------------------
(* The delivery locations.                                                 *)

\* The sheet by its name, or the first that is not empty.
LocationRows(book) ==
  LET full == SelectSeq(book.sheets, LAMBDA s : s.rows # <<>>)
      named == SelectSeq(full, LAMBDA s : s.name = "delivery locations")
  IN IF full = <<>> THEN <<>> ELSE IF named = <<>> THEN full[1].rows ELSE named[1].rows

\* The canonical row; the number goes through identifier_string_from_cell.
Materialized(row) ==
  [number |-> Identifier(row.place), customer |-> row.customer[2], city |-> row.city[2],
   state |-> row.state[2]]

\* The first row of a number stays.
LocationIndex(book) ==
  LET rows == [i \in DOMAIN LocationRows(book) |-> Materialized(LocationRows(book)[i])]
      numbers == {rows[i].number : i \in DOMAIN rows} \ {""}
      first(n) == CHOOSE i \in DOMAIN rows : rows[i].number = n /\
                    \A j \in DOMAIN rows : rows[j].number = n => i <= j
  IN [n \in numbers |-> rows[first(n)]]

\* The location of a row of the orders, as a set of at most one; with no index
\* there is none.
Lookup(row, from) ==
  IF from = NoPlaces THEN {}
  ELSE LET index == LocationIndex(Book[PlacesBook(from)]) IN
       {index[n] : n \in {Identifier(row.place)} \cap DOMAIN index}

CustomerOf(row, from) ==
  LET names == {l.customer : l \in Lookup(row, from)} \ {""} IN
  IF names = {} THEN "Unknown Customer" ELSE CHOOSE n \in names : TRUE

\* customer_name_source is "unknown".
CustomerUnknown(row, from) == {l.customer : l \in Lookup(row, from)} \ {""} = {}

\* The state stands behind the city or is looked up.
AddressAt(location) ==
  <<location.city,
    IF location.state # "" THEN location.state
    ELSE IF location.city \in DOMAIN StateOf THEN StateOf[location.city] ELSE "">>

\* delivery_address, of which the city and the state are modelled.
AddressOf(row, from) ==
  IF Lookup(row, from) = {} THEN Unset
  ELSE AddressAt(CHOOSE l \in Lookup(row, from) : TRUE)

\* tender_metadata_source_patch.
TenderSource(row, from) ==
  IF CustomerUnknown(row, from) \/ AddressOf(row, from) = Unset
    THEN Identifier(row.place) ELSE ""

-----------------------------------------------------------------------------
(* Tenders cut from the rows of a mail, with the locations of another.     *)

\* The rows that give both a header and a product line.
Usable(rows) == {i \in Kept(rows) : HasProduct(rows[i])}

\* Faulty variant, used as a mutant.
AllHeaders(rows) == Usable(rows)

\* One header per order number, from its first usable row.
Headers(rows) ==
  LET order(i) == Identifier(rows[i].order) IN
  {i \in Usable(rows) : \A j \in Usable(rows) : j < i => order(j) # order(i)}

\* The header that row i's order has got, and its place in the batch.
HeaderFor(rows, i) ==
  CHOOSE h \in Headers(rows) : Identifier(rows[h].order) = Identifier(rows[i].order)
BatchPlace(rows, h) == Cardinality({g \in Headers(rows) : g <= h})

\* The lines of the tender of header h: of lines with one key the first stays.
Lines(rows, h) ==
  LET mine == {i \in Usable(rows) : Identifier(rows[i].order) = Identifier(rows[h].order)} IN
  {ProductOf(rows[i]) : i \in {i \in mine : \A j \in mine :
     j < i => LineKey(ProductOf(rows[j])) # LineKey(ProductOf(rows[i]))}}

\* The row of header h, its customer found among the locations of a mail.
TenderOf(rows, h, from, import) ==
  [order |-> Identifier(rows[h].order), customer |-> CustomerOf(rows[h], from),
   address |-> AddressOf(rows[h], from), source |-> TenderSource(rows[h], from),
   import |-> import, lines |-> Lines(rows, h)]

\* The rows that insert_batch adds, in the order of the sheet.
Inserted(rows, from, import) ==
  [k \in 1..Cardinality(Headers(rows)) |->
     TenderOf(rows, CHOOSE h \in Headers(rows) : BatchPlace(rows, h) = k, from, import)]

\* The tender of each projected row, 0 if none was made for it.
TenderIds(rows, before) ==
  [i \in DOMAIN rows |->
     IF i \in Usable(rows) THEN before + BatchPlace(rows, HeaderFor(rows, i)) ELSE 0]

-----------------------------------------------------------------------------
(* State.                                                                  *)

Stages == {"idle", "fetchPlaces", "findPlaces", "writePlaces", "seek", "fetch", "record",
           "project", "index", "persist", "start", "queue", "failed", "complete"}

\* The fields that a stage has no use for are reset.
Begun(m, at) ==
  [at |-> at, mail |-> m, try |-> 1, found |-> 0, since |-> 0, import |-> 0, from |-> NoPlaces,
   ids |-> <<>>, row |-> 0]

Idle == Begun(Unset, "idle")

TypeOK ==
  /\ \A m \in Mails : {delivered[m], inbox[m], failed[m]} \subseteq 0..MaxDeliveries[m]
  /\ broker \subseteq Mails
  /\ \A w \in Workers :
       /\ work[w].at \in Stages
       /\ work[w].mail \in Mails \cup {Unset}
       /\ work[w].try \in 1..FetchAttempts
       /\ work[w].found \in 0..Len(places)
       /\ work[w].since \in 0..clock
       /\ work[w].import \in 0..Len(imports)
       /\ work[w].from \in Mails \cup {NoPlaces}
       /\ work[w].ids \in Seq(0..Len(tenders))
       /\ work[w].row \in 0..Len(work[w].ids)
  /\ clock \in Nat
  /\ places \in Seq([mail : Mails, since : 1..clock, done : 1..clock])
  /\ imports \in Seq(Mails)
  /\ \A t \in DOMAIN tenders : tenders[t].import \in DOMAIN imports
  /\ lifecycles \subseteq DOMAIN tenders
  /\ DOMAIN started = DOMAIN tenders /\ \A t \in DOMAIN started : started[t] \in Nat
  /\ deaths \in 0..MaxDeaths

Init ==
  /\ delivered = [m \in Mails |-> 0]
  /\ inbox = [m \in Mails |-> 0]
  /\ broker = {}
  /\ work = [w \in Workers |-> Idle]
  /\ clock = 0
  /\ places = <<>> /\ imports = <<>> /\ tenders = <<>>
  /\ lifecycles = {} /\ started = <<>>
  /\ failed = [m \in Mails |-> 0]
  /\ deaths = 0

Can(failure) == failure \in Failing

inVars == <<delivered, inbox, broker>>
placeVars == <<clock, places>>
runVars == <<lifecycles, started>>

Goto(w, at) == work' = [work EXCEPT ![w] = [@ EXCEPT !.at = at, !.try = 1]]
End(w, at) == work' = [work EXCEPT ![w] = Begun(@.mail, at)]
Fails(w) == End(w, "failed")

-----------------------------------------------------------------------------
(* The webhook and the queue of each mail.                                 *)

\* The task goes to Celery when the item is the head; a publication that fails
\* leaves the item where it is.
Published(m, length) ==
  {broker \cup {m} : k \in {1} \cap {length}} \cup {b \in {broker} : length > 1 \/ Can("publish")}

\* POST /email with a heavy mail: admit.
Deliver(m) ==
  /\ delivered[m] < MaxDeliveries[m]
  /\ Heavy(m)
  /\ delivered' = [delivered EXCEPT ![m] = @ + 1]
  /\ inbox' = [inbox EXCEPT ![m] = @ + 1]
  /\ broker' \in Published(m, inbox'[m])
  /\ UNCHANGED <<work, placeVars, imports, tenders, runVars, failed, deaths>>

\* Faulty variant, used as a mutant.
OrdersFirst(m) == IF OrdersBook(m) # Unset THEN "seek" ELSE "fetchPlaces"

\* process: the locations come first, so that the orders find them.
First(m) == IF PlacesBook(m) # Unset THEN "fetchPlaces" ELSE "seek"

\* run_email_webhook starts; the task is acknowledged as it is taken.
Take(w, m) ==
  /\ work[w].at = "idle" /\ m \in broker
  /\ broker' = broker \ {m}
  /\ work' = [work EXCEPT ![w] = Begun(m, First(m))]
  /\ UNCHANGED <<delivered, inbox, placeVars, imports, tenders, runVars, failed, deaths>>

\* Faulty variant, used as a mutant.
FailSilent(w) ==
  /\ work[w].at = "failed"
  /\ UNCHANGED failed
  /\ End(w, "complete")
  /\ UNCHANGED <<inVars, placeVars, imports, tenders, runVars, deaths>>

\* The handler has raised: the item goes to failed:email_ingress.
Fail(w) ==
  /\ work[w].at = "failed"
  /\ failed' = [failed EXCEPT ![work[w].mail] = @ + 1]
  /\ End(w, "complete")
  /\ UNCHANGED <<inVars, placeVars, imports, tenders, runVars, deaths>>

\* complete_and_start_next, whatever became of the item.
Complete(w) ==
  LET m == work[w].mail IN
  /\ work[w].at = "complete"
  /\ inbox' = [inbox EXCEPT ![m] = @ - 1]
  /\ broker' \in IF inbox'[m] = 0 THEN {broker} ELSE Published(m, 1)
  /\ work' = [work EXCEPT ![w] = Idle]
  /\ UNCHANGED <<delivered, placeVars, imports, tenders, runVars, failed, deaths>>

\* The worker dies: the item stays at the head, without a task.
Die(w) ==
  /\ work[w].at # "idle" /\ deaths < MaxDeaths
  /\ deaths' = deaths + 1
  /\ work' = [work EXCEPT ![w] = Idle]
  /\ UNCHANGED <<inVars, placeVars, imports, tenders, runVars, failed>>

-----------------------------------------------------------------------------
(* Fetching and recording a workbook.                                      *)

\* fetch_email_attachment_bytes_with_retry: only transient errors are retried.
Retry(w) ==
  /\ Can("transient") /\ work[w].try < FetchAttempts
  /\ work' = [work EXCEPT ![w].try = @ + 1]

GivesUp(w) == Can("fetch") \/ (Can("transient") /\ work[w].try = FetchAttempts)

\* ingest_data refuses what is too large or no workbook at all.
Storable == {TRUE} \cup {b \in {FALSE} : Can("refuse")}

\* _fetch_and_record_excel_attachment up to the record.
Fetched(w, next) ==
  \/ Retry(w)
  \/ GivesUp(w) /\ Fails(w)
  \/ \E storable \in Storable : IF storable THEN Goto(w, next) ELSE Fails(w)

\* The workbook of locations is fetched anew with every delivery.
FetchPlaces(w) ==
  /\ work[w].at = "fetchPlaces"
  /\ IF Mail[work[w].mail].account THEN Fetched(w, "findPlaces")
     ELSE Fails(w)
  /\ UNCHANGED <<inVars, placeVars, imports, tenders, runVars, failed, deaths>>

\* find_id_by_tenant_data_type_and_file_name, by updated_at; 0 if there is none.
NewestPlaces ==
  IF places = <<>> THEN 0
  ELSE CHOOSE p \in DOMAIN places : \A q \in DOMAIN places : places[q].since <= places[p].since

\* record_email_delivery_locations_import up to the write, in one transaction.
FindPlaces(w) ==
  /\ work[w].at = "findPlaces"
  /\ clock' = clock + 1
  /\ work' = [work EXCEPT ![w] = [@ EXCEPT !.at = "writePlaces", !.since = clock',
                                             !.found = NewestPlaces]]
  /\ UNCHANGED <<inVars, places, imports, tenders, runVars, failed, deaths>>

InsertImport(rows, new) == Append(rows, new)
UpdateRawData(rows, id, new) == [rows EXCEPT ![id] = new]

\* The row of before or a new one; NOW() is when the transaction began.
PlacesWritten(w) ==
  LET new == [mail |-> work[w].mail, since |-> work[w].since, done |-> clock + 1] IN
  IF work[w].found = 0 THEN InsertImport(places, new)
  ELSE UpdateRawData(places, work[w].found, new)

AfterPlaces(m) == IF OrdersBook(m) = Unset THEN "complete" ELSE "seek"

WritePlaces(w) ==
  /\ work[w].at = "writePlaces"
  /\ \/ /\ clock' = clock + 1
        /\ places' = PlacesWritten(w)
        /\ work' = [work EXCEPT ![w] = [@ EXCEPT !.at = AfterPlaces(work[w].mail), !.found = 0]]
     \/ Can("insert") /\ Fails(w) /\ UNCHANGED placeVars
  /\ UNCHANGED <<inVars, imports, tenders, runVars, failed, deaths>>

\* find_id_by_email_attachment_source: the latest import of the attachment.
ImportsOf(m) == {i \in DOMAIN imports : imports[i] = m}
LatestImport(m) == CHOOSE i \in ImportsOf(m) : \A j \in ImportsOf(m) : j <= i

\* Faulty variant, used as a mutant.
SeekNothing(w) ==
  /\ work[w].at = "seek"
  /\ IF Mail[work[w].mail].account THEN Goto(w, "fetch") ELSE Fails(w)
  /\ UNCHANGED <<inVars, placeVars, imports, tenders, runVars, failed, deaths>>

\* process_email_webhook_attachment_import_for_attachment up to the fetch.
Seek(w) ==
  LET m == work[w].mail IN
  /\ work[w].at = "seek"
  /\ IF ~Mail[m].account THEN Fails(w)
     ELSE IF ImportsOf(m) = {} THEN Goto(w, "fetch")
     ELSE work' = [work EXCEPT ![w] = [@ EXCEPT !.at = "project", !.import = LatestImport(m)]]
  /\ UNCHANGED <<inVars, placeVars, imports, tenders, runVars, failed, deaths>>

Fetch(w) ==
  /\ work[w].at = "fetch"
  /\ Fetched(w, "record")
  /\ UNCHANGED <<inVars, placeVars, imports, tenders, runVars, failed, deaths>>

\* record_email_load_tendering_import.
Record(w) ==
  /\ work[w].at = "record"
  /\ \/ /\ imports' = InsertImport(imports, work[w].mail)
        /\ work' = [work EXCEPT ![w] = [@ EXCEPT !.at = "project", !.try = 1,
                                                   !.import = Len(imports')]]
     \/ Can("insert") /\ Fails(w) /\ UNCHANGED imports
  /\ UNCHANGED <<inVars, placeVars, tenders, runVars, failed, deaths>>

-----------------------------------------------------------------------------
(* Rows, tenders and runs.                                                 *)

\* load_email_data_import_projection: rows that cannot be read are no rows, and
\* with no rows persist_from_projected_rows has nothing to do.
Project(w) ==
  /\ work[w].at = "project"
  /\ \/ IF ProjectedRows[work[w].mail] = <<>> THEN End(w, "complete") ELSE Goto(w, "index")
     \/ Can("read") /\ End(w, "complete")
  /\ UNCHANGED <<inVars, placeVars, imports, tenders, runVars, failed, deaths>>

\* load_delivery_location_rows_from_data_import: the mail whose locations are
\* on record; locations that cannot be read are as good as none.
LoadedPlaces ==
  {IF places = <<>> THEN NoPlaces ELSE places[NewestPlaces].mail}
    \cup {p \in {NoPlaces} : Can("places")}

\* index_for_ingest_run.
Index(w) ==
  /\ work[w].at = "index"
  /\ \E from \in LoadedPlaces :
       work' = [work EXCEPT ![w] = [@ EXCEPT !.at = "persist", !.from = from, !.since = 0]]
  /\ UNCHANGED <<inVars, placeVars, imports, tenders, runVars, failed, deaths>>

\* persist_from_projected_rows: tenders and lines go in together; a failure is
\* logged by persist_tender_rows_from_email_import_projection and leaves none.
Persist(w) ==
  LET rows == ProjectedRows[work[w].mail]
      batch == Inserted(rows, work[w].from, work[w].import)
  IN
  /\ work[w].at = "persist"
  /\ \/ /\ tenders' = tenders \o batch
        /\ started' = started \o [k \in DOMAIN batch |-> 0]
        /\ work' = [work EXCEPT ![w] = [@ EXCEPT !.at = "start", !.from = NoPlaces,
                                                   !.ids = TenderIds(rows, Len(tenders))]]
     \/ Can("persist") /\ End(w, "complete") /\ UNCHANGED <<tenders, started>>
  /\ UNCHANGED <<inVars, placeVars, imports, lifecycles, failed, deaths>>

\* The rows still to start: of the rows of one tender only the first.
RowsToStart(w) ==
  {i \in DOMAIN work[w].ids :
    /\ i > work[w].row /\ work[w].ids[i] # 0
    /\ \A j \in 1..(i - 1) : work[w].ids[j] # work[w].ids[i]}

\* The next row of process_tender_created_from_email_webhook, up to
\* resolve_or_create_lifecycle.
Start(w) ==
  LET row == CHOOSE i \in RowsToStart(w) : \A j \in RowsToStart(w) : i <= j IN
  /\ work[w].at = "start"
  /\ IF RowsToStart(w) = {} THEN End(w, "complete") /\ UNCHANGED lifecycles
     ELSE \/ /\ lifecycles' = lifecycles \cup {work[w].ids[row]}
             /\ work' = [work EXCEPT ![w] = [@ EXCEPT !.at = "queue", !.row = row]]
          \/ Can("resolve") /\ Fails(w) /\ UNCHANGED lifecycles
  /\ UNCHANGED <<inVars, placeVars, imports, tenders, started, failed, deaths>>

\* LifecycleRunSerializerService.enqueue.
Queue(w) ==
  /\ work[w].at = "queue"
  /\ \/ /\ started' = [started EXCEPT ![work[w].ids[work[w].row]] = @ + 1]
        /\ Goto(w, "start")
     \/ Can("enqueue") /\ Fails(w) /\ UNCHANGED started
  /\ UNCHANGED <<inVars, placeVars, imports, tenders, lifecycles, failed, deaths>>

-----------------------------------------------------------------------------

Ingest(w) ==
  \/ FetchPlaces(w) \/ FindPlaces(w) \/ WritePlaces(w)
  \/ Seek(w) \/ Fetch(w) \/ Record(w)
  \/ Project(w) \/ Index(w) \/ Persist(w) \/ Start(w) \/ Queue(w)

Attempt(w) == Ingest(w) \/ Fail(w) \/ Complete(w) \/ Die(w)

Next ==
  \/ \E m \in Mails : Deliver(m)
  \/ \E w \in Workers : \E m \in Mails : Take(w, m)
  \/ \E w \in Workers : Attempt(w)

Spec == Init /\ [][Next]_vars

-----------------------------------------------------------------------------
(* Properties.                                                             *)

\* Nobody works on the mail's item and nobody will.
Stuck(m) == inbox[m] > 0 /\ m \notin broker /\ \A w \in Workers : work[w].mail # m

\* The worker is still to start the run of the tender, or to report that it
\* could not.
Underway(w, t) ==
  \/ work[w].at = "failed" /\ work[w].mail = imports[tenders[t].import]
  \/ work[w].at \in {"start", "queue"} /\ \E i \in RowsToStart(w) : work[w].ids[i] = t
  \/ work[w].at = "queue" /\ work[w].ids[work[w].row] = t

(* A tender with no run is one whose mail is still being worked on, is on    *)
(* failed:email_ingress, or hangs at the head of its queue after its worker  *)
(* died: the loop of process_tender_created_from_email_webhook and the except *)
(* of run_email_webhook leave no other tender without a run.                 *)
StrandedAccounted ==
  \A t \in DOMAIN tenders : started[t] = 0 =>
    LET m == imports[tenders[t].import] IN
    failed[m] > 0 \/ Stuck(m) \/ \E w \in Workers : Underway(w, t)

(* However many lines, deliveries and workers there are, a tender gets one   *)
(* run at most, and none without a lifecycle (enqueued_tender_ids, and the   *)
(* lifecycle resolved before the run is queued).                             *)
StartedOnce ==
  \A t \in DOMAIN tenders : started[t] <= 1 /\ (started[t] = 1 => t \in lifecycles)

(* A workbook of orders is recorded once, however often the mail is          *)
(* delivered: the look-up by mail and attachment is safe without an index    *)
(* because the queue of the mail never lets two workers at it.               *)
ImportedOnce == IsInjective(imports)

(* Both, of a well-typed state: a mail that comes twice is imported and its  *)
(* tenders are started once.                                                 *)
ImportInv == TypeOK /\ StartedOnce /\ ImportedOnce

\* The first row of each position of an order.
PositionsOf(rows, order) ==
  LET at(i) == <<Identifier(rows[i].order), ParsePosition(rows[i].position)>> IN
  {i \in DOMAIN rows :
    /\ at(i)[1] = order /\ at(i)[2] # ""
    /\ ~\E j \in 1..(i - 1) : at(j) = at(i)}

\* By mail and order, the keys of the lines that the sheet completes.
Wanted ==
  [m \in DOMAIN ProjectedRows |->
    LET rows == ProjectedRows[m]
        keys(order) == {LineKey(ProductOf(rows[i])) :
                          i \in {i \in PositionsOf(rows, order) : HasProduct(rows[i])}}
        orders == {Identifier(rows[i].order) : i \in DOMAIN rows} \ {""}
    IN [order \in {o \in orders : keys(o) # {}} |-> keys(order)]]

(* A tender has, for every position of its order that the sheet completes, a *)
(* line with the product, quantity and pack of the position, has no line     *)
(* beyond those and none twice, and is never without one                     *)
(* (persist_from_projected_rows).                                            *)
PositionsCovered ==
  \A t \in DOMAIN tenders :
    LET lines == tenders[t].lines
        wanted == Wanted[imports[tenders[t].import]]
    IN /\ tenders[t].order \in DOMAIN wanted
       /\ {LineKey(l) : l \in lines} = wanted[tenders[t].order]
       /\ Cardinality(lines) = Cardinality(wanted[tenders[t].order])

(* The tenders that one attempt inserts are of different orders              *)
(* (seen_order_numbers), and every order that the sheet completes has one.   *)
OneTenderPerOrder ==
  [][LET new == DOMAIN tenders' \ DOMAIN tenders
         orders == {tenders'[t].order : t \in new}
     IN new # {} =>
          /\ Cardinality(orders) = Cardinality(new)
          /\ orders = DOMAIN Wanted[imports[tenders'[Len(tenders')].import]]]_vars

(* A mail that brings locations with its orders resolves the customers only  *)
(* once its own, or some written over them, are on record                    *)
(* (GelitaEmailIngressService.process), and not with any complete before it  *)
(* began to record its own.  The latter takes one row of locations, or two   *)
(* workers: when two runs have both inserted the first row, a third that is  *)
(* late can leave the older row the newer one by its updated_at.             *)
OwnLocations ==
  [][\A w \in Workers :
       /\ work[w].at = "index" /\ PlacesBook(work[w].mail) # Unset
       /\ work'[w].from # NoPlaces
       => /\ work[w].since > 0 /\ \E p \in DOMAIN places : places[p].done > work[w].since
          /\ Len(places) = 1 \/ Cardinality(Workers) <= 2 =>
               places[NewestPlaces].done > work[w].since]_vars

=============================================================================
