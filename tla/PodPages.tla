------------------------------- MODULE PodPages -------------------------------
(***************************************************************************)
(* What becomes of the pages of a POD packet: its attachments are judged,  *)
(* staged and merged, the merged PDF is read by the LLM and trimmed, what  *)
(* is left is stored, and what was read is scored against the shipment in  *)
(* Turvo.  Rescoring tasks work beside the run, on what is stored.         *)
(* PodLifecycle has the lifecycle around it.                               *)
(*                                                                         *)
(* Left out: remarks, exceptions (damage, pallets), the stop times shown   *)
(* beside the score, and the OCR trim that nothing calls.                  *)
(***************************************************************************)
EXTENDS Integers, FiniteSets, SequencesExt

CONSTANTS Pages,       \* the pages a packet may have
          Content,     \* what is printed on each
          Attachments, \* the files a packet may have
          Shipments,   \* what Turvo may say of the shipment
          Failing,     \* the operations that may fail
          MaxFiles, MaxPackets, MaxRescores,
          MaxPages     \* POD_PDF_MAX_PAGES

ASSUME BoundsAssumption ==
  {MaxFiles, MaxPackets, MaxRescores, MaxPages} \subseteq Nat
ASSUME FailingAssumption ==
  Failing \subseteq {"fetch", "download", "classify", "refuse", "stage", "merge", "llm",
                     "numbers", "persist", "trim", "s3", "turvo", "die"}

Unset == "Unset"
Types == {"pickup", "delivery"}

\* location_blocks carry a printed label; fields are the layout of stored
\* packets.  A text is the set of its tokens of three letters or more.
ContentAssumptionOf(c) ==
  /\ DOMAIN c = {"type", "numbers", "blocks", "fields", "times", "proof"}
  /\ c.type \in {"RATE_CONFIRMATION", "POD"}
  /\ \A i \in DOMAIN c.blocks : c.blocks[i].label \in Types \cup {Unset}
  /\ DOMAIN c.fields = Types /\ DOMAIN c.times = Types

ASSUME ContentAssumption == \A page \in Pages : ContentAssumptionOf(Content[page])
ASSUME AttachmentsAssumption ==
  \A file \in Attachments : file.kind \in {"pdf", "image", "other"} /\ file.pages \in Seq(Pages)

VARIABLES shipment,   \* the shipment in Turvo
          packets,    \* how many packets were received
          received,   \* the pages in them
          run,        \* the run over the packet at hand, Idle if there is none
          rescoring,  \* the rescoring task, Resting if there is none
          asked,      \* rescoring tasks asked for
          object,     \* the pages of the POD's object in S3, none before the first upload
          document,   \* a documents row names it
          extraction, \* the pod_extraction row: what was read last, none if it is not there
          score       \* the pod_vs_tms_analysis row

vars == <<shipment, packets, received, run, rescoring, asked, object, document, extraction, score>>

Idle == [at |-> "idle", files |-> <<>>, staged |-> <<>>, merged |-> <<>>, read |-> <<>>,
         kept |-> FALSE, trimmed |-> <<>>]

Resting == [at |-> "idle", existing |-> FALSE, pages |-> <<>>, read |-> <<>>]

NoScore == [final |-> -1, signature |-> 0, pickup |-> 0, delivery |-> 0, detail |-> 0]

Entries == [number : 0..MaxPages, page : Pages]

TypeOK ==
  /\ shipment \in Shipments
  /\ packets \in 0..MaxPackets /\ received \subseteq Pages
  /\ run.at \in {"idle", "assess", "stage", "merge", "analyse", "trim", "store", "score"}
  /\ {run.files, run.staged} \subseteq Seq(Attachments)
  /\ {run.merged, run.trimmed, rescoring.pages, object} \subseteq Seq(Pages)
  /\ {run.read, rescoring.read, extraction} \subseteq Seq(Entries)
  /\ rescoring.at \in {"idle", "start", "read", "score"}
  /\ asked \in 0..MaxRescores
  /\ {run.kept, rescoring.existing, document} \subseteq BOOLEAN
  /\ score = NoScore \/ (score.final \in 0..100 /\ score.detail \in 0..40)

Init ==
  /\ shipment \in Shipments
  /\ packets = 0 /\ received = {}
  /\ run = Idle /\ rescoring = Resting
  /\ asked = 0
  /\ object = <<>> /\ document = FALSE
  /\ extraction = <<>> /\ score = NoScore

rows == <<extraction, score>>
stored == <<object, document>>
tasks == <<rescoring, asked>>
mail == <<packets, received>>

Can(failure) == failure \in Failing

\* {value} if the operation may fail that way.
Maybe(failure, value) == IF Can(failure) THEN {value} ELSE {}

-----------------------------------------------------------------------------
(* Turvo's side: the stops of each type, and the purchase orders on them.  *)

\* _turvo_stop_from_global_route, for the active stops of one type.
StopsOf(type) == SelectSeq(shipment.stops, LAMBDA stop : stop.type = type)

\* _EMPTY_STOP stands in for a stop that is not there.
EmptyStop == [id |-> Unset, name |-> {}, address |-> {}]

FirstStop(type) == IF StopsOf(type) = <<>> THEN EmptyStop ELSE Head(StopsOf(type))

PoNumbers(stop) ==
  [i \in DOMAIN stop.pos |-> [number |-> stop.pos[i], type |-> stop.type, stop |-> stop.id]]

\* extract_pod_inputs_from_shipment: one per stop and number, pickups first.
PurchaseOrders ==
  LET of(type) == FlattenSeq([i \in DOMAIN StopsOf(type) |-> PoNumbers(StopsOf(type)[i])])
  IN of("pickup") \o of("delivery")

StopById(id) ==
  LET found == SelectSeq(StopsOf("pickup") \o StopsOf("delivery"), LAMBDA stop : stop.id = id)
  IN IF found = <<>> THEN EmptyStop ELSE Head(found)

-----------------------------------------------------------------------------
(* Evidence: which page confirms which stop.                               *)

HasEvidence(block) == block.name \cup block.address # {}

StoredPacketStopEvidence(content) ==
  SelectSeq(<<content.fields["pickup"], content.fields["delivery"]>>, HasEvidence)

LocationBlocks(content) ==
  IF content.blocks # <<>> THEN content.blocks ELSE StoredPacketStopEvidence(content)

TextMatches(observed, expected) == observed \cap expected # {}

EvidenceMatchesStop(block, id) ==
  LET stop == StopById(id) IN
  TextMatches(block.name, stop.name) \/ TextMatches(block.address, stop.address)

\* _stop_evidence: some block of the page belongs to the stop.
StopEvidence(content, id) ==
  \E i \in DOMAIN LocationBlocks(content) : EvidenceMatchesStop(LocationBlocks(content)[i], id)

\* Faulty variant, used as a mutant.
OrderAnywhere(order, read) ==
  \E i \in DOMAIN read : order.number \in Content[read[i].page].numbers

\* A page names the order and shows the stop that the order is for.
Confirmed(order, read) ==
  \E i \in DOMAIN read :
    /\ order.number \in Content[read[i].page].numbers
    /\ StopEvidence(Content[read[i].page], order.stop)

\* po_matches is keyed by number, so the last stop with that number stands.
PoMatches(read) ==
  [number \in {PurchaseOrders[i].number : i \in DOMAIN PurchaseOrders} |->
     Confirmed(Last(SelectSeq(PurchaseOrders, LAMBDA order : order.number = number)), read)]

DeliveryProof(read) == UNION {Content[read[i].page].proof : i \in DOMAIN read}

FirstOf(values, none) ==
  LET given == SelectSeq(values, LAMBDA value : value # none)
  IN IF given = <<>> THEN none ELSE Head(given)

\* The first time any page gives, of that type of stop.
FirstStopTime(read, type) ==
  FirstOf([i \in DOMAIN read |-> Content[read[i].page].times[type]], Unset)

\* What the labelled blocks say, page by page.
LabelledTexts(read, type, part) ==
  LET texts(content) ==
        LET own == SelectSeq(content.blocks, LAMBDA block : block.label = type)
        IN [i \in DOMAIN own |-> own[i][part]]
  IN FlattenSeq([i \in DOMAIN read |-> texts(Content[read[i].page])])

\* And what the fields say.
FieldTexts(read, type, part) ==
  [i \in DOMAIN read |-> Content[read[i].page].fields[type][part]]

\* _pickup_delivery_values: labelled blocks of every page go first.
PlaceText(read, type, part) ==
  FirstOf(LabelledTexts(read, type, part) \o FieldTexts(read, type, part), {})

-----------------------------------------------------------------------------
(* The score.                                                              *)

\* Python's round: a half goes to the even neighbour.
Rounded(n, d) ==
  LET q == n \div d
      r == n % d
  IN IF 2 * r > d \/ (2 * r = d /\ q % 2 = 1) THEN q + 1 ELSE q

\* derive_pod_scoring_observations, with what the stops add to it.
Observations(read) ==
  [proof |-> DeliveryProof(read),
   matches |-> PoMatches(read),
   times |-> [type \in Types |-> FirstStopTime(read, type)],
   places |-> [type \in Types |->
                 [part \in {"name", "address"} |-> PlaceText(read, type, part)]]]

SignatureField(seen) == IF seen.proof # {} THEN 60 ELSE 0

PoStopMatch(number, seen) == seen.matches[number]

ReferenceIdField(type, seen) ==
  LET orders == SelectSeq(PurchaseOrders, LAMBDA order : order.type = type)
      matched == SelectSeq(orders, LAMBDA order : PoStopMatch(order.number, seen))
  IN IF orders = <<>> THEN 0 ELSE Rounded(20 * Len(matched), Len(orders))

DateField(target, source) == IF target # Unset /\ target = source THEN 10 ELSE 0

IdentifiableTextField(target, source) ==
  IF source # {} /\ (target = {} \/ TextMatches(source, target)) THEN 5 ELSE 0

ShipmentDetailFields(type, seen) ==
  <<DateField(shipment.dates[type], seen.times[type]),
    IdentifiableTextField(FirstStop(type).name, seen.places[type].name),
    IdentifiableTextField(FirstStop(type).address, seen.places[type].address)>>

ShipmentDetail(seen) ==
  FoldLeft(+, 0, ShipmentDetailFields("pickup", seen) \o ShipmentDetailFields("delivery", seen))

\* The details fill what the reference numbers leave of the 40 points.
DetailContribution(raw, references) == Rounded(raw * (40 - references), 40)

ScorePod(seen) ==
  LET pickup == ReferenceIdField("pickup", seen)
      delivery == ReferenceIdField("delivery", seen)
      detail == DetailContribution(ShipmentDetail(seen), pickup + delivery)
      total == SignatureField(seen) + pickup + delivery + detail
  IN IF PurchaseOrders = <<>> THEN [NoScore EXCEPT !.final = 0]
     ELSE [final |-> IF total > 100 THEN 100 ELSE total, signature |-> SignatureField(seen),
           pickup |-> pickup, delivery |-> delivery, detail |-> detail]

-----------------------------------------------------------------------------
(* The packet: judged, staged, merged.                                     *)

Goto(next) == run' = [run EXCEPT !.at = next]

\* The run stops, or the packet is turned down before there is one.
End == run' = Idle

\* By mail or by hand, from the portal.
PacketComes ==
  /\ run = Idle
  /\ packets < MaxPackets
  /\ packets' = packets + 1
  /\ \E files \in BoundedSeq(Attachments, MaxFiles) :
       /\ files # <<>>
       /\ received' = received \cup UNION {ToSet(file.pages) : file \in ToSet(files)}
       /\ run' = [Idle EXCEPT !.at = "assess", !.files = files]
  /\ UNCHANGED <<shipment, tasks, stored, rows>>

Images(files) == SelectSeq(files, LAMBDA file : file.kind = "image")
Pdfs(files) == SelectSeq(files, LAMBDA file : file.kind = "pdf")

\* An image may be too small or corrupt, or not be converted.
PrefilterImage(file) == {TRUE} \cup Maybe("refuse", FALSE)

\* _accept_image of what the classifier says.
AcceptImage(file) == {TRUE} \cup Maybe("refuse", FALSE)

\* An object of the portal's may not be there.
Download(file) == {TRUE} \cup Maybe("download", FALSE)

\* Which verdicts a file may get; a PDF is never looked into.
Verdicts(file) ==
  CASE file.kind = "pdf" -> Download(file)
    [] file.kind = "image" ->
         {d /\ p /\ a : d \in Download(file), p \in PrefilterImage(file), a \in AcceptImage(file)}
    [] OTHER -> {FALSE}

\* What may be left of several files: PDFs first, then images, in mail order.
Accepted(files) ==
  {LET taken == SelectSeq([i \in DOMAIN files |-> <<i, files[i]>>], LAMBDA f : verdict[f[1]])
       left == [i \in DOMAIN taken |-> taken[i][2]]
   IN Pdfs(left) \o Images(left) :
     verdict \in {v \in [DOMAIN files -> BOOLEAN] :
                    \A i \in DOMAIN files : v[i] \in Verdicts(files[i])}}

\* classify_images_batch: one failure of the LLM fails the packet.
ClassifierFails(files) == Can("classify") /\ Images(files) # <<>>

AssessSeveral ==
  /\ run.at = "assess" /\ Len(run.files) > 1
  /\ \/ \E left \in Accepted(run.files) \ {<<>>} :
          run' = [Idle EXCEPT !.at = "stage", !.staged = left]
     \/ /\ \/ <<>> \in Accepted(run.files)
           \/ ClassifierFails(run.files)
           \/ Can("fetch")
        /\ End
  /\ UNCHANGED <<shipment, mail, tasks, stored, rows>>

\* _normalize_single_attachment_async.
AssessSingle ==
  /\ run.at = "assess" /\ Len(run.files) = 1
  /\ LET file == run.files[1] IN
     \/ /\ TRUE \in Verdicts(file)
        /\ run' = [Idle EXCEPT !.at = "stage", !.staged = run.files]
     \/ /\ \/ FALSE \in Verdicts(file)
           \/ ClassifierFails(run.files)
           \/ Can("fetch")
        /\ End
  /\ UNCHANGED <<shipment, mail, tasks, stored, rows>>

\* _stage_accepted_files: a file that cannot be written is left out.
Staged(files) ==
  IF Can("stage") THEN {SelectSeq(files, LAMBDA f : f \in some) : some \in SUBSET ToSet(files)}
  ELSE {files}

\* _assess_patch: nothing staged turns the packet down.
Stage ==
  /\ run.at = "stage"
  /\ \E files \in Staged(run.staged) :
       IF files = <<>> THEN End ELSE run' = [run EXCEPT !.at = "merge", !.staged = files]
  /\ UNCHANGED <<shipment, mail, tasks, stored, rows>>

MergeAttachments(files) == FlattenSeq([i \in DOMAIN files |-> files[i].pages])

\* merge_staged_local: one file that cannot be read fails them all.
Merge ==
  /\ run.at = "merge"
  /\ \/ run' = [Idle EXCEPT !.at = "analyse", !.merged = MergeAttachments(run.staged)]
     \/ Can("merge") /\ End
  /\ UNCHANGED <<shipment, mail, tasks, stored, rows>>

-----------------------------------------------------------------------------
(* Reading and trimming.                                                   *)

\* build_page_results: a page entry without a number gets 0.
PageResults(pages) ==
  LET numbered == [i \in DOMAIN pages |-> [number |-> i, page |-> pages[i]]]
  IN {numbered} \cup Maybe("numbers", [numbered EXCEPT ![1].number = 0])
                \cup Maybe("numbers", Front(numbered))

\* extract_from_pdf_path: what the LLM may make of the pages; {} or <<>> if
\* the PDF is too large, the call fails or it returns no page.
Extracted(pages) ==
  IF Len(pages) > MaxPages THEN {<<>>}
  ELSE PageResults(pages) \cup Maybe("llm", <<>>)

\* upsert_document_analysis: what comes of a row.
Upserted(old, new) == {new} \cup Maybe("persist", old)

\* The node: no pages end the run; the row may not be written.
Analyse ==
  /\ run.at = "analyse"
  /\ \E read \in Extracted(run.merged) :
       IF read = <<>> THEN End /\ UNCHANGED extraction
       ELSE \E kept \in {TRUE} \cup Maybe("persist", FALSE) :
              /\ extraction' = IF kept THEN read ELSE extraction
              /\ run' = [run EXCEPT !.at = "trim", !.read = read, !.kept = kept]
  /\ UNCHANGED <<shipment, mail, tasks, stored, score>>

IsRatecon(entry) == Content[entry.page].type = "RATE_CONFIRMATION"

PagesUnusable(read) == \E i \in DOMAIN read : read[i].number = 0

CollectRateconPageNumbers(read) == {e.number : e \in {e \in ToSet(read) : IsRatecon(e)}}

\* Faulty variant, used as a mutant.
RebuiltAscending(pages, excluded) ==
  FoldLeft(LAMBDA left, number : IF number \in DOMAIN left THEN RemoveAt(left, number) ELSE left,
           pages, SetToSortSeq(excluded, LAMBDA a, b : a < b))

\* rebuild_without_pages: from the last to the first, those that are there.
RebuildWithoutPages(pages, excluded) ==
  FoldLeft(LAMBDA left, number : IF number \in DOMAIN left THEN RemoveAt(left, number) ELSE left,
           pages, SetToSortSeq(excluded, LAMBDA a, b : a > b))

\* trim_local_pdf; a packet of nothing but rate confirmations ends here.
Trim ==
  /\ run.at = "trim"
  /\ LET left == RebuildWithoutPages(run.merged, CollectRateconPageNumbers(run.read)) IN
     IF PagesUnusable(run.read) \/ left = <<>> THEN End
     ELSE \/ run' = [run EXCEPT !.at = "store", !.trimmed = left]
          \/ Can("trim") /\ End
  /\ UNCHANGED <<shipment, mail, tasks, stored, rows>>

\* upload_local_pdf to the shipment's one key, then the documents row, whose
\* loss goes unnoticed.
Store ==
  /\ run.at = "store"
  /\ \/ /\ object' = run.trimmed
        /\ document' \in {TRUE} \cup Maybe("persist", document)
        /\ Goto("score")
     \/ Can("s3") /\ End /\ UNCHANGED stored
  /\ UNCHANGED <<shipment, mail, tasks, rows>>

\* The pod_scoring node: all the pages that were read, the trimmed ones too.
Score ==
  /\ run.at = "score"
  /\ score' \in IF run.kept THEN Upserted(score, ScorePod(Observations(run.read))) ELSE {score}
  /\ End
  /\ UNCHANGED <<shipment, mail, tasks, stored, extraction>>

\* The worker is lost, and its stage directory with it.
WorkerDies ==
  /\ Can("die") /\ run # Idle
  /\ End
  /\ UNCHANGED <<shipment, mail, tasks, stored, rows>>

-----------------------------------------------------------------------------
(* Rescoring: a Celery task of its own, beside the run.                    *)

\* _enqueue_one, for a shipment that has a POD on file.
AskRescore ==
  /\ rescoring = Resting /\ asked < MaxRescores
  /\ document
  /\ asked' = asked + 1
  /\ \E existing \in BOOLEAN :
       rescoring' = [Resting EXCEPT !.at = "start", !.existing = existing]
  /\ UNCHANGED <<shipment, mail, run, stored, rows>>

\* _resolve_pages: the row there is, or the object in S3.
ResolvePages ==
  IF rescoring.existing /\ extraction # <<>>
    THEN [rescoring EXCEPT !.at = "score", !.read = extraction]
    ELSE [rescoring EXCEPT !.at = "read", !.pages = object]

\* process_one up to the score.
StartRescore ==
  /\ rescoring.at = "start"
  /\ \/ rescoring' = ResolvePages
     \/ (Can("turvo") \/ Can("s3")) /\ rescoring' = Resting
  /\ UNCHANGED <<shipment, mail, run, asked, stored, rows>>

\* _reanalyze_from_s3: a row that is not written is only logged.
Reanalyse ==
  /\ rescoring.at = "read"
  /\ \E read \in Extracted(rescoring.pages) :
       IF read = <<>> THEN rescoring' = Resting /\ UNCHANGED extraction
       ELSE /\ extraction' \in Upserted(extraction, read)
            /\ rescoring' = [rescoring EXCEPT !.at = "score", !.read = read]
  /\ UNCHANGED <<shipment, mail, run, asked, stored, score>>

\* The rest of process_one.
Rescore ==
  /\ rescoring.at = "score"
  /\ score' \in Upserted(score, ScorePod(Observations(rescoring.read)))
  /\ rescoring' = Resting
  /\ UNCHANGED <<shipment, mail, run, asked, stored, extraction>>

-----------------------------------------------------------------------------

Packet == PacketComes \/ AssessSeveral \/ AssessSingle \/ Stage \/ Merge
Reading == Analyse \/ Trim \/ Store \/ Score \/ WorkerDies
Rescoring == AskRescore \/ StartRescore \/ Reanalyse \/ Rescore

Next == Packet \/ Reading \/ Rescoring

Spec == Init /\ [][Next]_vars

-----------------------------------------------------------------------------

(* What the carrier's packet shows of the delivery is what is stored: the  *)
(* PDF uploaded to S3 has every page that was merged but those whose       *)
(* number the LLM labelled a rate confirmation, in the order they came     *)
(* (trim_local_pdf and rebuild_without_pages, between the reading and the  *)
(* upload).                                                                *)
StoredWithoutRatecons ==
  run.at = "score" =>
    object = LET keep == SelectSeq([i \in DOMAIN run.merged |-> i],
                                   LAMBDA i : ~\E e \in ToSet(run.read) :
                                                  e.number = i /\ IsRatecon(e))
             IN [i \in DOMAIN keep |-> run.merged[keep[i]]]

(* However packets, failed writes and rescoring tasks meet, the points of  *)
(* the stored score have their evidence in a packet that was received:     *)
(* proof of receipt for the signature, and for the reference numbers a     *)
(* page that names an order and shows a stop that has it (score_pod over   *)
(* build_stop_aware_observations).                                         *)
PointsHaveEvidence ==
  /\ score.signature > 0 => \E page \in received : Content[page].proof # {}
  /\ score.pickup + score.delivery > 0 =>
       \E page \in received, i \in DOMAIN PurchaseOrders :
         /\ PurchaseOrders[i].number \in Content[page].numbers
         /\ StopEvidence(Content[page], PurchaseOrders[i].stop)

(* The 90 points at which a POD passes are out of reach without proof of   *)
(* receipt and without orders in Turvo, and the two buckets never overflow *)
(* (_VALIDATION_BUCKET_MAX and the proration in score_pod).                *)
PassMeansReceipt ==
  /\ score.final >= 90 => score.signature = 60 /\ PurchaseOrders # <<>>
  /\ score.pickup + score.delivery + score.detail <= 40

(* Both, of a well-typed state (score_pod).                                *)
ScoreInv == TypeOK /\ PointsHaveEvidence /\ PassMeansReceipt
=============================================================================
