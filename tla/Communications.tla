---------------------------- MODULE Communications ----------------------------
(***************************************************************************)
(* CommunicationsService: the rows that stand for the mails of a thread,    *)
(* how they are tied to workflow runs and through these to lifecycles, what *)
(* a thread says of the loads it is about, and the text of a thread that    *)
(* the language model is given.                                             *)
(*                                                                         *)
(* A row is named by its place in rows, oldest first; 0 stands for None.    *)
(* The body of a mail is a sequence of parts: words ("own" are the sender's *)
(* new words, "on" is new words from the word `on' forth, "old" are words   *)
(* quoted or forwarded) and the marks that mail programs put around quotes: *)
(* "div" opens a division that is none of the others, "header" is the text  *)
(* of a forward header on lines of its own, "inline" that text on one line  *)
(* with all that follows.                                                  *)
(***************************************************************************)
EXTENDS LifecycleStore

CONSTANTS Mails,  \* ids of the inbound mails
          Mail,   \* what a mail carries, a function of the id
          Limit   \* messages of a thread that are read

Words == {"own", "on", "old", "request", "draft"}
Tags == {"div", "quote", "blockquote", "hr", "append", "fwdBlock", "fwdHeader"}
Marks == Tags \cup {"wrote", "original", "header", "inline"}

ASSUME LimitAssumption == Limit \in Nat \ {0}
\* What we send has no inbound id.
ASSUME MailsAssumption == Mails \cap {"request", "draft"} = {}
ASSUME BodyAssumption == \A m \in Mails : Mail[m].body \in Seq(Words \cup Marks)

VARIABLES rows, \* communications: mail, thread, direction, run and cycle of each
          runs  \* workflow_runs: the cycle and the event of each run recorded, by run id

-----------------------------------------------------------------------------
(* The text of one mail.                                                   *)

\* Up to the first part that is one of marks.
CutAt(body, marks) ==
  LET at == {i \in DOMAIN body : body[i] \in marks} IN
  IF at = {} THEN body ELSE SubSeq(body, 1, (CHOOSE i \in at : \A j \in at : i <= j) - 1)

Has(body, mark) == mark \in ToSet(body)

\* The parts that are not at the places gone, in order.
Remaining(body, gone) ==
  LET kept[i \in 0..Len(body)] ==
        IF i = 0 THEN <<>>
        ELSE IF i \in gone THEN kept[i - 1] ELSE Append(kept[i - 1], body[i])
  IN kept[Len(body)]

Without(body, marks) == Remaining(body, {i \in DOMAIN body : body[i] \in marks})

\* _strip_html: the tags go, what a header says stays as text ...
StripHtml(body) == Without(body, Tags \ {"fwdBlock", "fwdHeader"})

\* ... which _collapse_ws puts on one line with the rest.
CollapseWs(text) ==
  [i \in DOMAIN text |->
     IF text[i] \in {"fwdBlock", "fwdHeader", "header"} THEN "inline" ELSE text[i]]

\* The first pattern that is found decides.
StripReplyQuotes(body) ==
  IF Has(body, "quote") THEN CutAt(body, {"quote"}) ELSE CutAt(body, {"blockquote"})

\* _OUTLOOK_FWD_HEADER_DIV_RE, wherever it matches: from the first division that
\* opens after the last match up to the end of the next header.
HeaderDivs(body) ==
  {i \in DOMAIN body :
     \E d, h \in DOMAIN body :
       /\ d <= i /\ i <= h
       /\ body[d] \in {"div", "quote", "fwdHeader"} /\ body[h] = "fwdHeader"
       /\ \A j \in d..(h - 1) : body[j] # "fwdHeader"}

WithoutHeaders(body) == Remaining(body, HeaderDivs(body))

ProcessForward(body) ==
  StripReplyQuotes(WithoutHeaders(Without(body, {"append", "fwdBlock"})))

\* Faulty variant, used as a mutant.
StripQuotedTail(body) ==
  IF Has(body, "hr")
    THEN StripHtml(ProcessForward(SubSeq(body, Len(CutAt(body, {"hr"})) + 2, Len(body))))
  ELSE StripHtml(StripReplyQuotes(ProcessForward(body)))

\* Around a rule: the words above it, and below it a forwarded mail, which goes
\* if it is marked as the mail replied to and there are words above.
StripQuotedHtml(body) ==
  LET above == CutAt(body, {"hr"})
      below == SubSeq(body, Len(above) + 2, Len(body))
      head == CollapseWs(StripHtml(StripReplyQuotes(above)))
      tail == CollapseWs(StripHtml(ProcessForward(below)))
  IN IF ~Has(body, "hr") THEN StripHtml(StripReplyQuotes(ProcessForward(body)))
     ELSE IF Has(below, "fwdBlock") /\ head # <<>> THEN head
     ELSE head \o tail

\* "On ... wrote:" starts at the first word `on' before a "wrote:".
StripOnWrote(text) == IF Has(text, "wrote") THEN CutAt(text, {"on", "wrote"}) ELSE text

\* Forward headers go, each to the end of its last line; from the first mark of a
\* reply on everything goes.
StripQuotedPlain(text) ==
  CutAt(StripOnWrote(CutAt(Without(text, {"header"}), {"inline"})), {"original"})

\* Only a body with a tag is taken for HTML.
IsHtml(body) == \E i \in DOMAIN body : body[i] \in Tags

NormalizeBody(body) == StripQuotedPlain(IF IsHtml(body) THEN StripQuotedHtml(body) ELSE body)

MailText == [m \in Mails |-> ToSet(NormalizeBody(Mail[m].body))]

-----------------------------------------------------------------------------
(* The rows.                                                               *)

\* inbound_row_from_payload and outbound_row_from_send.
InboundRow(m) ==
  [mail |-> m, thread |-> Mail[m].thread, direction |-> "inbound", run |-> 0, cycle |-> 0]
OutboundRow(thread, run, text) ==
  [mail |-> text, thread |-> thread, direction |-> "outbound", run |-> run, cycle |-> 0]

InThread(thread) == {i \in DOMAIN rows : rows[i].thread = thread}

\* The row of an inbound mail (its external_id is the mail's id).
FindInbound(m) ==
  LET mine == {i \in DOMAIN rows : rows[i].mail = m} IN
  IF mine = {} THEN 0 ELSE CHOOSE i \in mine : TRUE

\* record_or_resolve_inbound, when the insert does not fail.
WithInbound(m) == IF FindInbound(m) # 0 THEN rows ELSE Append(rows, InboundRow(m))
InboundId(m) == IF FindInbound(m) # 0 THEN FindInbound(m) ELSE Len(rows) + 1

\* record_outbound_from_send.
WithOutbound(thread, run, text) == Append(rows, OutboundRow(thread, run, text))

\* send_thread_reply: the mail is out even if its row is not made.
ThreadReply(thread, run, mayFail) ==
  {WithOutbound(thread, run, "request")} \cup (IF mayFail THEN {rows} ELSE {})

\* Faulty variant, used as a mutant.
CycleFilled(table, id, run, cycle) ==
  IF id = 0 THEN table
  ELSE [table EXCEPT ![id].run = IF @ = 0 THEN run ELSE @, ![id].cycle = IF @ = 0 THEN cycle ELSE @]

\* link_workflow_run: a row of this run gets the cycle it lacks; a row of no
\* run gets both.
Linked(table, id, run, cycle) ==
  IF id = 0 THEN table
  ELSE IF table[id].run = run
    THEN [table EXCEPT ![id].cycle = IF @ = 0 THEN cycle ELSE @]
  ELSE IF table[id].run = 0
    THEN [table EXCEPT ![id].run = run, ![id].cycle = IF cycle = 0 THEN @ ELSE cycle]
  ELSE table

\* Faulty variant, used as a mutant.
ThreadOverwritten(table, thread, run, cycle) ==
  [i \in DOMAIN table |->
     IF table[i].thread = thread
       THEN [table[i] EXCEPT !.run = run, !.cycle = IF cycle = 0 THEN @ ELSE cycle]
     ELSE table[i]]

\* link_workflow_run_to_thread: the rows of the thread that no run has yet.
ThreadLinked(table, thread, run, cycle) ==
  [i \in DOMAIN table |->
     IF table[i].thread = thread /\ table[i].run = 0
       THEN [table[i] EXCEPT !.run = run, !.cycle = IF cycle = 0 THEN @ ELSE cycle]
     ELSE table[i]]

\* record_workflow_run: nothing if the run is there.
RunRecorded(run, cycle, event) ==
  IF run \in DOMAIN runs THEN runs
  ELSE [r \in DOMAIN runs \cup {run} |->
          IF r = run THEN [cycle |-> cycle, event |-> event] ELSE runs[r]]

\* The cycles that a thread's rows lead to, through the runs they are linked to.
ThreadCycles(thread) ==
  {runs[rows[i].run].cycle : i \in {i \in InThread(thread) : rows[i].run \in DOMAIN runs}}

\* find_active_lifecycle_id_for_thread.
FindActive(flow, thread) ==
  Newest({c \in ThreadCycles(thread) :
            lifecycles[c].flow = flow /\ Sub(c) \notin {"uploaded_to_tms", "cancelled"}})

\* find_shipment_context_for_thread, of which only the first row is used.
ContextLoad(thread) ==
  LET first == Newest(ThreadCycles(thread)) IN
  IF first = 0 THEN Unset ELSE lifecycles[first].load

\* find_outbound_draft_communication_id: the newest draft sent for the cycle.
DraftOf(c) ==
  LET sent == {i \in DOMAIN rows : /\ rows[i].mail = "draft"
                                   /\ rows[i].run \in DOMAIN runs
                                   /\ runs[rows[i].run].cycle = c}
  IN IF sent = {} THEN 0 ELSE CHOOSE i \in sent : \A j \in sent : i >= j

-----------------------------------------------------------------------------
(* The text of a thread.                                                   *)

\* list_thread_messages: the oldest ones.
ListThread(thread) ==
  {i \in InThread(thread) : Cardinality({j \in InThread(thread) : j <= i}) <= Limit}

\* The turns of an outbound row are the text it was made from.
TextOf(i) == IF rows[i].mail \in Mails THEN MailText[rows[i].mail] ELSE {rows[i].mail}

\* build_email_thread_llm_user_message: the turns with text, or else the
\* webhook's body.
Turns(messages, fallback) ==
  LET turns == UNION {{<<rows[i].mail, word>> : word \in TextOf(i)} : i \in messages} IN
  IF turns # {} THEN turns ELSE UNION {{<<m, word>> : word \in MailText[m]} : m \in fallback}

ThreadText(thread, fallback) == Turns(ListThread(thread), fallback)

\* The draft joins a thread that has nothing outbound.
MergeDraft(messages, draft) ==
  IF draft = 0 \/ \E i \in messages : rows[i].direction = "outbound" THEN messages
  ELSE messages \cup {draft}

ReplyText(thread, c) == Turns(MergeDraft(ListThread(thread), DraftOf(c)), {})

(* A row is linked to a run and the cycle of that run, or to no cycle yet.  *)
(* What a thread is about, and so where a reply goes, is read from these    *)
(* links; five places of the program write them.                            *)
RowsTellRuns ==
  \A i \in DOMAIN rows :
    /\ rows[i].run # 0 => rows[i].run \in DOMAIN runs
    /\ rows[i].cycle # 0 => /\ rows[i].run # 0
                            /\ rows[i].cycle = runs[rows[i].run].cycle

(* The run of a row never changes once it is set, nor does the mail that it *)
(* stands for: a thread keeps saying what it was found to be about.         *)
BoundOnce ==
  [][\A i \in DOMAIN rows :
       /\ rows'[i].mail = rows[i].mail /\ rows'[i].thread = rows[i].thread
       /\ rows[i].run # 0 => rows'[i].run = rows[i].run]_<<rows, runs>>
=============================================================================
