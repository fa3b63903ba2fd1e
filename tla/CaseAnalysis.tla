----------------------------- MODULE CaseAnalysis -----------------------------
(***************************************************************************)
(* What is computed about one case and kept: its compliance result and its *)
(* transaction DNA.  compliance_api.py and dna_api.py serve ADMIN          *)
(* requests, the investigation agent computes both on its way, and all     *)
(* write to the same two rows, the last writer wins.  Each reads the       *)
(* documents once and computes without waiting; the document pipeline goes *)
(* on meanwhile and any request may die between two of its steps.          *)
(*                                                                         *)
(* The documents of a case are in the order of list_documents.  An agent   *)
(* takes only the steps that touch these rows; Investigation has the rest. *)
(***************************************************************************)
EXTENDS TransactionDna

CONSTANTS
  File,      \* File[c]: case file c, [docs, start, payloads, requests, changes, twice];
             \* twice: the documents that two uploads bring at once
  Requests,  \* requests, at most
  Kind       \* Kind[r]: "rules", "dna" or "agent"

\* ABSENT: no record, or not classified yet.  FAILED_KEPT: a failure after the
\* extraction was stored.
DocStates == {"ABSENT", "PENDING", "PARTIAL", "EXTRACTED", "FAILED", "FAILED_KEPT"}

Payloads == [drawing : Int \cup {None}, presented : Int \cup {None},
             original : BOOLEAN, bulk : BOOLEAN]

\* ComplianceRunRequest(), which the agent sends.
DefaultPayload == [drawing |-> None, presented |-> None, original |-> TRUE, bulk |-> FALSE]

\* What extraction makes of a document; fields are None when they are a raw dict,
\* and the other types of document have none the module looks at.
Contents ==
  [type : {"letter_of_credit"}, fields : Maybe(Credits)]
  \cup [type : {"commercial_invoice"}, fields : Maybe(Invoices)]
  \cup [type : {"bill_of_lading"}, fields : Maybe(BillsOfLading)]
  \cup [type : {"packing_list"}, fields : Maybe(PackingLists)]
  \cup [type : {"insurance_certificate"}, fields : Maybe(Policies)]
  \cup [type : {"certificate_of_origin", "inspection_certificate"}, fields : {None}]

ASSUME CasesAssumption ==
  /\ Kind \in [Requests -> {"rules", "dna", "agent"}]
  /\ \A c \in DOMAIN File :
       /\ DOMAIN File[c].docs \subseteq Nat
       /\ IsFiniteSet(DOMAIN File[c].docs)
       /\ \A i \in DOMAIN File[c].docs : File[c].docs[i] \in Contents
       /\ File[c].start \in [DOMAIN File[c].docs -> DocStates]
       /\ File[c].payloads \subseteq Payloads
       /\ File[c].requests \subseteq Requests
       /\ File[c].changes \in Nat
       /\ File[c].twice \subseteq DOMAIN File[c].docs

VARIABLES
  case,        \* which case file
  doc,         \* doc[i]: state of the i-th document
  changes,     \* changes the pipeline made so far
  pc,          \* pc[r]: the next step of request r
  payload,     \* payload[r]: what the request asks for
  loaded,      \* loaded[r]: the documents as load_case read them
  held,        \* held[r]: what r computed and has not saved yet
  compliance,  \* the row of compliance_results, with the facts it rests on
  dna,         \* the row of transaction_dna, with the extractions it rests on
  trail        \* requests whose result is audited

vars == <<case, doc, changes, pc, payload, loaded, held, compliance, dna, trail>>

Init ==
  /\ case \in DOMAIN File
  /\ doc = File[case].start
  /\ changes = 0
  /\ pc = [r \in Requests |-> IF r \in File[case].requests THEN "begin" ELSE "done"]
  /\ payload = [r \in Requests |-> DefaultPayload]
  /\ loaded = [r \in Requests |-> None]
  /\ held = [r \in Requests |-> None]
  /\ compliance = None
  /\ dna = None
  /\ trail = {}

-------------------------------------------------------------------------------
(* The documents as a request reads them: docs maps positions to states *)

Listed(docs) == {i \in DOMAIN docs : docs[i] # "ABSENT"}

HasExtraction(state) == state \in {"PARTIAL", "EXTRACTED", "FAILED_KEPT"}

Extractions(docs) ==
  [i \in {j \in DOMAIN docs : HasExtraction(docs[j])} |->
     [id |-> i, type |-> File[case].docs[i].type, fields |-> File[case].docs[i].fields]]

\* _document_of_type and _fields: the first document of the type, whatever its
\* state, and its typed fields.
FieldsOf(docs, type) ==
  LET of == {i \in Listed(docs) : File[case].docs[i].type = type}
  IN  IF of = {} THEN None
      ELSE IF HasExtraction(docs[FirstOf(of)]) THEN File[case].docs[FirstOf(of)].fields
      ELSE None

\* build_compliance_facts
Facts(docs, request) ==
  [lc        |-> FieldsOf(docs, "letter_of_credit"),
   invoice   |-> FieldsOf(docs, "commercial_invoice"),
   bl        |-> FieldsOf(docs, "bill_of_lading"),
   packing   |-> FieldsOf(docs, "packing_list"),
   insurance |-> FieldsOf(docs, "insurance_certificate"),
   documents |-> {[id |-> i, type |-> File[case].docs[i].type, status |-> docs[i]] :
                    i \in Listed(docs)},
   drawing   |-> request.drawing,
   presented |-> request.presented,
   original  |-> request.original,
   bulk      |-> request.bulk]

KnownTypes == {"letter_of_credit", "commercial_invoice", "bill_of_lading", "packing_list",
               "certificate_of_origin", "insurance_certificate", "inspection_certificate"}

\* The agent goes past check_completeness.
Complete(docs) ==
  LET lc == Fields(Extraction(Extractions(docs), "letter_of_credit"))
      required == IF lc.required_documents = {} THEN KnownTypes
                  ELSE {q.type : q \in {r \in lc.required_documents : r.required}}
  IN  /\ lc # None
      /\ required \subseteq
           {File[case].docs[i].type : i \in {j \in DOMAIN docs : docs[j] \in {"PARTIAL", "EXTRACTED"}}}

-------------------------------------------------------------------------------
(* The document pipeline; File[case].changes bounds it *)

\* A task saves its record as it gets on.  Two uploads of one file that both miss its
\* hash save over each other: an insert resets the record, and the two tasks' saves
\* may follow each other in any order.
Change(i) ==
  /\ changes < File[case].changes
  /\ \/ doc[i] = "ABSENT" /\ doc' = [doc EXCEPT ![i] = "PENDING"]
     \/ /\ doc[i] = "PENDING"
        /\ \E s \in {"PARTIAL", "EXTRACTED", "FAILED"} : doc' = [doc EXCEPT ![i] = s]
     \/ /\ doc[i] \in {"PARTIAL", "EXTRACTED"}
        /\ doc' = [doc EXCEPT ![i] = "FAILED_KEPT"]
     \/ /\ i \in File[case].twice /\ doc[i] # "ABSENT"
        /\ \E s \in DocStates \ {doc[i]} : doc' = [doc EXCEPT ![i] = s]
  /\ changes' = changes + 1
  /\ UNCHANGED <<case, pc, payload, loaded, held, compliance, dna, trail>>

-------------------------------------------------------------------------------
(* POST /cases/{id}/compliance and /transaction-dna *)

Goto(r, label) == pc' = [pc EXCEPT ![r] = label]

\* 403 or 404: another role, another unit's case or no case at all.
Refuse(r) ==
  /\ Kind[r] \in {"rules", "dna"}
  /\ pc[r] = "begin"
  /\ Goto(r, "done")
  /\ UNCHANGED <<case, doc, changes, payload, loaded, held, compliance, dna, trail>>

Begin(r) ==
  /\ Kind[r] \in {"rules", "dna"}
  /\ pc[r] = "begin"
  /\ Goto(r, "read")
  /\ IF Kind[r] = "rules"
     THEN \E p \in File[case].payloads : payload' = [payload EXCEPT ![r] = p]
     ELSE UNCHANGED payload
  /\ UNCHANGED <<case, doc, changes, loaded, held, compliance, dna, trail>>

FactsFor(r) == Facts(doc, payload[r])

\* The result, or 422 without typed fields of the letter of credit.
Evaluate(r) ==
  LET f == FactsFor(r)
  IN  /\ \/ Kind[r] = "rules" /\ pc[r] = "read"
         \/ Kind[r] = "agent" /\ pc[r] = "rules"
      /\ IF f.lc = None
         THEN /\ Goto(r, IF Kind[r] = "agent" THEN "dna" ELSE "done")
              /\ UNCHANGED held
         ELSE /\ Goto(r, "save")
              /\ held' = [held EXCEPT ![r] = [facts |-> f, result |-> evaluate_compliance(f)]]
      /\ UNCHANGED <<case, doc, changes, payload, loaded, compliance, dna, trail>>

\* The agent's save is not audited as an execution of the rules.
SaveCompliance(r) ==
  /\ Kind[r] \in {"rules", "agent"}
  /\ pc[r] = "save"
  /\ compliance' = held[r]
  /\ held' = [held EXCEPT ![r] = None]
  /\ Goto(r, IF Kind[r] = "agent" THEN "dna" ELSE "audit")
  /\ UNCHANGED <<case, doc, changes, payload, loaded, dna, trail>>

\* The record, or 422 without any extraction.
Build(r) ==
  /\ Kind[r] = "dna"
  /\ pc[r] = "read"
  /\ IF DOMAIN Extractions(doc) = {}
     THEN Goto(r, "done") /\ UNCHANGED held
     ELSE /\ Goto(r, "save")
          /\ held' = [held EXCEPT ![r] =
               [es |-> Extractions(doc), result |-> build_transaction_dna(Extractions(doc))]]
  /\ UNCHANGED <<case, doc, changes, payload, loaded, compliance, dna, trail>>

SaveDna(r) ==
  /\ Kind[r] = "dna"
  /\ pc[r] = "save"
  /\ dna' = held[r]
  /\ held' = [held EXCEPT ![r] = None]
  /\ Goto(r, "audit")
  /\ UNCHANGED <<case, doc, changes, payload, loaded, compliance, trail>>

Audit(r) ==
  /\ pc[r] = "audit"
  /\ trail' = trail \cup {r}
  /\ Goto(r, "done")
  /\ UNCHANGED <<case, doc, changes, payload, loaded, held, compliance, dna>>

-------------------------------------------------------------------------------
(* The agent: load_case and check_completeness, run_ucp_rules (Evaluate and  *)
(* SaveCompliance), build_transaction_dna from what load_case read.          *)

Load(r) ==
  /\ Kind[r] = "agent"
  /\ pc[r] = "begin"
  /\ loaded' = [loaded EXCEPT ![r] = doc]
  /\ Goto(r, IF Complete(doc) THEN "rules" ELSE "done")
  /\ UNCHANGED <<case, doc, changes, payload, held, compliance, dna, trail>>

BuildAndSave(r) ==
  /\ Kind[r] = "agent"
  /\ pc[r] = "dna"
  /\ dna' = [es |-> Extractions(loaded[r]),
             result |-> build_transaction_dna(Extractions(loaded[r]))]
  /\ Goto(r, "done")
  /\ UNCHANGED <<case, doc, changes, payload, loaded, held, compliance, trail>>

\* Mutant: a failed request keeps its result.
FailHolding(r) ==
  /\ pc[r] \in {"read", "rules", "save", "audit", "dna"}
  /\ Goto(r, "done")
  /\ UNCHANGED <<case, doc, changes, payload, loaded, held, compliance, dna, trail>>

\* A failing call ends an ADMIN request; the agent goes on after run_ucp_rules.
Fail(r) ==
  /\ pc[r] \in {"read", "rules", "save", "audit", "dna"}
  /\ \/ Goto(r, "done")
     \/ Kind[r] = "agent" /\ pc[r] \in {"rules", "save"} /\ Goto(r, "dna")
  /\ held' = [held EXCEPT ![r] = None]
  /\ UNCHANGED <<case, doc, changes, payload, loaded, compliance, dna, trail>>

Next ==
  \/ \E i \in DOMAIN doc : Change(i)
  \/ \E r \in Requests :
       Refuse(r) \/ Begin(r) \/ Evaluate(r) \/ SaveCompliance(r) \/ Build(r) \/ SaveDna(r)
         \/ Audit(r) \/ Load(r) \/ BuildAndSave(r) \/ Fail(r)

Spec == Init /\ [][Next]_vars

-------------------------------------------------------------------------------
(* Properties *)

PcLabels == {"begin", "read", "rules", "save", "audit", "dna", "done"}

\* Every request is at one of its steps, holds a result only while it has one to
\* save, and has ended when it is audited; the agent's evaluations never are.
TypeOK ==
  /\ case \in DOMAIN File
  /\ doc \in [DOMAIN File[case].docs -> DocStates]
  /\ changes \in 0..File[case].changes
  /\ pc \in [Requests -> PcLabels]
  /\ payload \in [Requests -> File[case].payloads \cup {DefaultPayload}]
  /\ \A r \in Requests :
       /\ pc[r] # "save" => held[r] = None
       /\ pc[r] = "audit" => Kind[r] # "agent"
  /\ trail \subseteq {r \in Requests : Kind[r] # "agent" /\ pc[r] = "done"}

\* What the letter of credit is worth, stated by article and not by check: the
\* documents examined tell one story.
Said(d, field) == IF d = None THEN None ELSE d[field]

OneText(values) == \A v, w \in values \ {None} : Plain[v] = Plain[w]

\* Documents that state a datum agree on it, as long as the one they are all
\* compared with states it.
Agree(centre, others) == centre # None => OneText({centre} \cup others)

PartiesAgree(f) ==
  /\ Agree(f.lc.beneficiary, {Said(f.invoice, "seller"), Said(f.bl, "shipper")})
  /\ Agree(f.lc.applicant, {Said(f.invoice, "buyer"), Said(f.bl, "consignee")})

\* Insurance is examined beside an invoice only.
Cover(f) == IF f.invoice = None THEN None ELSE f.insurance

GoodsAgree(f) ==
  LET invoice == Said(f.invoice, "goods_description")
      bl      == Said(f.bl, "goods_description")
  IN  /\ Agree(invoice, {f.lc.goods_description, bl, Said(f.packing, "goods_description")})
      /\ invoice # None /\ bl # None =>
           OneText({f.lc.goods_description, invoice, bl, Said(f.packing, "goods_description"),
                    Said(Cover(f), "goods_description")})

VoyageAgrees(f) ==
  /\ Agree(Said(f.bl, "vessel_name"),
           {Said(f.invoice, "vessel_name"), Said(Cover(f), "vessel_name")})
  /\ \A port \in {"loading_port", "discharge_port"} :
       Agree(Said(f.bl, port), {f.lc[port], Said(Cover(f), port)})

\* Nothing is drawn beyond the credit, and the cover is 110% of an invoice that
\* is itself near the credit.
MoneyIsBounded(f) ==
  LET credit == f.lc.credit_amount
      amount == Said(f.invoice, "invoice_amount")
      drawn  == IF f.drawing # None THEN f.drawing ELSE amount
      cover  == Said(Cover(f), "insured_amount")
  IN  credit # None /\ amount # None =>
        /\ 100 * drawn <= credit * (100 + Tolerance(f.lc))
        /\ cover # None => 10000 * cover >= credit * (100 - Tolerance(f.lc)) * MinimumCoverage

\* Every quantity is the one of the invoice, and near the one of the credit.
GoodsAreCounted(f) ==
  LET ordered  == f.lc.quantity
      invoiced == Said(f.invoice, "quantity")
  IN  invoiced # None =>
        \A q \in {invoiced, Said(f.bl, "quantity"), Said(f.packing, "total_quantity")} \ {None} :
          /\ q = invoiced
          /\ ordered # None =>
               \/ q = ordered
               \/ f.bulk /\ AtMost(q, ordered, BulkTolerance) /\ AtLeast(q, ordered, BulkTolerance)

\* Insured by the day of shipment, shipped in time, presented in time.
InTime(f) ==
  LET shipped == IF f.bl = None THEN None ELSE ShipmentDate(f.bl)
  IN  shipped # None =>
        /\ f.lc.latest_shipment_date # None =>
             /\ shipped <= f.lc.latest_shipment_date
             /\ Said(Cover(f), "effective_date") # None =>
                  Cover(f).effective_date <= f.lc.latest_shipment_date
        /\ f.presented # None /\ f.lc.expiry_date # None =>
             /\ f.presented <= f.lc.expiry_date
             /\ f.original => f.presented <= shipped + AllowedDays(f.lc)

Covered(f) ==
  \A r \in f.lc.required_documents :
    r.required => /\ \E d \in f.documents : d.type = r.type /\ d.status = "EXTRACTED"
                  /\ r.copies <= 0

Conforms(f) ==
  /\ Covered(f)
  /\ PartiesAgree(f)
  /\ GoodsAgree(f)
  /\ VoyageAgrees(f)
  /\ MoneyIsBounded(f)
  /\ GoodsAreCounted(f)
  /\ InTime(f)

\* A case is COMPLIANT only if the documents examined for it conform to the credit
\* and to each other (checks.py, engine.py:89): across any chain of checks, and
\* whichever request wrote the row last.
CompliantConforms ==
  compliance # None =>
    (compliance.result.status = "COMPLIANT" => Conforms(compliance.facts))

\* Nothing is wrong with a presentation: what was asked for is there, each datum
\* reads the same wherever it is stated, and amounts, quantities and dates keep
\* to the credit.
InOrder(a, b) == a # None /\ b # None => a <= b

SameTexts(f) ==
  \A values \in {
      {f.lc.beneficiary, Said(f.invoice, "seller"), Said(f.bl, "shipper")},
      {f.lc.applicant, Said(f.invoice, "buyer"), Said(f.bl, "consignee")},
      {f.lc.currency, Said(f.invoice, "currency"), Said(f.insurance, "currency")},
      {Said(d, "vessel_name") : d \in {f.invoice, f.bl, f.insurance}},
      {f.lc.loading_port, Said(f.bl, "loading_port"), Said(f.insurance, "loading_port")},
      {f.lc.discharge_port, Said(f.bl, "discharge_port"), Said(f.insurance, "discharge_port")},
      {f.lc.goods_description}
        \cup {Said(d, "goods_description") : d \in {f.invoice, f.bl, f.packing, f.insurance}}} :
    OneText(values)

FaultlessMoney(f) ==
  LET credit == f.lc.credit_amount
      amount == Said(f.invoice, "invoice_amount")
      cover  == Said(f.insurance, "insured_amount")
  IN  /\ credit # None =>
           /\ \A x \in {amount, f.drawing} \ {None} : AtMost(x, credit, Tolerance(f.lc))
           /\ amount # None => AtLeast(amount, credit, Tolerance(f.lc))
      /\ amount # None /\ cover # None => 100 * cover >= amount * MinimumCoverage

FaultlessGoods(f) ==
  LET ordered   == f.lc.quantity
      delivered == {Said(f.invoice, "quantity"), Said(f.bl, "quantity"),
                    Said(f.packing, "total_quantity")} \ {None}
  IN  /\ \A p, q \in delivered : p = q
      /\ ordered # None => \A q \in delivered :
           IF f.bulk
           THEN AtLeast(q, ordered, BulkTolerance) /\ AtMost(q, ordered, BulkTolerance)
           ELSE q = ordered

FaultlessVoyage(f) ==
  f.bl # None =>
    /\ f.bl.on_board_notation # FALSE /\ f.bl.signature # FALSE
    /\ f.lc.partial_shipments = FALSE => f.bl.partial_shipment # TRUE
    /\ InOrder(Said(f.insurance, "effective_date"), ShipmentDate(f.bl))
    /\ InOrder(ShipmentDate(f.bl), f.lc.latest_shipment_date)
    /\ InOrder(f.presented, f.lc.expiry_date)
    /\ ShipmentDate(f.bl) # None /\ f.presented # None =>
         f.presented <= ShipmentDate(f.bl) + AllowedDays(f.lc)

Faultless(f) ==
  /\ Covered(f)
  /\ \A r \in f.lc.required_documents :
       r.required =>
         r.originals <= Cardinality({d \in f.documents : d.type = r.type /\ d.status = "EXTRACTED"})
  /\ SameTexts(f)
  /\ FaultlessMoney(f)
  /\ FaultlessGoods(f)
  /\ FaultlessVoyage(f)

\* Nothing is held against a presentation without fault (engine.py:89): what one
\* check wants another never forbids, and a field that was not read is no finding.
FaultlessIsCompliant ==
  compliance # None =>
    (Faultless(compliance.facts) => compliance.result.status = "COMPLIANT")

\* g rests on the documents f rests on, and perhaps more of them.
Grows(f, g) ==
  /\ g.lc = f.lc
  /\ \A part \in {"invoice", "bl", "packing", "insurance"} : f[part] \in {None, g[part]}
  /\ \A d \in f.documents : d.status = "EXTRACTED" => d \in g.documents
  /\ \A field \in {"drawing", "presented", "original", "bulk"} : f[field] = g[field]

\* A finding is not lost because more documents were read before the same
\* evaluation was repeated, by the same request or by the agent (engine.py:160).
MoreDocumentsMoreFindings ==
  [][compliance # None /\ compliance' # None =>
       (/\ Grows(compliance.facts, compliance'.facts)
        /\ compliance.result.status # "INCOMPLETE"
        => /\ compliance'.result.status # "INCOMPLETE"
           /\ compliance.result.findings \subseteq compliance'.result.findings)]_vars

\* e is the document that held value v for the field name of the DNA.
Held(e, name, v) ==
  /\ e.fields # None
  /\ IF name \in DOMAIN Preferred
     THEN LET p == Preferred[name]
          IN  \/ e.type = p.type /\ e.fields[p.field] = v
              \/ e.type = "bill_of_lading" /\ e.fields[p.otherwise] = v
     ELSE IF name \in DOMAIN Single
     THEN e.type = Single[name].type /\ e.fields[Single[name].field] = v
     ELSE e.type = "bill_of_lading" /\ v \in {e.fields["on_board_date"], e.fields["bl_date"]}

\* The document a DNA value names as its source really held that value, though the
\* two are chosen by separate expressions (builder.py:153-195).
SourceHoldsValue ==
  dna # None =>
    \A name \in DOMAIN dna.result.sources :
      \E i \in DOMAIN dna.es :
        /\ dna.es[i].id = dna.result.sources[name]
        /\ Held(dna.es[i], name, dna.result.raw[name])

\* Any two readable quantities that differ leave a conflict in the DNA, though each
\* is compared with the first readable one only (builder.py:76).
DisagreementReported ==
  dna # None =>
    LET q == Stated(dna.es)
    IN  (\E i, j \in ReadableOf(q) : Measure(q[i]) # Measure(q[j]))
        => \E c \in dna.result.conflicts : c.field = "quantity"

OneUnit(u, v) == u \notin Units \/ v \notin Units \/ u = v

\* When both rows rest on the same documents, a quantity conflict between documents
\* that use one unit is a discrepancy of the rules too (engine.py:109): the officer
\* does not see COMPLIANT beside a conflict.
ConflictIsDiscrepancy ==
  (/\ compliance # None
   /\ dna # None
   /\ \A p \in {<<"invoice", "commercial_invoice">>, <<"bl", "bill_of_lading">>,
                 <<"packing", "packing_list">>} :
        compliance.facts[p[1]] = Fields(Extraction(dna.es, p[2]))
   /\ Said(compliance.facts.invoice, "quantity") # None
   /\ \A a, b \in {"invoice", "bl", "packing"} :
        OneUnit(Said(compliance.facts[a], "unit"), Said(compliance.facts[b], "unit")))
  => ((\E c \in dna.result.conflicts : c.field = "quantity")
       => compliance.result.status # "COMPLIANT")

\* README.md:83: the invoice's amount is checked against the credit.
InvoiceExamined ==
  compliance # None =>
    (compliance.result.status = "COMPLIANT" =>
       ((\E d \in compliance.facts.documents :
           d.type = "commercial_invoice" /\ d.status = "EXTRACTED")
        => compliance.facts.invoice # None))
===============================================================================
