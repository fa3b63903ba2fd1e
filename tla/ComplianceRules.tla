---------------------------- MODULE ComplianceRules ----------------------------
(***************************************************************************)
(* The UCP 600 engine: rules/engine.py over rules/checks.py.  It compares  *)
(* the letter of credit with the fields of the other documents and returns *)
(* findings; a field that was not read (None) takes part in no check.      *)
(*                                                                         *)
(* Amounts, quantities and dates are numbers; a date counts days.  A       *)
(* finding is what identifies it (rule, document, field) and its severity; *)
(* wording, page references and the order of findings are left out.        *)
(***************************************************************************)
EXTENDS Integers, FiniteSets

CONSTANTS
  None,    \* a field, or a document, that is not there
  Texts,   \* names, goods, ports and currencies, as read; none is empty
  Plain,   \* Plain[t]: _normalize(t)
  Similar  \* pairs of texts whose normal forms reach fuzzy_advisory_threshold

ASSUME RulesAssumption ==
  /\ Plain \in [Texts -> Texts]
  /\ Similar \subseteq Texts \X Texts
  /\ None \notin Texts
  /\ None \notin Int
  /\ None \notin BOOLEAN

Maybe(S) == S \cup {None}

\* The fields the rules and the DNA read (models/contracts.py).
Requirement == [type : STRING, required : BOOLEAN, originals : Int, copies : Int]

Credits ==
  [applicant : Maybe(Texts), beneficiary : Maybe(Texts), currency : Maybe(Texts),
   credit_amount : Maybe(Int), about_flag : Maybe(BOOLEAN), expiry_date : Maybe(Int),
   latest_shipment_date : Maybe(Int), presentation_days : Maybe(Int),
   partial_shipments : Maybe(BOOLEAN), required_documents : SUBSET Requirement,
   goods_description : Maybe(Texts), quantity : Maybe(Int),
   loading_port : Maybe(Texts), discharge_port : Maybe(Texts)]

Invoices ==
  [seller : Maybe(Texts), buyer : Maybe(Texts), currency : Maybe(Texts),
   invoice_amount : Maybe(Int), quantity : Maybe(Int), unit : Maybe(STRING),
   goods_description : Maybe(Texts), vessel_name : Maybe(Texts)]

BillsOfLading ==
  [bl_number : Maybe(Texts), shipper : Maybe(Texts), consignee : Maybe(Texts),
   vessel_name : Maybe(Texts), loading_port : Maybe(Texts), discharge_port : Maybe(Texts),
   on_board_notation : Maybe(BOOLEAN), on_board_date : Maybe(Int), bl_date : Maybe(Int),
   goods_description : Maybe(Texts), quantity : Maybe(Int), unit : Maybe(STRING),
   signature : Maybe(BOOLEAN), partial_shipment : Maybe(BOOLEAN)]

PackingLists ==
  [goods_description : Maybe(Texts), total_quantity : Maybe(Int), unit : Maybe(STRING)]

Policies ==
  [insured_amount : Maybe(Int), currency : Maybe(Texts), effective_date : Maybe(Int),
   goods_description : Maybe(Texts), vessel_name : Maybe(Texts),
   loading_port : Maybe(Texts), discharge_port : Maybe(Texts)]

\* ucp600_rules.json, in percent and days.
AboutTolerance  == 10
BulkTolerance   == 5
MinimumCoverage == 110
DefaultDays     == 21

-------------------------------------------------------------------------------
(* Single checks: the findings each returns *)

Finding(rule, doc, field, severity) ==
  [rule |-> rule, doc |-> doc, field |-> field, severity |-> severity]

Breach(broken, rule, doc, field) ==
  IF broken THEN {Finding(rule, doc, field, "MATERIAL")} ELSE {}

\* The findings of checks the engine makes only under a condition.
If(condition, findings) == IF condition THEN findings ELSE {}

After(a, b)   == a # None /\ b # None /\ a > b
Unequal(a, b) == a # None /\ b # None /\ a # b
Unlike(a, b)  == a # None /\ b # None /\ Plain[a] # Plain[b]

\* Mutant: texts that are similar enough are let through.
SimilarTextsPass(rule, doc, field, expected, actual) ==
  Breach(Unlike(expected, actual) /\ <<expected, actual>> \notin Similar, rule, doc, field)

\* check_string_consistency: similar texts differ by an advisory only.
Text(rule, doc, field, expected, actual) ==
  IF Unlike(expected, actual)
  THEN {Finding(rule, doc, field,
                IF <<expected, actual>> \in Similar THEN "ADVISORY" ELSE "MATERIAL")}
  ELSE {}

\* Mutant: only a shortage counts.
Shortage(field, doc, expected, actual) ==
  Breach(After(expected, actual), "ART14D", doc, field)

\* check_numeric_consistency
Number(field, doc, expected, actual) ==
  Breach(Unequal(expected, actual), "ART14D", doc, field)

\* x is at most the amount a plus the tolerance, in percent; and at least a less it.
AtMost(x, a, tolerance)  == 100 * x <= a * (100 + tolerance)
AtLeast(x, a, tolerance) == 100 * x >= a * (100 - tolerance)

Tolerance(lc) == IF lc.about_flag = TRUE THEN AboutTolerance ELSE 0

\* check_credit_amount_tolerance
CreditAmount(lc, amount, drawing) ==
  Breach(~ (/\ AtLeast(amount, lc.credit_amount, Tolerance(lc))
            /\ AtMost(amount, lc.credit_amount, Tolerance(lc))),
         "ART30A", "commercial_invoice", "invoice_amount")
  \cup Breach(~AtMost(drawing, lc.credit_amount, Tolerance(lc)),
              "ART30C", "commercial_invoice", "drawing_amount")

\* check_quantity_tolerance
QuantityTolerance(lcQuantity, presented, bulk, within) ==
  LET t == IF bulk /\ within THEN BulkTolerance ELSE 0
  IN  Breach(~ (AtLeast(presented, lcQuantity, t) /\ AtMost(presented, lcQuantity, t)),
             "ART30B", "commercial_invoice", "quantity")

\* A credit that asks for 0 days is read as one that says nothing.
AllowedDays(lc) ==
  IF lc.presentation_days \in {None, 0} THEN DefaultDays ELSE lc.presentation_days

\* check_presentation_period
PresentationPeriod(original, shipped, presented, lc) ==
  Breach(original /\ presented - shipped > AllowedDays(lc),
         "ART14C", "bill_of_lading", "presentation_date")
  \cup Breach(presented > lc.expiry_date, "ART14C", "bill_of_lading", "expiry_date")

ShipmentDate(bl) == IF bl.on_board_date # None THEN bl.on_board_date ELSE bl.bl_date

-------------------------------------------------------------------------------
(* One check per document *)

\* check_commercial_invoice.  Without a drawing the invoice is drawn in full.
CommercialInvoice(lc, invoice, drawing) ==
  Text("ART18", "commercial_invoice", "seller", lc.beneficiary, invoice.seller)
  \cup Breach(Unlike(lc.currency, invoice.currency), "ART18", "commercial_invoice", "currency")
  \cup Text("ART18", "commercial_invoice", "goods_description",
            lc.goods_description, invoice.goods_description)
  \cup If(lc.credit_amount # None /\ invoice.invoice_amount # None,
          CreditAmount(lc, invoice.invoice_amount,
                       IF drawing # None THEN drawing ELSE invoice.invoice_amount))

\* check_bill_of_lading
BillOfLading(lc, bl) ==
  Breach(bl.on_board_notation = FALSE, "ART20", "bill_of_lading", "on_board_notation")
  \cup Text("ART20", "bill_of_lading", "loading_port", lc.loading_port, bl.loading_port)
  \cup Text("ART20", "bill_of_lading", "discharge_port", lc.discharge_port, bl.discharge_port)
  \cup Breach(After(ShipmentDate(bl), lc.latest_shipment_date),
              "ART20", "bill_of_lading", "on_board_date")
  \cup Breach(bl.signature = FALSE, "ART20", "bill_of_lading", "carrier_or_master_signature")

\* check_partial_shipments.  A credit that does not say allows them.
PartialShipments(lc, bl) ==
  Breach(lc.partial_shipments = FALSE /\ bl.partial_shipment = TRUE,
         "ART31", "bill_of_lading", "partial_shipment_indicated")

\* check_insurance; bl may be None.
Insurance(lc, invoice, insurance, bl) ==
  Breach(/\ invoice.invoice_amount # None
         /\ insurance.insured_amount # None
         /\ 100 * insurance.insured_amount < invoice.invoice_amount * MinimumCoverage,
         "ART28", "insurance_certificate", "insured_amount")
  \cup Breach(Unlike(lc.currency, insurance.currency),
              "ART28", "insurance_certificate", "currency")
  \cup If(bl # None,
          Breach(After(insurance.effective_date, ShipmentDate(bl)),
                 "ART28", "insurance_certificate", "effective_date")
          \cup UNION {Text("ART28", "insurance_certificate", field, bl[field], insurance[field]) :
                        field \in {"goods_description", "vessel_name", "loading_port",
                                   "discharge_port"}})

-------------------------------------------------------------------------------
(* The evaluation.  The facts f of a case: the fields lc, invoice, bl,       *)
(* packing and insurance (None: no such fields), the types extracted, and    *)
(* the request: drawing, presented (the presentation date), original, bulk.  *)

\* check_document_completeness.  Each document counts as one original, no copy.
Missing(f) ==
  {q.type : q \in {r \in f.lc.required_documents :
     LET extracted == {d \in f.documents : d.type = r.type /\ d.status = "EXTRACTED"}
     IN  /\ r.required
         /\ \/ extracted = {}
            \/ Cardinality(extracted) < r.originals
            \/ r.copies > 0}}

\* Mutant: the bill of lading is compared with the credit only without an invoice.
CrossDocumentElse(lc, invoice, bl, packing) ==
  IF invoice # None
  THEN Text("ART14D", "commercial_invoice", "buyer", lc.applicant, invoice.buyer)
  ELSE If(bl # None, Text("ART14D", "bill_of_lading", "shipper", lc.beneficiary, bl.shipper))

\* _cross_document_checks
CrossDocument(lc, invoice, bl, packing) ==
  If(invoice # None,
     Text("ART14D", "commercial_invoice", "buyer", lc.applicant, invoice.buyer))
  \cup If(bl # None,
     Text("ART14D", "bill_of_lading", "shipper", lc.beneficiary, bl.shipper)
     \cup Text("ART14D", "bill_of_lading", "consignee", lc.applicant, bl.consignee))
  \cup If(invoice # None /\ bl # None,
     Text("ART14D", "bill_of_lading", "goods_description",
          invoice.goods_description, bl.goods_description)
     \cup Number("quantity", "bill_of_lading", invoice.quantity, bl.quantity)
     \cup Text("ART14D", "bill_of_lading", "vessel_name",
               invoice.vessel_name, bl.vessel_name))
  \cup If(invoice # None /\ packing # None,
     Text("ART14D", "packing_list", "goods_description",
          invoice.goods_description, packing.goods_description)
     \cup Number("total_quantity", "packing_list", invoice.quantity, packing.total_quantity))

\* The bulk tolerance needs a drawing within the credit; a drawing of 0 is read
\* as one not given.
Quantity(f) ==
  LET drawing == IF f.drawing \in {None, 0} THEN f.invoice.invoice_amount ELSE f.drawing
      within  == \/ drawing = None
                 \/ f.lc.credit_amount = None
                 \/ AtMost(drawing, f.lc.credit_amount, Tolerance(f.lc))
  IN  If(f.lc.quantity # None /\ f.invoice.quantity # None,
         QuantityTolerance(f.lc.quantity, f.invoice.quantity, f.bulk, within))

\* The period and the expiry are checked only when all three dates are there.
Period(f) ==
  If(ShipmentDate(f.bl) # None /\ f.presented # None /\ f.lc.expiry_date # None,
     PresentationPeriod(f.original, ShipmentDate(f.bl), f.presented, f.lc))

Discrepancies(f) ==
  If(f.invoice # None, CommercialInvoice(f.lc, f.invoice, f.drawing) \cup Quantity(f))
  \cup If(f.bl # None,
          BillOfLading(f.lc, f.bl) \cup PartialShipments(f.lc, f.bl) \cup Period(f))
  \cup If(f.invoice # None /\ f.insurance # None,
          Insurance(f.lc, f.invoice, f.insurance, f.bl))
  \cup CrossDocument(f.lc, f.invoice, f.bl, f.packing)

\* Nothing else is checked in an incomplete presentation.
evaluate_compliance(f) ==
  LET findings == IF Missing(f) # {} THEN {} ELSE Discrepancies(f)
  IN  [status   |-> IF Missing(f) # {} THEN "INCOMPLETE"
                    ELSE IF findings = {} THEN "COMPLIANT" ELSE "DISCREPANCY",
       missing  |-> Missing(f),
       findings |-> findings]
===============================================================================
