-------------------------- MODULE CaseAnalysisProofs --------------------------
(***************************************************************************)
(* Proofs about the compliance result and the DNA of a case, for any case  *)
(* file, any texts, any number of requests and any change of documents.    *)
(***************************************************************************)
EXTENDS CaseAnalysis, TLAPS, WellFoundedInduction, FiniteSetTheorems

-------------------------------------------------------------------------------
(* Single checks *)

\* The numbers and flags of the facts an evaluation rests on.
FactsOK(f) ==
  /\ f.lc \in Credits
  /\ f.invoice \in Maybe(Invoices)
  /\ f.bl \in Maybe(BillsOfLading)
  /\ f.packing \in Maybe(PackingLists)
  /\ f.insurance \in Maybe(Policies)
  /\ f.drawing \in Maybe(Int)
  /\ f.presented \in Maybe(Int)
  /\ f.original \in BOOLEAN
  /\ f.bulk \in BOOLEAN

\* Without a discrepancy no check of any document found one.
LEMMA NoDiscrepancy ==
  ASSUME NEW f, Discrepancies(f) = {}
  PROVE  /\ f.invoice # None => /\ CommercialInvoice(f.lc, f.invoice, f.drawing) = {}
                                /\ Quantity(f) = {}
         /\ f.bl # None => BillOfLading(f.lc, f.bl) = {} /\ Period(f) = {}
         /\ f.invoice # None /\ f.insurance # None =>
              Insurance(f.lc, f.invoice, f.insurance, f.bl) = {}
         /\ CrossDocument(f.lc, f.invoice, f.bl, f.packing) = {}
BY DEF Discrepancies, If

LEMMA InvoiceChecks ==
  ASSUME NEW lc, NEW invoice, NEW drawing, CommercialInvoice(lc, invoice, drawing) = {}
  PROVE  /\ ~Unlike(lc.beneficiary, invoice.seller)
         /\ ~Unlike(lc.currency, invoice.currency)
         /\ ~Unlike(lc.goods_description, invoice.goods_description)
         /\ lc.credit_amount # None /\ invoice.invoice_amount # None =>
              CreditAmount(lc, invoice.invoice_amount,
                           IF drawing # None THEN drawing ELSE invoice.invoice_amount) = {}
BY DEF CommercialInvoice, Text, Breach, If

LEMMA BillChecks ==
  ASSUME NEW lc, NEW bl, BillOfLading(lc, bl) = {}
  PROVE  /\ ~Unlike(lc.loading_port, bl.loading_port)
         /\ ~Unlike(lc.discharge_port, bl.discharge_port)
         /\ ~After(ShipmentDate(bl), lc.latest_shipment_date)
BY DEF BillOfLading, Text, Breach

LEMMA InsuranceChecks ==
  ASSUME NEW lc, NEW invoice, NEW insurance, NEW bl,
         Insurance(lc, invoice, insurance, bl) = {}
  PROVE  /\ invoice.invoice_amount # None /\ insurance.insured_amount # None =>
              ~(100 * insurance.insured_amount < invoice.invoice_amount * MinimumCoverage)
         /\ bl # None =>
              /\ ~After(insurance.effective_date, ShipmentDate(bl))
              /\ \A field \in {"goods_description", "vessel_name", "loading_port",
                               "discharge_port"} : ~Unlike(bl[field], insurance[field])
<1>1. bl # None => \A field \in {"goods_description", "vessel_name", "loading_port",
                                 "discharge_port"} :
                     Text("ART28", "insurance_certificate", field, bl[field], insurance[field]) = {}
  BY DEF Insurance, If
<1> QED
  BY <1>1 DEF Insurance, Breach, If, Text

LEMMA CrossChecks ==
  ASSUME NEW lc, NEW invoice, NEW bl, NEW packing,
         CrossDocument(lc, invoice, bl, packing) = {}
  PROVE  /\ invoice # None => ~Unlike(lc.applicant, invoice.buyer)
         /\ bl # None => /\ ~Unlike(lc.beneficiary, bl.shipper)
                         /\ ~Unlike(lc.applicant, bl.consignee)
         /\ invoice # None /\ bl # None =>
              /\ ~Unlike(invoice.goods_description, bl.goods_description)
              /\ ~Unequal(invoice.quantity, bl.quantity)
              /\ ~Unlike(invoice.vessel_name, bl.vessel_name)
         /\ invoice # None /\ packing # None =>
              /\ ~Unlike(invoice.goods_description, packing.goods_description)
              /\ ~Unequal(invoice.quantity, packing.total_quantity)
BY DEF CrossDocument, Text, Number, Breach, If

-------------------------------------------------------------------------------
(* A presentation without findings conforms to the credit *)

\* Texts none of which is unlike the centre agree with it and each other.
LEMMA AgreeIfAlike ==
  ASSUME NEW centre, NEW S, \A v \in S : ~Unlike(centre, v)
  PROVE  Agree(centre, S)
BY DEF Agree, OneText, Unlike

LEMMA PartiesLemma ==
  ASSUME NEW f, Discrepancies(f) = {}
  PROVE  PartiesAgree(f)
<1>1. \A v \in {Said(f.invoice, "seller"), Said(f.bl, "shipper")} :
        ~Unlike(f.lc.beneficiary, v)
  BY NoDiscrepancy, InvoiceChecks, CrossChecks DEF Said, Unlike
<1>2. \A v \in {Said(f.invoice, "buyer"), Said(f.bl, "consignee")} :
        ~Unlike(f.lc.applicant, v)
  BY NoDiscrepancy, CrossChecks DEF Said, Unlike
<1> QED
  BY <1>1, <1>2, AgreeIfAlike DEF PartiesAgree

LEMMA GoodsLemma ==
  ASSUME NEW f, Discrepancies(f) = {}
  PROVE  GoodsAgree(f)
<1> DEFINE credit  == f.lc.goods_description
           invoice == Said(f.invoice, "goods_description")
           bl      == Said(f.bl, "goods_description")
           packing == Said(f.packing, "goods_description")
           cover   == Said(Cover(f), "goods_description")
<1>1. ~Unlike(credit, invoice) /\ ~Unlike(invoice, bl) /\ ~Unlike(invoice, packing)
  BY NoDiscrepancy, InvoiceChecks, CrossChecks DEF Said, Unlike
<1>2. ~Unlike(bl, cover)
  <2>1. CASE Cover(f) = None \/ f.bl = None
    BY <2>1 DEF Said, Unlike
  <2>2. CASE Cover(f) # None /\ f.bl # None
    <3>1. f.invoice # None /\ f.insurance # None /\ Cover(f) = f.insurance
      BY <2>2 DEF Cover
    <3>2. ~Unlike(f.bl["goods_description"], f.insurance["goods_description"])
      BY <2>2, <3>1, NoDiscrepancy, InsuranceChecks
    <3> QED
      BY <2>2, <3>1, <3>2 DEF Said
  <2> QED
    BY <2>1, <2>2
<1> HIDE DEF credit, invoice, bl, packing, cover
<1>3. Agree(invoice, {credit, bl, packing})
  BY <1>1 DEF Agree, OneText, Unlike
<1>4. ASSUME invoice # None, bl # None
      PROVE  OneText({credit, invoice, bl, packing, cover})
  BY <1>1, <1>2, <1>4 DEF OneText, Unlike
<1> QED
  BY <1>3, <1>4 DEF GoodsAgree, credit, invoice, bl, packing, cover

LEMMA VoyageLemma ==
  ASSUME NEW f, Discrepancies(f) = {}
  PROVE  VoyageAgrees(f)
<1>1. ASSUME Cover(f) # None, f.bl # None,
             NEW field \in {"vessel_name", "loading_port", "discharge_port"}
      PROVE  ~Unlike(f.bl[field], Cover(f)[field])
  <2>1. f.invoice # None /\ f.insurance # None /\ Cover(f) = f.insurance
    BY <1>1 DEF Cover
  <2> QED
    BY <1>1, <2>1, NoDiscrepancy, InsuranceChecks
<1>2. \A field \in {"vessel_name", "loading_port", "discharge_port"} :
        ~Unlike(Said(f.bl, field), Said(Cover(f), field))
  BY <1>1 DEF Said, Unlike
<1>3. ~Unlike(Said(f.bl, "vessel_name"), Said(f.invoice, "vessel_name"))
  BY NoDiscrepancy, CrossChecks DEF Said, Unlike
<1>4. \A port \in {"loading_port", "discharge_port"} :
        ~Unlike(Said(f.bl, port), f.lc[port])
  BY NoDiscrepancy, BillChecks DEF Said, Unlike
<1>5. Agree(Said(f.bl, "vessel_name"),
            {Said(f.invoice, "vessel_name"), Said(Cover(f), "vessel_name")})
  BY <1>2, <1>3, AgreeIfAlike
<1>6. \A port \in {"loading_port", "discharge_port"} :
        Agree(Said(f.bl, port), {f.lc[port], Said(Cover(f), port)})
  BY <1>2, <1>4, AgreeIfAlike
<1> QED
  BY <1>5, <1>6 DEF VoyageAgrees

LEMMA MoneyLemma ==
  ASSUME NEW f, FactsOK(f), Discrepancies(f) = {}
  PROVE  MoneyIsBounded(f)
<1> DEFINE credit == f.lc.credit_amount
           amount == Said(f.invoice, "invoice_amount")
           drawn  == IF f.drawing # None THEN f.drawing ELSE amount
           cover  == Said(Cover(f), "insured_amount")
           t      == Tolerance(f.lc)
<1> SUFFICES ASSUME credit # None, amount # None
             PROVE  /\ 100 * drawn <= credit * (100 + t)
                    /\ cover # None =>
                         10000 * cover >= credit * (100 - t) * MinimumCoverage
  BY DEF MoneyIsBounded
<1>1. f.invoice # None /\ amount = f.invoice.invoice_amount /\ f.invoice \in Invoices
  BY DEF Said, FactsOK, Maybe
<1>2. credit \in Int /\ amount \in Int /\ t \in {0, 10}
  BY <1>1 DEF FactsOK, Credits, Invoices, Maybe, Tolerance, AboutTolerance
<1>3. CreditAmount(f.lc, amount, drawn) = {}
  BY <1>1, NoDiscrepancy, InvoiceChecks
<1>4. AtMost(drawn, credit, t) /\ AtLeast(amount, credit, t)
  BY <1>3 DEF CreditAmount, Breach
<1>5. ASSUME cover # None
      PROVE  10000 * cover >= credit * (100 - t) * MinimumCoverage
  <2>1. f.insurance # None /\ cover = f.insurance.insured_amount /\ f.insurance \in Policies
    BY <1>1, <1>5 DEF Cover, Said, FactsOK, Maybe
  <2>2. cover \in Int
    BY <1>5, <2>1 DEF Policies, Maybe
  <2>3. ~(100 * cover < amount * 110)
    BY <1>1, <1>5, <2>1, NoDiscrepancy, InsuranceChecks DEF MinimumCoverage
  <2> HIDE DEF cover, credit, amount, t
  <2>4. 100 * amount >= credit * (100 - t)
    BY <1>4 DEF AtLeast
  <2> QED
    BY <1>2, <2>2, <2>3, <2>4 DEF MinimumCoverage
<1> QED
  BY <1>4, <1>5 DEF AtMost

LEMMA CountLemma ==
  ASSUME NEW f, FactsOK(f), Discrepancies(f) = {}
  PROVE  GoodsAreCounted(f)
<1> DEFINE ordered  == f.lc.quantity
           invoiced == Said(f.invoice, "quantity")
           near(q)  == f.bulk /\ AtMost(q, ordered, BulkTolerance)
                              /\ AtLeast(q, ordered, BulkTolerance)
<1> SUFFICES ASSUME invoiced # None,
                    NEW q \in {invoiced, Said(f.bl, "quantity"),
                               Said(f.packing, "total_quantity")} \ {None}
             PROVE  q = invoiced /\ (ordered # None => q = ordered \/ near(q))
  BY DEF GoodsAreCounted
<1>1. f.invoice # None /\ invoiced = f.invoice.quantity /\ f.invoice \in Invoices
  BY DEF Said, FactsOK, Maybe
<1>2. q = invoiced
  BY <1>1, NoDiscrepancy, CrossChecks DEF Said, Unequal
<1>3. ASSUME ordered # None PROVE invoiced = ordered \/ near(invoiced)
  <2>1. invoiced \in Int /\ ordered \in Int
    BY <1>1, <1>3 DEF FactsOK, Credits, Invoices, Maybe
  <2>2. Quantity(f) = {}
    BY <1>1, NoDiscrepancy
  <2>3. PICK within : QuantityTolerance(ordered, invoiced, f.bulk, within) = {}
    BY <1>1, <1>3, <2>2 DEF Quantity, If
  <2>4. LET t == IF f.bulk /\ within THEN BulkTolerance ELSE 0
        IN  AtLeast(invoiced, ordered, t) /\ AtMost(invoiced, ordered, t)
    BY <2>3 DEF QuantityTolerance, Breach
  <2>5. CASE f.bulk /\ within
    BY <2>4, <2>5
  <2>6. CASE ~(f.bulk /\ within)
    <3>1. AtLeast(invoiced, ordered, 0) /\ AtMost(invoiced, ordered, 0)
      BY <2>4, <2>6
    <3> HIDE DEF invoiced, ordered
    <3>2. invoiced = ordered
      BY <2>1, <3>1 DEF AtLeast, AtMost
    <3> QED
      BY <3>2
  <2> QED
    BY <2>5, <2>6
<1> QED
  BY <1>2, <1>3

LEMMA TimeLemma ==
  ASSUME NEW f, FactsOK(f), Discrepancies(f) = {}
  PROVE  InTime(f)
<1> DEFINE shipped == IF f.bl = None THEN None ELSE ShipmentDate(f.bl)
           latest  == f.lc.latest_shipment_date
           expiry  == f.lc.expiry_date
           insured == Said(Cover(f), "effective_date")
<1> SUFFICES ASSUME shipped # None
             PROVE  /\ latest # None => /\ shipped <= latest
                                        /\ insured # None => insured <= latest
                    /\ f.presented # None /\ expiry # None =>
                         /\ f.presented <= expiry
                         /\ f.original => f.presented <= shipped + AllowedDays(f.lc)
  BY DEF InTime, Said
<1>1. f.bl # None /\ f.bl \in BillsOfLading /\ shipped = ShipmentDate(f.bl)
  BY DEF FactsOK, Maybe
<1>2. shipped \in Int
  BY <1>1 DEF ShipmentDate, BillsOfLading, Maybe
<1>3. ASSUME latest # None PROVE latest \in Int /\ shipped <= latest
  <2>1. latest \in Int
    BY <1>3 DEF FactsOK, Credits, Maybe
  <2>2. ~After(shipped, latest)
    BY <1>1, NoDiscrepancy, BillChecks
  <2> QED
    BY <1>2, <1>3, <2>1, <2>2 DEF After
<1>4. ASSUME insured # None PROVE insured \in Int /\ insured <= shipped
  <2>1. /\ f.invoice # None /\ f.insurance # None /\ f.insurance \in Policies
        /\ insured = f.insurance.effective_date
    BY <1>4 DEF Cover, Said, FactsOK, Maybe
  <2>2. insured \in Int
    BY <1>4, <2>1 DEF Policies, Maybe
  <2>3. ~After(insured, shipped)
    BY <1>1, <2>1, NoDiscrepancy, InsuranceChecks
  <2> QED
    BY <1>2, <1>4, <2>2, <2>3 DEF After
<1>5. ASSUME f.presented # None, expiry # None
      PROVE  /\ f.presented <= expiry
             /\ f.original => f.presented <= shipped + AllowedDays(f.lc)
  <2>1. f.presented \in Int /\ expiry \in Int /\ AllowedDays(f.lc) \in Int
    BY <1>5 DEF FactsOK, Credits, Maybe, AllowedDays, DefaultDays
  <2>2. PresentationPeriod(f.original, shipped, f.presented, f.lc) = {}
    BY <1>1, <1>5, NoDiscrepancy DEF Period, If
  <2>3. /\ ~(f.original /\ f.presented - shipped > AllowedDays(f.lc))
        /\ ~(f.presented > expiry)
    BY <2>2 DEF PresentationPeriod, Breach
  <2> HIDE DEF shipped, expiry
  <2> QED
    BY <1>2, <2>1, <2>3
<1> HIDE DEF shipped, latest, insured, expiry
<1>6. latest # None /\ insured # None => insured <= latest
  BY <1>2, <1>3, <1>4
<1> QED
  BY <1>3, <1>5, <1>6

LEMMA CoveredLemma ==
  ASSUME NEW f, FactsOK(f), Missing(f) = {}
  PROVE  Covered(f)
<1> SUFFICES ASSUME NEW r \in f.lc.required_documents, r.required
             PROVE  /\ \E d \in f.documents : d.type = r.type /\ d.status = "EXTRACTED"
                    /\ r.copies <= 0
  BY DEF Covered
<1> DEFINE extracted == {d \in f.documents : d.type = r.type /\ d.status = "EXTRACTED"}
<1>1. ~(extracted = {} \/ r.copies > 0)
  BY DEF Missing
<1>2. r.copies \in Int
  BY DEF FactsOK, Credits, Requirement
<1> QED
  BY <1>1, <1>2

LEMMA CompliantMeansConforms ==
  ASSUME NEW f, FactsOK(f), evaluate_compliance(f).status = "COMPLIANT"
  PROVE  Conforms(f)
<1>1. Missing(f) = {} /\ Discrepancies(f) = {}
  BY DEF evaluate_compliance
<1> QED
  BY <1>1, CoveredLemma, PartiesLemma, GoodsLemma, VoyageLemma, MoneyLemma, CountLemma,
     TimeLemma DEF Conforms

-------------------------------------------------------------------------------
(* A presentation without fault has no findings *)

\* Texts of which no two differ leave nothing for a check of texts to find.
LEMMA OneTextIsAlike ==
  ASSUME NEW S, OneText(S), NEW v \in S, NEW w \in S
  PROVE  ~Unlike(v, w)
BY DEF OneText, Unlike

LEMMA SameTextsAlike ==
  ASSUME NEW f, SameTexts(f)
  PROVE  /\ f.invoice # None =>
              /\ ~Unlike(f.lc.beneficiary, f.invoice.seller)
              /\ ~Unlike(f.lc.applicant, f.invoice.buyer)
              /\ ~Unlike(f.lc.currency, f.invoice.currency)
              /\ ~Unlike(f.lc.goods_description, f.invoice.goods_description)
         /\ f.bl # None =>
              /\ ~Unlike(f.lc.beneficiary, f.bl.shipper)
              /\ ~Unlike(f.lc.applicant, f.bl.consignee)
              /\ ~Unlike(f.lc.loading_port, f.bl.loading_port)
              /\ ~Unlike(f.lc.discharge_port, f.bl.discharge_port)
         /\ f.insurance # None => ~Unlike(f.lc.currency, f.insurance.currency)
         /\ f.invoice # None /\ f.bl # None =>
              /\ ~Unlike(f.invoice.goods_description, f.bl.goods_description)
              /\ ~Unlike(f.invoice.vessel_name, f.bl.vessel_name)
         /\ f.invoice # None /\ f.packing # None =>
              ~Unlike(f.invoice.goods_description, f.packing.goods_description)
         /\ f.insurance # None /\ f.bl # None =>
              \A field \in {"goods_description", "vessel_name", "loading_port",
                            "discharge_port"} : ~Unlike(f.bl[field], f.insurance[field])
<1> DEFINE sellers == {f.lc.beneficiary, Said(f.invoice, "seller"), Said(f.bl, "shipper")}
           buyers  == {f.lc.applicant, Said(f.invoice, "buyer"), Said(f.bl, "consignee")}
           money   == {f.lc.currency, Said(f.invoice, "currency"), Said(f.insurance, "currency")}
           vessels == {Said(d, "vessel_name") : d \in {f.invoice, f.bl, f.insurance}}
           loads   == {f.lc.loading_port, Said(f.bl, "loading_port"),
                       Said(f.insurance, "loading_port")}
           lands   == {f.lc.discharge_port, Said(f.bl, "discharge_port"),
                       Said(f.insurance, "discharge_port")}
           goods   == {f.lc.goods_description}
                      \cup {Said(d, "goods_description") :
                              d \in {f.invoice, f.bl, f.packing, f.insurance}}
<1>1. /\ OneText(sellers) /\ OneText(buyers) /\ OneText(money) /\ OneText(vessels)
      /\ OneText(loads) /\ OneText(lands) /\ OneText(goods)
  BY DEF SameTexts
<1>2. \A d, field : d # None => Said(d, field) = d[field]
  BY DEF Said
<1>3. /\ \A v, w \in sellers : ~Unlike(v, w)
      /\ \A v, w \in buyers : ~Unlike(v, w)
      /\ \A v, w \in money : ~Unlike(v, w)
      /\ \A v, w \in vessels : ~Unlike(v, w)
      /\ \A v, w \in loads : ~Unlike(v, w)
      /\ \A v, w \in lands : ~Unlike(v, w)
      /\ \A v, w \in goods : ~Unlike(v, w)
  BY <1>1, OneTextIsAlike
<1>4. /\ \A d, e \in {f.invoice, f.bl, f.insurance} :
           ~Unlike(Said(d, "vessel_name"), Said(e, "vessel_name"))
      /\ \A d, e \in {f.invoice, f.bl, f.packing, f.insurance} :
           ~Unlike(Said(d, "goods_description"), Said(e, "goods_description"))
      /\ ~Unlike(f.lc.goods_description, Said(f.invoice, "goods_description"))
  BY <1>3
<1>5. \A port \in {"loading_port", "discharge_port"} :
        /\ ~Unlike(f.lc[port], Said(f.bl, port))
        /\ ~Unlike(Said(f.bl, port), Said(f.insurance, port))
  BY <1>3
<1>6. /\ ~Unlike(f.lc.beneficiary, Said(f.invoice, "seller"))
      /\ ~Unlike(f.lc.beneficiary, Said(f.bl, "shipper"))
      /\ ~Unlike(f.lc.applicant, Said(f.invoice, "buyer"))
      /\ ~Unlike(f.lc.applicant, Said(f.bl, "consignee"))
      /\ ~Unlike(f.lc.currency, Said(f.invoice, "currency"))
      /\ ~Unlike(f.lc.currency, Said(f.insurance, "currency"))
  BY <1>3
<1> HIDE DEF sellers, buyers, money, vessels, loads, lands, goods
<1>7. ASSUME f.insurance # None, f.bl # None,
             NEW field \in {"goods_description", "vessel_name", "loading_port",
                            "discharge_port"}
      PROVE  ~Unlike(f.bl[field], f.insurance[field])
  <2>1. ~Unlike(Said(f.bl, field), Said(f.insurance, field))
    BY <1>4, <1>5, <1>7
  <2> QED
    BY <1>2, <1>7, <2>1
<1>8. f.invoice # None /\ f.bl # None =>
        /\ ~Unlike(f.invoice.goods_description, f.bl.goods_description)
        /\ ~Unlike(f.invoice.vessel_name, f.bl.vessel_name)
  BY <1>2, <1>4
<1>9. f.invoice # None /\ f.packing # None =>
         ~Unlike(f.invoice.goods_description, f.packing.goods_description)
  BY <1>2, <1>4
<1>10. f.insurance # None => ~Unlike(f.lc.currency, f.insurance.currency)
  BY <1>2, <1>6
<1>11. f.invoice # None =>
         /\ ~Unlike(f.lc.beneficiary, f.invoice.seller)
         /\ ~Unlike(f.lc.applicant, f.invoice.buyer)
         /\ ~Unlike(f.lc.currency, f.invoice.currency)
         /\ ~Unlike(f.lc.goods_description, f.invoice.goods_description)
  BY <1>2, <1>4, <1>6
<1>12. f.bl # None =>
         /\ ~Unlike(f.lc.beneficiary, f.bl.shipper)
         /\ ~Unlike(f.lc.applicant, f.bl.consignee)
         /\ ~Unlike(f.lc.loading_port, f.bl.loading_port)
         /\ ~Unlike(f.lc.discharge_port, f.bl.discharge_port)
  BY <1>2, <1>4, <1>5, <1>6
<1> QED
  BY <1>7, <1>8, <1>9, <1>10, <1>11, <1>12

LEMMA FaultlessInvoice ==
  ASSUME NEW f, FactsOK(f), Faultless(f), f.invoice # None
  PROVE  CommercialInvoice(f.lc, f.invoice, f.drawing) \cup Quantity(f) = {}
<1> DEFINE credit  == f.lc.credit_amount
           amount  == f.invoice.invoice_amount
           t       == Tolerance(f.lc)
           ordered == f.lc.quantity
           q       == f.invoice.quantity
<1>1. /\ Said(f.invoice, "invoice_amount") = amount
      /\ Said(f.invoice, "quantity") = q
      /\ f.invoice \in Invoices
  BY DEF Said, FactsOK, Maybe
<1>2. ASSUME credit # None
      PROVE  /\ amount # None => AtMost(amount, credit, t) /\ AtLeast(amount, credit, t)
             /\ f.drawing # None => AtMost(f.drawing, credit, t)
  BY <1>1, <1>2 DEF Faultless, FaultlessMoney
<1>3. credit # None /\ amount # None =>
        CreditAmount(f.lc, amount, IF f.drawing # None THEN f.drawing ELSE amount) = {}
  BY <1>2 DEF CreditAmount, Breach
<1>4. CommercialInvoice(f.lc, f.invoice, f.drawing) = {}
  BY <1>3, SameTextsAlike DEF Faultless, CommercialInvoice, Text, Breach, If
<1>5. ASSUME ordered # None, q # None
      PROVE  Quantity(f) = {}
  <2> DEFINE drawing == IF f.drawing \in {None, 0} THEN amount ELSE f.drawing
             within  == \/ drawing = None
                        \/ credit = None
                        \/ AtMost(drawing, credit, t)
  <2>1. within
    BY <1>2
  <2>2. ordered \in Int /\ q \in Int
    BY <1>1, <1>5 DEF FactsOK, Credits, Invoices, Maybe
  <2>3. IF f.bulk
        THEN AtLeast(q, ordered, BulkTolerance) /\ AtMost(q, ordered, BulkTolerance)
        ELSE q = ordered
    BY <1>1, <1>5 DEF Faultless, FaultlessGoods
  <2> HIDE DEF ordered, q
  <2>4. QuantityTolerance(ordered, q, f.bulk, TRUE) = {}
    <3>1. CASE f.bulk
      BY <2>3, <3>1 DEF QuantityTolerance, Breach
    <3>2. CASE ~f.bulk
      <4>1. AtLeast(q, ordered, 0) /\ AtMost(q, ordered, 0)
        BY <2>2, <2>3, <3>2 DEF AtLeast, AtMost
      <4> QED
        BY <3>2, <4>1 DEF QuantityTolerance, Breach
    <3> QED
      BY <3>1, <3>2
  <2>5. Quantity(f) = If(ordered # None /\ q # None,
                         QuantityTolerance(ordered, q, f.bulk, within))
    BY DEF Quantity, ordered, q
  <2> HIDE DEF within
  <2>6. QuantityTolerance(ordered, q, f.bulk, within)
          = QuantityTolerance(ordered, q, f.bulk, TRUE)
    BY <2>1 DEF QuantityTolerance
  <2> QED
    BY <2>4, <2>5, <2>6 DEF If
<1>6. Quantity(f) = {}
  BY <1>5 DEF Quantity, If
<1> QED
  BY <1>4, <1>6

LEMMA FaultlessBill ==
  ASSUME NEW f, FactsOK(f), Faultless(f), f.bl # None
  PROVE  BillOfLading(f.lc, f.bl) \cup PartialShipments(f.lc, f.bl) \cup Period(f) = {}
<1> DEFINE shipped == ShipmentDate(f.bl)
<1>1. /\ f.bl.on_board_notation # FALSE /\ f.bl.signature # FALSE
      /\ f.lc.partial_shipments = FALSE => f.bl.partial_shipment # TRUE
      /\ InOrder(shipped, f.lc.latest_shipment_date)
      /\ InOrder(f.presented, f.lc.expiry_date)
      /\ shipped # None /\ f.presented # None => f.presented <= shipped + AllowedDays(f.lc)
  BY DEF Faultless, FaultlessVoyage
<1>2. f.bl \in BillsOfLading
  BY DEF FactsOK, Maybe
<1>3. shipped \in Maybe(Int) /\ f.lc.latest_shipment_date \in Maybe(Int)
      /\ f.presented \in Maybe(Int) /\ f.lc.expiry_date \in Maybe(Int) /\ AllowedDays(f.lc) \in Int
  BY <1>2 DEF FactsOK, Credits, BillsOfLading, ShipmentDate, Maybe, AllowedDays, DefaultDays
<1> HIDE DEF shipped
<1>4. ~After(shipped, f.lc.latest_shipment_date)
  BY <1>1, <1>3 DEF After, InOrder, Maybe
<1>5. BillOfLading(f.lc, f.bl) = {}
  BY <1>1, <1>4, SameTextsAlike DEF Faultless, BillOfLading, Text, Breach, shipped
<1>6. PartialShipments(f.lc, f.bl) = {}
  BY <1>1 DEF PartialShipments, Breach
<1>7. ASSUME shipped # None, f.presented # None, f.lc.expiry_date # None
      PROVE  PresentationPeriod(f.original, shipped, f.presented, f.lc) = {}
  <2>1. /\ ~(f.presented - shipped > AllowedDays(f.lc))
        /\ ~(f.presented > f.lc.expiry_date)
    BY <1>1, <1>3, <1>7 DEF InOrder, Maybe
  <2> QED
    BY <2>1 DEF PresentationPeriod, Breach
<1>8. Period(f) = {}
  BY <1>7 DEF Period, If, shipped
<1> QED
  BY <1>5, <1>6, <1>8

LEMMA FaultlessCover ==
  ASSUME NEW f, FactsOK(f), Faultless(f), f.invoice # None, f.insurance # None
  PROVE  Insurance(f.lc, f.invoice, f.insurance, f.bl) = {}
<1> DEFINE amount  == f.invoice.invoice_amount
           cover   == f.insurance.insured_amount
           insured == f.insurance.effective_date
<1>1. /\ Said(f.invoice, "invoice_amount") = amount
      /\ Said(f.insurance, "insured_amount") = cover
      /\ Said(f.insurance, "effective_date") = insured
      /\ f.invoice \in Invoices /\ f.insurance \in Policies
  BY DEF Said, FactsOK, Maybe
<1>2. /\ amount \in Maybe(Int) /\ cover \in Maybe(Int) /\ insured \in Maybe(Int)
      /\ f.bl # None => ShipmentDate(f.bl) \in Maybe(Int)
  BY <1>1 DEF Invoices, Policies, FactsOK, BillsOfLading, ShipmentDate, Maybe
<1>3. amount # None /\ cover # None => 100 * cover >= amount * MinimumCoverage
  BY <1>1 DEF Faultless, FaultlessMoney
<1>4. f.bl # None => InOrder(insured, ShipmentDate(f.bl))
  BY <1>1 DEF Faultless, FaultlessVoyage
<1>5. /\ ~Unlike(f.lc.currency, f.insurance.currency)
      /\ f.bl # None =>
           \A field \in {"goods_description", "vessel_name", "loading_port", "discharge_port"} :
             Text("ART28", "insurance_certificate", field, f.bl[field], f.insurance[field]) = {}
  BY SameTextsAlike DEF Faultless, Text
<1>6. amount # None /\ cover # None => ~(100 * cover < amount * MinimumCoverage)
  <2> HIDE DEF amount, cover
  <2> QED
    BY <1>2, <1>3 DEF Maybe, MinimumCoverage
<1>7. f.bl # None => ~After(insured, ShipmentDate(f.bl))
  BY <1>2, <1>4 DEF After, InOrder, Maybe
<1> QED
  BY <1>5, <1>6, <1>7 DEF Insurance, Breach, If

LEMMA FaultlessTogether ==
  ASSUME NEW f, Faultless(f)
  PROVE  CrossDocument(f.lc, f.invoice, f.bl, f.packing) = {}
<1>1. /\ f.invoice # None /\ f.bl # None => ~Unequal(f.invoice.quantity, f.bl.quantity)
      /\ f.invoice # None /\ f.packing # None =>
           ~Unequal(f.invoice.quantity, f.packing.total_quantity)
  BY DEF Faultless, FaultlessGoods, Said, Unequal
<1> QED
  BY <1>1, SameTextsAlike DEF Faultless, CrossDocument, Text, Number, Breach, If

LEMMA NothingMissing ==
  ASSUME NEW f, FactsOK(f), IsFiniteSet(f.documents), Faultless(f)
  PROVE  Missing(f) = {}
<1> SUFFICES ASSUME NEW r \in f.lc.required_documents, r.required
             PROVE  LET E == {d \in f.documents : d.type = r.type /\ d.status = "EXTRACTED"}
                    IN  E # {} /\ ~(Cardinality(E) < r.originals) /\ ~(r.copies > 0)
  BY DEF Missing
<1> DEFINE E == {d \in f.documents : d.type = r.type /\ d.status = "EXTRACTED"}
<1>1. E # {} /\ r.copies <= 0 /\ r.originals <= Cardinality(E)
  BY DEF Faultless, Covered
<1>2. Cardinality(E) \in Nat
  BY FS_Subset, FS_CardinalityType
<1>3. r.copies \in Int /\ r.originals \in Int
  BY DEF FactsOK, Credits, Requirement
<1> HIDE DEF E
<1>4. E # {} /\ ~(Cardinality(E) < r.originals) /\ ~(r.copies > 0)
  BY <1>1, <1>2, <1>3
<1> QED
  BY <1>4 DEF E

LEMMA FaultlessPasses ==
  ASSUME NEW f, FactsOK(f), IsFiniteSet(f.documents), Faultless(f)
  PROVE  evaluate_compliance(f).status = "COMPLIANT"
<1>1. Discrepancies(f) = {}
  BY FaultlessInvoice, FaultlessBill, FaultlessCover, FaultlessTogether
  DEF Discrepancies, If
<1> QED
  BY <1>1, NothingMissing DEF evaluate_compliance

-------------------------------------------------------------------------------
(* More documents, more findings *)

\* What was complete stays complete.
LEMMA CompleteStaysComplete ==
  ASSUME NEW f, NEW g, FactsOK(f), FactsOK(g), Grows(f, g), IsFiniteSet(g.documents),
         Missing(f) = {}
  PROVE  Missing(g) = {}
<1> SUFFICES ASSUME NEW r \in g.lc.required_documents, r.required
             PROVE  LET E == {d \in g.documents : d.type = r.type /\ d.status = "EXTRACTED"}
                    IN  E # {} /\ ~(Cardinality(E) < r.originals) /\ ~(r.copies > 0)
  BY DEF Missing
<1> DEFINE E(x) == {d \in x.documents : d.type = r.type /\ d.status = "EXTRACTED"}
<1>1. r \in f.lc.required_documents
  BY DEF Grows
<1>2. E(f) # {} /\ ~(Cardinality(E(f)) < r.originals) /\ ~(r.copies > 0)
  BY <1>1 DEF Missing
<1>3. E(f) \subseteq E(g)
  BY DEF Grows
<1>4. IsFiniteSet(E(g))
  BY FS_Subset
<1>5. /\ Cardinality(E(f)) \in Nat
      /\ Cardinality(E(g)) \in Nat
      /\ Cardinality(E(f)) <= Cardinality(E(g))
  BY <1>3, <1>4, FS_Subset, FS_CardinalityType
<1>6. r.originals \in Int
  BY DEF FactsOK, Credits, Requirement
<1> HIDE DEF E
<1>7. E(g) # {} /\ ~(Cardinality(E(g)) < r.originals) /\ ~(r.copies > 0)
  BY <1>2, <1>3, <1>5, <1>6
<1> QED
  BY <1>7 DEF E

\* What was found is found again.
LEMMA FindingsStay ==
  ASSUME NEW f, NEW g, Grows(f, g)
  PROVE  Discrepancies(f) \subseteq Discrepancies(g)
<1>1. /\ f.lc = g.lc /\ f.drawing = g.drawing /\ f.presented = g.presented
      /\ f.original = g.original /\ f.bulk = g.bulk
  BY DEF Grows
<1>2. /\ f.invoice \in {None, g.invoice}
      /\ f.bl \in {None, g.bl}
      /\ f.packing \in {None, g.packing}
      /\ f.insurance \in {None, g.insurance}
  BY DEF Grows
<1>3. ASSUME f.invoice # None
      PROVE  Quantity(f) = Quantity(g)
  BY <1>1, <1>2, <1>3 DEF Quantity
<1>4. ASSUME f.bl # None
      PROVE  Period(f) = Period(g)
  BY <1>1, <1>2, <1>4 DEF Period
<1>5. ASSUME f.invoice # None, f.insurance # None
      PROVE  Insurance(f.lc, f.invoice, f.insurance, f.bl) \subseteq
               Insurance(g.lc, g.invoice, g.insurance, g.bl)
  <2>1. f.lc = g.lc /\ f.invoice = g.invoice /\ f.insurance = g.insurance
    BY <1>1, <1>2, <1>5
  <2>2. CASE f.bl = g.bl
    BY <2>1, <2>2
  <2>3. CASE f.bl = None
    <3>1. ASSUME NEW bl, NEW finding \in Insurance(g.lc, g.invoice, g.insurance, None)
          PROVE  finding \in Insurance(g.lc, g.invoice, g.insurance, bl)
      BY <3>1, Zenon DEF Insurance, If
    <3> QED
      BY <2>1, <2>3, <3>1
  <2> QED
    BY <1>2, <2>2, <2>3
<1>6. CrossDocument(f.lc, f.invoice, f.bl, f.packing) \subseteq
        CrossDocument(g.lc, g.invoice, g.bl, g.packing)
  BY <1>1, <1>2 DEF CrossDocument, If
<1>7. If(f.invoice # None, CommercialInvoice(f.lc, f.invoice, f.drawing) \cup Quantity(f))
      \subseteq
      If(g.invoice # None, CommercialInvoice(g.lc, g.invoice, g.drawing) \cup Quantity(g))
  BY <1>1, <1>2, <1>3 DEF If
<1>8. If(f.bl # None, BillOfLading(f.lc, f.bl) \cup PartialShipments(f.lc, f.bl) \cup Period(f))
      \subseteq
      If(g.bl # None, BillOfLading(g.lc, g.bl) \cup PartialShipments(g.lc, g.bl) \cup Period(g))
  BY <1>1, <1>2, <1>4 DEF If
<1>9. If(f.invoice # None /\ f.insurance # None,
         Insurance(f.lc, f.invoice, f.insurance, f.bl))
      \subseteq
      If(g.invoice # None /\ g.insurance # None,
         Insurance(g.lc, g.invoice, g.insurance, g.bl))
  BY <1>2, <1>5 DEF If
<1> QED
  BY <1>6, <1>7, <1>8, <1>9 DEF Discrepancies

-------------------------------------------------------------------------------
(* The DNA *)

LEMMA FirstExists ==
  ASSUME NEW S \in SUBSET Nat, S # {}
  PROVE  FirstOf(S) \in S /\ \A j \in S : FirstOf(S) <= j
<1> DEFINE R == OpToRel(<, Nat)
<1>1. \E x \in S : \A y \in S : ~ (<<y, x>> \in R)
  BY NatLessThanWellFounded, WFMin
<1>2. \A x, y \in Nat : <<y, x>> \in R <=> y < x
  BY DEF OpToRel
<1> HIDE DEF R
<1>3. PICK x \in S : \A y \in S : ~ (<<y, x>> \in R)
  BY <1>1
<1>4. ASSUME NEW y \in S PROVE x <= y
  <2>1. x \in Nat /\ y \in Nat
    OBVIOUS
  <2>2. ~(y < x)
    BY <1>2, <1>3, <2>1, Zenon
  <2> QED
    BY <2>1, <2>2
<1> QED
  BY <1>4 DEF FirstOf

\* A value was read from an extraction of its type.
LEMMA ValueHeld ==
  ASSUME NEW es, DOMAIN es \subseteq Nat, NEW type, NEW field,
         Value(Extraction(es, type), field) # None
  PROVE  \E i \in DOMAIN es :
           /\ es[i].type = type
           /\ es[i].fields # None
           /\ es[i].fields[field] = Value(Extraction(es, type), field)
           /\ es[i].id = Id(Extraction(es, type))
<1> DEFINE of == {i \in DOMAIN es : es[i].type = type}
           e  == Extraction(es, type)
<1>1. e # None /\ e.fields # None /\ Value(e, field) = e.fields[field] /\ Id(e) = e.id
  BY DEF Value, Fields, Id
<1>2. of # {} /\ e = es[FirstOf(of)]
  BY <1>1 DEF Extraction
<1>3. FirstOf(of) \in of
  BY <1>2, FirstExists
<1> QED
  BY <1>1, <1>2, <1>3

LEMMA SourceLemma ==
  ASSUME NEW es, DOMAIN es \subseteq Nat,
         NEW name \in DnaFields, Raw(es, name) # None
  PROVE  \E i \in DOMAIN es : es[i].id = Source(es, name) /\ Held(es[i], name, Raw(es, name))
<1> DEFINE bl == Extraction(es, "bill_of_lading")
<1>1. CASE name \in DOMAIN Preferred
  <2> DEFINE p == Preferred[name]
             e == Extraction(es, p.type)
  <2>1. /\ Raw(es, name) = Either(Value(e, p.field), Value(bl, p.otherwise))
        /\ Source(es, name) = IF Value(e, p.field) # None THEN Id(e) ELSE Id(bl)
    BY <1>1 DEF Raw, Source
  <2>2. \A x : Held(x, name, Raw(es, name)) <=>
                 /\ x.fields # None
                 /\ \/ x.type = p.type /\ x.fields[p.field] = Raw(es, name)
                    \/ x.type = "bill_of_lading" /\ x.fields[p.otherwise] = Raw(es, name)
    BY <1>1 DEF Held
  <2> HIDE DEF p, e, bl
  <2>3. CASE Value(e, p.field) # None
    BY <2>1, <2>2, <2>3, ValueHeld DEF Either, e
  <2>4. CASE Value(e, p.field) = None
    BY <2>1, <2>2, <2>4, ValueHeld DEF Either, bl
  <2> QED
    BY <2>3, <2>4
<1>2. CASE name \notin DOMAIN Preferred /\ name \in DOMAIN Single
  <2> DEFINE p == Single[name]
             e == Extraction(es, p.type)
  <2>1. Raw(es, name) = Value(e, p.field) /\ Source(es, name) = Id(e)
    BY <1>2 DEF Raw, Source
  <2>2. \A x : Held(x, name, Raw(es, name)) <=>
                 x.fields # None /\ x.type = p.type /\ x.fields[p.field] = Raw(es, name)
    BY <1>2 DEF Held
  <2> HIDE DEF p, e
  <2> QED
    BY <2>1, <2>2, ValueHeld DEF e
<1>3. CASE name \notin DOMAIN Preferred /\ name \notin DOMAIN Single
  <2>1. /\ Raw(es, name) = Either(Value(bl, "on_board_date"), Value(bl, "bl_date"))
        /\ Source(es, name) = Id(bl)
    BY <1>3 DEF Raw, Source
  <2>2. \A x : Held(x, name, Raw(es, name)) <=>
                 /\ x.fields # None
                 /\ x.type = "bill_of_lading"
                 /\ Raw(es, name) \in {x.fields["on_board_date"], x.fields["bl_date"]}
    BY <1>3 DEF Held
  <2> HIDE DEF bl
  <2> QED
    BY <2>1, <2>2, ValueHeld DEF Either, bl
<1> QED
  BY <1>1, <1>2, <1>3

LEMMA DisagreementLemma ==
  ASSUME NEW es, NEW i \in ReadableOf(Stated(es)), NEW j \in ReadableOf(Stated(es)),
         Measure(Stated(es)[i]) # Measure(Stated(es)[j])
  PROVE  \E c \in Conflicts(es) : c.field = "quantity"
<1> DEFINE q == Stated(es)
           first == FirstOf(ReadableOf(q))
<1>1. PICK k \in ReadableOf(q) : Measure(q[k]) # Measure(q[first])
  OBVIOUS
<1>2. Conflict("quantity", q[first].doc, q[k].doc, "MATERIAL") \in QuantityConflicts(q)
  BY <1>1 DEF QuantityConflicts
<1>3. \A x \in QuantityConflicts(q) : x \in Conflicts(es)
  BY DEF Conflicts
<1>4. Conflict("quantity", q[first].doc, q[k].doc, "MATERIAL").field = "quantity"
  BY DEF Conflict
<1> QED
  BY <1>2, <1>3, <1>4, Zenon

\* A quantity conflict is one of the quantities.
LEMMA QuantityConflictLemma ==
  ASSUME NEW es, NEW c \in Conflicts(es), c.field = "quantity"
  PROVE  c \in QuantityConflicts(Stated(es))
<1>1. \A field, a, va, b, vb, normal : \A d \in StringConflict(field, a, va, b, vb, normal) :
        d.field = field
  BY DEF StringConflict, Conflict
<1>2. ASSUME NEW port \in {"loading_port", "discharge_port"}, NEW a, NEW va, NEW b, NEW vb,
             c \in StringConflict(port, a, va, b, vb, Port)
      PROVE  FALSE
  <2>1. c.field = port
    BY <1>1, <1>2, Zenon
  <2> QED
    BY <2>1
<1>3. ASSUME NEW a, NEW va, NEW b, NEW vb, NEW normal,
             \/ c \in StringConflict("exporter", a, va, b, vb, normal)
             \/ c \in StringConflict("vessel_name", a, va, b, vb, normal)
      PROVE  FALSE
  <2>1. c.field = "exporter" \/ c.field = "vessel_name"
    BY <1>1, <1>3, Zenon
  <2> QED
    BY <2>1
<1>4. \/ c \in QuantityConflicts(Stated(es))
      \/ \E a, va, b, vb : c \in StringConflict("exporter", a, va, b, vb, EntityName)
      \/ \E a, va, b, vb : c \in StringConflict("vessel_name", a, va, b, vb, FreeText)
      \/ \E port \in {"loading_port", "discharge_port"} :
           \E a, va, b, vb : c \in StringConflict(port, a, va, b, vb, Port)
  BY DEF Conflicts
<1> QED
  BY <1>2, <1>3, <1>4

\* The quantities the DNA compares, when the facts hold the fields they come from.
LEMMA OneMeasure ==
  ASSUME NEW es, NEW invoice, NEW bl, NEW packing,
         invoice = Fields(Extraction(es, "commercial_invoice")),
         bl = Fields(Extraction(es, "bill_of_lading")),
         packing = Fields(Extraction(es, "packing_list")),
         Said(invoice, "quantity") # None,
         Said(bl, "quantity") \in {None, invoice.quantity},
         Said(packing, "total_quantity") \in {None, invoice.quantity},
         OneUnit(Said(invoice, "unit"), Said(bl, "unit")),
         OneUnit(Said(invoice, "unit"), Said(packing, "unit")),
         OneUnit(Said(bl, "unit"), Said(packing, "unit")),
         NEW i \in ReadableOf(Stated(es)), NEW j \in ReadableOf(Stated(es))
  PROVE  Measure(Stated(es)[i]) = Measure(Stated(es)[j])
<1> DEFINE q == Stated(es)
<1>1. /\ q[1].quantity = Said(invoice, "quantity") /\ q[1].unit = Said(invoice, "unit")
      /\ q[2].quantity = Said(bl, "quantity") /\ q[2].unit = Said(bl, "unit")
      /\ q[3].quantity = Said(packing, "total_quantity") /\ q[3].unit = Said(packing, "unit")
  <2> DEFINE entry(type, quantity) ==
               [doc      |-> Id(Extraction(es, type)),
                quantity |-> Value(Extraction(es, type), quantity),
                unit     |-> Value(Extraction(es, type), "unit")]
  <2>1. q = <<entry("commercial_invoice", "quantity"), entry("bill_of_lading", "quantity"),
              entry("packing_list", "total_quantity")>>
    BY Zenon DEF Stated
  <2>2. \A e, field : Value(e, field) = Said(Fields(e), field)
    BY DEF Value, Said, Fields
  <2> HIDE DEF q
  <2> QED
    BY <2>1, <2>2
<1>2. i \in 1..3 /\ j \in 1..3
  BY DEF ReadableOf
<1>3. \A k \in ReadableOf(q) : q[k].quantity # None /\ q[k].unit \in Units
  BY DEF ReadableOf, Readable
<1>4. Said(invoice, "quantity") = invoice.quantity
  BY DEF Said
<1> HIDE DEF q
<1>5. \A k \in 1..3 : q[k].quantity \in {None, invoice.quantity}
  BY <1>1, <1>4
<1>6. q[i].quantity = q[j].quantity
  BY <1>2, <1>3, <1>5 DEF q
<1>7. \A k, l \in 1..3 : OneUnit(q[k].unit, q[l].unit)
  BY <1>1 DEF OneUnit
<1>8. q[i].unit = q[j].unit
  BY <1>2, <1>3, <1>7 DEF OneUnit, q
<1> QED
  BY <1>6, <1>8 DEF Measure, q

-------------------------------------------------------------------------------
(* The facts of a case are typed *)

LEMMA ContentsTyped ==
  ASSUME NEW d \in Contents
  PROVE  /\ d.type = "letter_of_credit" => d.fields \in Maybe(Credits)
         /\ d.type = "commercial_invoice" => d.fields \in Maybe(Invoices)
         /\ d.type = "bill_of_lading" => d.fields \in Maybe(BillsOfLading)
         /\ d.type = "packing_list" => d.fields \in Maybe(PackingLists)
         /\ d.type = "insurance_certificate" => d.fields \in Maybe(Policies)
BY DEF Contents

\* The states of the documents of the case, as a request reads them.
Reading == [DOMAIN File[case].docs -> DocStates]

LEMMA FieldsTyped ==
  ASSUME case \in DOMAIN File, NEW docs \in Reading, NEW type
  PROVE  \/ FieldsOf(docs, type) = None
         \/ \E d \in Contents : d.type = type /\ FieldsOf(docs, type) = d.fields
<1> DEFINE of == {i \in Listed(docs) : File[case].docs[i].type = type}
<1>1. of \in SUBSET Nat /\ of \subseteq DOMAIN File[case].docs
  BY CasesAssumption DEF Listed, Reading
<1>2. CASE of = {}
  BY <1>2 DEF FieldsOf
<1>3. CASE of # {}
  <2>1. FirstOf(of) \in of
    BY <1>1, <1>3, FirstExists
  <2>2. File[case].docs[FirstOf(of)] \in Contents /\ File[case].docs[FirstOf(of)].type = type
    BY <1>1, <2>1, CasesAssumption
  <2>3. \/ FieldsOf(docs, type) = File[case].docs[FirstOf(of)].fields
        \/ FieldsOf(docs, type) = None
    BY <1>3, Zenon DEF FieldsOf
  <2> QED
    BY <2>2, <2>3
<1> QED
  BY <1>2, <1>3

LEMMA ListedFinite ==
  ASSUME case \in DOMAIN File, NEW docs \in Reading, NEW request
  PROVE  IsFiniteSet(Facts(docs, request).documents)
<1> DEFINE row(i) == [id |-> i, type |-> File[case].docs[i].type, status |-> docs[i]]
           S == Listed(docs)
           T == {row(i) : i \in S}
<1>1. IsFiniteSet(S)
  BY CasesAssumption, FS_Subset DEF Listed, Reading
<1>2. [i \in S |-> row(i)] \in Surjection(S, T)
  BY DEF Surjection
<1>3. IsFiniteSet(T)
  <2> HIDE DEF S, T, row
  <2> QED
    BY <1>1, <1>2, FS_Surjection
<1> QED
  BY <1>3 DEF Facts

LEMMA FactsTyped ==
  ASSUME case \in DOMAIN File, NEW docs \in Reading, NEW request \in Payloads,
         Facts(docs, request).lc # None
  PROVE  FactsOK(Facts(docs, request))
<1> DEFINE f == Facts(docs, request)
<1>1. /\ f.lc = FieldsOf(docs, "letter_of_credit")
      /\ f.invoice = FieldsOf(docs, "commercial_invoice")
      /\ f.bl = FieldsOf(docs, "bill_of_lading")
      /\ f.packing = FieldsOf(docs, "packing_list")
      /\ f.insurance = FieldsOf(docs, "insurance_certificate")
      /\ f.drawing = request.drawing /\ f.presented = request.presented
      /\ f.original = request.original /\ f.bulk = request.bulk
  BY DEF Facts
<1>2. /\ request.drawing \in Maybe(Int) /\ request.presented \in Maybe(Int)
      /\ request.original \in BOOLEAN /\ request.bulk \in BOOLEAN
  BY DEF Payloads, Maybe
<1> HIDE DEF f
<1>3. /\ f.lc \in Maybe(Credits)
      /\ f.invoice \in Maybe(Invoices)
      /\ f.bl \in Maybe(BillsOfLading)
      /\ f.packing \in Maybe(PackingLists)
      /\ f.insurance \in Maybe(Policies)
  <2>1. \A S : None \in Maybe(S)
    BY DEF Maybe
  <2> QED
    BY <1>1, <2>1, FieldsTyped, ContentsTyped
<1>4. f.lc \in Credits
  BY <1>3 DEF Maybe, f
<1> QED
  BY <1>1, <1>2, <1>3, <1>4 DEF FactsOK, f

-------------------------------------------------------------------------------
(* The inductive invariant: what a request holds and what a row contains is  *)
(* the result computed from well-formed facts, or from readable extractions. *)

Evaluated(x) ==
  /\ FactsOK(x.facts)
  /\ IsFiniteSet(x.facts.documents)
  /\ x.result = evaluate_compliance(x.facts)

Built(x) ==
  /\ DOMAIN x.es \subseteq Nat
  /\ x.result = build_transaction_dna(x.es)

\* An agent past load_case still has what it read.
LoadedInv ==
  \A r \in Requests : Kind[r] = "agent" /\ pc[r] \in {"rules", "save", "dna"}
                      => loaded[r] \in Reading

HeldInv ==
  /\ DOMAIN held = Requests
  /\ DOMAIN loaded = Requests
  /\ \A r \in Requests :
       pc[r] = "save" => IF Kind[r] = "dna" THEN Built(held[r]) ELSE Evaluated(held[r])

RowsInv ==
  /\ compliance # None => Evaluated(compliance)
  /\ dna # None => Built(dna)

AnalysisInv == TypeOK /\ LoadedInv /\ HeldInv /\ RowsInv

LEMMA ExtractionsPlaced ==
  ASSUME case \in DOMAIN File, NEW docs \in Reading
  PROVE  DOMAIN Extractions(docs) \subseteq Nat
BY CasesAssumption DEF Extractions, Reading

LEMMA InitInv == Init => AnalysisInv
<1> SUFFICES ASSUME Init PROVE AnalysisInv
  OBVIOUS
<1>1. case \in DOMAIN File
  BY DEF Init
<1>2. TypeOK
  BY <1>1, CasesAssumption DEF Init, TypeOK, PcLabels
<1>3. LoadedInv
  BY DEF Init, LoadedInv
<1>4. HeldInv
  BY DEF Init, HeldInv
<1>5. RowsInv
  BY DEF Init, RowsInv
<1> QED
  BY <1>2, <1>3, <1>4, <1>5 DEF AnalysisInv

LEMMA TypeStep == TypeOK /\ DOMAIN held = Requests /\ [Next]_vars => TypeOK'
<1> SUFFICES ASSUME TypeOK, DOMAIN held = Requests, [Next]_vars PROVE TypeOK'
  OBVIOUS
<1> USE DEF TypeOK
<1>1. ASSUME NEW i \in DOMAIN doc, Change(i) PROVE TypeOK'
  <2>1. doc' \in [DOMAIN File[case].docs -> DocStates] /\ UNCHANGED case
    BY <1>1 DEF Change, DocStates
  <2>2. changes' \in 0..File[case].changes
    BY <1>1, CasesAssumption DEF Change
  <2> QED
    BY <1>1, <2>1, <2>2 DEF Change
<1>2. ASSUME NEW r \in Requests, Refuse(r) PROVE TypeOK'
  BY <1>2 DEF Refuse, Goto, PcLabels
<1>3. ASSUME NEW r \in Requests, Begin(r) PROVE TypeOK'
  BY <1>3 DEF Begin, Goto, PcLabels
<1>4. ASSUME NEW r \in Requests, Evaluate(r) PROVE TypeOK'
  BY <1>4 DEF Evaluate, Goto, PcLabels
<1>5. ASSUME NEW r \in Requests, SaveCompliance(r) PROVE TypeOK'
  BY <1>5 DEF SaveCompliance, Goto, PcLabels
<1>6. ASSUME NEW r \in Requests, Build(r) PROVE TypeOK'
  BY <1>6 DEF Build, Goto, PcLabels
<1>7. ASSUME NEW r \in Requests, SaveDna(r) PROVE TypeOK'
  BY <1>7 DEF SaveDna, Goto, PcLabels
<1>8. ASSUME NEW r \in Requests, Audit(r) PROVE TypeOK'
  <2>1. Kind[r] # "agent" /\ trail' = trail \cup {r} /\ pc' = [pc EXCEPT ![r] = "done"]
    BY <1>8 DEF Audit, Goto
  <2>2. trail' \subseteq {q \in Requests : Kind[q] # "agent" /\ pc'[q] = "done"}
    BY <2>1
  <2>3. pc' \in [Requests -> PcLabels]
    BY <2>1 DEF PcLabels
  <2> QED
    BY <1>8, <2>1, <2>2, <2>3 DEF Audit
<1>9. ASSUME NEW r \in Requests, Load(r) PROVE TypeOK'
  BY <1>9 DEF Load, Goto, PcLabels
<1>10. ASSUME NEW r \in Requests, BuildAndSave(r) PROVE TypeOK'
  BY <1>10 DEF BuildAndSave, Goto, PcLabels
<1>11. ASSUME NEW r \in Requests, Fail(r) PROVE TypeOK'
  BY <1>11 DEF Fail, Goto, PcLabels
<1>12. CASE UNCHANGED vars
  BY <1>12 DEF vars
<1> QED
  BY <1>1, <1>2, <1>3, <1>4, <1>5, <1>6, <1>7, <1>8, <1>9, <1>10, <1>11, <1>12 DEF Next

LEMMA LoadedStep == AnalysisInv /\ [Next]_vars => LoadedInv'
<1> SUFFICES ASSUME AnalysisInv, [Next]_vars PROVE LoadedInv'
  OBVIOUS
<1>1. UNCHANGED case => Reading' = Reading
  BY DEF Reading
<1> USE DEF AnalysisInv, TypeOK, LoadedInv, HeldInv
<1>2. ASSUME NEW i \in DOMAIN doc, Change(i) PROVE LoadedInv'
  BY <1>1, <1>2 DEF Change
<1>3. ASSUME NEW r \in Requests, Refuse(r) \/ Begin(r) \/ Build(r) \/ SaveDna(r) \/ Audit(r)
                                   \/ BuildAndSave(r)
      PROVE  LoadedInv'
  BY <1>1, <1>3 DEF Refuse, Begin, Build, SaveDna, Audit, BuildAndSave, Goto
<1>4. ASSUME NEW r \in Requests, Evaluate(r) \/ SaveCompliance(r) \/ Fail(r) PROVE LoadedInv'
  BY <1>1, <1>4 DEF Evaluate, SaveCompliance, Fail, Goto
<1>5. ASSUME NEW r \in Requests, Load(r) PROVE LoadedInv'
  <2>1. doc \in Reading
    BY DEF Reading
  <2> QED
    BY <1>1, <1>5, <2>1 DEF Load, Goto
<1>6. CASE UNCHANGED vars
  BY <1>1, <1>6 DEF vars
<1> QED
  BY <1>2, <1>3, <1>4, <1>5, <1>6 DEF Next

LEMMA HeldStep == AnalysisInv /\ [Next]_vars => HeldInv'
<1> SUFFICES ASSUME AnalysisInv, [Next]_vars PROVE HeldInv'
  OBVIOUS
<1>1. pc \in [Requests -> PcLabels] /\ DOMAIN held = Requests /\ DOMAIN loaded = Requests
  BY DEF AnalysisInv, TypeOK, HeldInv
\* A step of r that does not end at "save" keeps what the others hold.
<1>2. ASSUME NEW r \in Requests, NEW label, label # "save", Goto(r, label),
             DOMAIN held' = Requests, DOMAIN loaded' = Requests,
             \A o \in Requests \ {r} : held'[o] = held[o]
      PROVE  HeldInv'
  BY <1>1, <1>2 DEF AnalysisInv, HeldInv, Goto
<1>3. ASSUME NEW i \in DOMAIN doc, Change(i) PROVE HeldInv'
  BY <1>3 DEF AnalysisInv, HeldInv, Change
<1>4. ASSUME NEW r \in Requests, Refuse(r) \/ Begin(r) \/ Audit(r) \/ BuildAndSave(r) PROVE HeldInv'
  BY <1>1, <1>2, <1>4 DEF Refuse, Begin, Audit, BuildAndSave
<1>5. ASSUME NEW r \in Requests, Evaluate(r) PROVE HeldInv'
  <2> DEFINE f == FactsFor(r)
             x == [facts |-> f, result |-> evaluate_compliance(f)]
  <2>1. CASE f.lc = None
    BY <1>1, <1>2, <1>5, <2>1 DEF Evaluate
  <2>2. CASE f.lc # None
    <3>1. case \in DOMAIN File /\ doc \in Reading
      BY DEF AnalysisInv, TypeOK, Reading
    <3>2. payload[r] \in Payloads
      <4>1. payload[r] \in File[case].payloads \cup {DefaultPayload}
        BY DEF AnalysisInv, TypeOK
      <4>2. DefaultPayload \in Payloads
        BY DEF DefaultPayload, Payloads
      <4>3. File[case].payloads \subseteq Payloads
        BY <3>1, CasesAssumption
      <4> QED
        BY <4>1, <4>2, <4>3
    <3>3. FactsOK(f) /\ IsFiniteSet(f.documents)
      BY <2>2, <3>1, <3>2, FactsTyped, ListedFinite DEF FactsFor
    <3> HIDE DEF f
    <3>4. Evaluated(x)
      BY <3>3 DEF Evaluated
    <3>5. /\ pc' = [pc EXCEPT ![r] = "save"] /\ held' = [held EXCEPT ![r] = x]
          /\ UNCHANGED loaded /\ Kind[r] # "dna"
      BY <1>5, <2>2 DEF Evaluate, Goto, f
    <3> HIDE DEF x
    <3> QED
      BY <1>1, <3>4, <3>5 DEF AnalysisInv, HeldInv
  <2> QED
    BY <2>1, <2>2
<1>6. ASSUME NEW r \in Requests, Build(r) PROVE HeldInv'
  <2> DEFINE es == Extractions(doc)
             x  == [es |-> es, result |-> build_transaction_dna(es)]
  <2>1. CASE DOMAIN es = {}
    BY <1>1, <1>2, <1>6, <2>1 DEF Build
  <2>2. CASE DOMAIN es # {}
    <3>1. DOMAIN es \subseteq Nat
      BY ExtractionsPlaced DEF AnalysisInv, TypeOK, Reading
    <3> HIDE DEF es
    <3>2. Built(x)
      BY <3>1 DEF Built
    <3>3. /\ pc' = [pc EXCEPT ![r] = "save"] /\ held' = [held EXCEPT ![r] = x]
          /\ UNCHANGED loaded /\ Kind[r] = "dna"
      BY <1>6, <2>2 DEF Build, Goto, es
    <3> HIDE DEF x
    <3> QED
      BY <1>1, <3>2, <3>3 DEF AnalysisInv, HeldInv
  <2> QED
    BY <2>1, <2>2
<1>7. ASSUME NEW r \in Requests, SaveCompliance(r) \/ SaveDna(r) PROVE HeldInv'
  BY <1>1, <1>2, <1>7 DEF SaveCompliance, SaveDna
<1>8. ASSUME NEW r \in Requests, Load(r) PROVE HeldInv'
  BY <1>1, <1>2, <1>8 DEF Load
<1>9. ASSUME NEW r \in Requests, Fail(r) PROVE HeldInv'
  BY <1>1, <1>2, <1>9 DEF Fail
<1>10. CASE UNCHANGED vars
  BY <1>10 DEF AnalysisInv, HeldInv, vars
<1> QED
  BY <1>3, <1>4, <1>5, <1>6, <1>7, <1>8, <1>9, <1>10 DEF Next

LEMMA RowsStep == AnalysisInv /\ [Next]_vars => RowsInv'
<1> SUFFICES ASSUME AnalysisInv, [Next]_vars PROVE RowsInv'
  OBVIOUS
<1>1. ASSUME UNCHANGED <<compliance, dna>> PROVE RowsInv'
  BY <1>1 DEF AnalysisInv, RowsInv
<1>2. ASSUME NEW r \in Requests, SaveCompliance(r) PROVE RowsInv'
  BY <1>2 DEF SaveCompliance, AnalysisInv, HeldInv, RowsInv
<1>3. ASSUME NEW r \in Requests, SaveDna(r) PROVE RowsInv'
  BY <1>3 DEF SaveDna, AnalysisInv, HeldInv, RowsInv
<1>4. ASSUME NEW r \in Requests, BuildAndSave(r) PROVE RowsInv'
  <2> DEFINE es == Extractions(loaded[r])
  <2>1. loaded[r] \in Reading
    BY <1>4 DEF BuildAndSave, AnalysisInv, LoadedInv
  <2>2. DOMAIN es \subseteq Nat
    BY <2>1, ExtractionsPlaced DEF AnalysisInv, TypeOK
  <2>3. dna' = [es |-> es, result |-> build_transaction_dna(es)] /\ UNCHANGED compliance
    BY <1>4 DEF BuildAndSave
  <2> HIDE DEF es
  <2>4. Built(dna')
    BY <2>2, <2>3 DEF Built
  <2> QED
    BY <2>3, <2>4 DEF AnalysisInv, RowsInv
<1>5. ASSUME NEW r \in Requests,
             Refuse(r) \/ Begin(r) \/ Evaluate(r) \/ Build(r) \/ Audit(r) \/ Load(r) \/ Fail(r)
      PROVE  UNCHANGED <<compliance, dna>>
  BY <1>5 DEF Refuse, Begin, Evaluate, Build, Audit, Load, Fail
<1>6. ASSUME NEW i \in DOMAIN doc, Change(i) PROVE UNCHANGED <<compliance, dna>>
  BY <1>6 DEF Change
<1>7. CASE UNCHANGED vars
  BY <1>1, <1>7 DEF vars
<1> QED
  BY <1>1, <1>2, <1>3, <1>4, <1>5, <1>6, <1>7 DEF Next

\* Rows and held results always come from one evaluation of well-formed facts.
THEOREM AnalysisInvariance == Spec => []AnalysisInv
<1>1. AnalysisInv /\ [Next]_vars => AnalysisInv'
  BY TypeStep, LoadedStep, HeldStep, RowsStep DEF AnalysisInv, HeldInv
<1> QED
  BY <1>1, InitInv, PTL DEF Spec

-------------------------------------------------------------------------------
(* The properties *)

\* Requests keep to their steps and hold a result only to save it.
THEOREM TypeCorrect == Spec => []TypeOK
<1>1. AnalysisInv => TypeOK
  BY DEF AnalysisInv
<1> QED
  BY <1>1, AnalysisInvariance, PTL

\* Whatever the documents and the order of the writers, COMPLIANT in the row means
\* that the documents examined conform to the credit and to each other.
THEOREM CompliantIsConforming == Spec => []CompliantConforms
<1>1. AnalysisInv => CompliantConforms
  BY CompliantMeansConforms DEF AnalysisInv, RowsInv, Evaluated, CompliantConforms
<1> QED
  BY <1>1, AnalysisInvariance, PTL

\* A case whose documents are without fault is never held up: the row says
\* COMPLIANT, whoever wrote it.
THEOREM FaultlessCasesPass == Spec => []FaultlessIsCompliant
<1>1. AnalysisInv => FaultlessIsCompliant
  BY FaultlessPasses DEF AnalysisInv, RowsInv, Evaluated, FaultlessIsCompliant
<1> QED
  BY <1>1, AnalysisInvariance, PTL

\* Reading more documents never takes a finding away.
THEOREM FindingsAreMonotone == Spec => MoreDocumentsMoreFindings
<1> DEFINE A == compliance # None /\ compliance' # None =>
                  (/\ Grows(compliance.facts, compliance'.facts)
                   /\ compliance.result.status # "INCOMPLETE"
                   => /\ compliance'.result.status # "INCOMPLETE"
                      /\ compliance.result.findings \subseteq compliance'.result.findings)
<1>1. ASSUME NEW x, NEW y, Evaluated(x), Evaluated(y), Grows(x.facts, y.facts),
             x.result.status # "INCOMPLETE"
      PROVE  y.result.status # "INCOMPLETE" /\ x.result.findings \subseteq y.result.findings
  <2>1. Missing(x.facts) = {} /\ x.result.findings = Discrepancies(x.facts)
    BY <1>1 DEF Evaluated, evaluate_compliance
  <2>2. Missing(y.facts) = {}
    BY <1>1, <2>1, CompleteStaysComplete DEF Evaluated
  <2>3. y.result.status # "INCOMPLETE" /\ y.result.findings = Discrepancies(y.facts)
    BY <1>1, <2>2 DEF Evaluated, evaluate_compliance
  <2> QED
    BY <1>1, <2>1, <2>3, FindingsStay
<1>2. AnalysisInv /\ AnalysisInv' => A
  BY <1>1 DEF AnalysisInv, RowsInv
<1>3. AnalysisInv /\ AnalysisInv' => [A]_vars
  BY <1>2
<1> QED
  BY <1>3, AnalysisInvariance, PTL DEF MoreDocumentsMoreFindings

\* The source a DNA value names held the value.
THEOREM SourcesAreTrue == Spec => []SourceHoldsValue
<1>1. ASSUME AnalysisInv PROVE SourceHoldsValue
  <2> SUFFICES ASSUME dna # None, NEW name \in DOMAIN dna.result.sources
               PROVE  \E i \in DOMAIN dna.es :
                        /\ dna.es[i].id = dna.result.sources[name]
                        /\ Held(dna.es[i], name, dna.result.raw[name])
    BY DEF SourceHoldsValue
  <2>1. DOMAIN dna.es \subseteq Nat /\ dna.result = build_transaction_dna(dna.es)
    BY <1>1 DEF AnalysisInv, RowsInv, Built
  <2>2. /\ name \in DnaFields /\ Raw(dna.es, name) # None
        /\ dna.result.sources[name] = Source(dna.es, name)
        /\ dna.result.raw[name] = Raw(dna.es, name)
    BY <2>1 DEF build_transaction_dna
  <2> QED
    BY <2>1, <2>2, SourceLemma
<1> QED
  BY <1>1, AnalysisInvariance, PTL

\* Comparing each quantity with the first loses no disagreement.
THEOREM DisagreementsAreReported == Spec => []DisagreementReported
<1>1. ASSUME AnalysisInv PROVE DisagreementReported
  <2>1. dna # None => dna.result.conflicts = Conflicts(dna.es)
    BY <1>1 DEF AnalysisInv, RowsInv, Built, build_transaction_dna
  <2> QED
    BY <2>1, DisagreementLemma DEF DisagreementReported
<1> QED
  BY <1>1, AnalysisInvariance, PTL

\* The rules and the DNA cannot disagree about quantities given in one unit.
THEOREM ConflictsAreDiscrepancies == Spec => []ConflictIsDiscrepancy
<1>1. ASSUME AnalysisInv PROVE ConflictIsDiscrepancy
  <2> DEFINE f  == compliance.facts
             es == dna.es
  <2> SUFFICES ASSUME compliance # None, dna # None,
                      f.invoice = Fields(Extraction(es, "commercial_invoice")),
                      f.bl = Fields(Extraction(es, "bill_of_lading")),
                      f.packing = Fields(Extraction(es, "packing_list")),
                      Said(f.invoice, "quantity") # None,
                      OneUnit(Said(f.invoice, "unit"), Said(f.bl, "unit")),
                      OneUnit(Said(f.invoice, "unit"), Said(f.packing, "unit")),
                      OneUnit(Said(f.bl, "unit"), Said(f.packing, "unit")),
                      NEW c \in dna.result.conflicts, c.field = "quantity",
                      compliance.result.status = "COMPLIANT"
               PROVE  FALSE
    BY DEF ConflictIsDiscrepancy
  <2>1. Discrepancies(f) = {}
    BY <1>1 DEF AnalysisInv, RowsInv, Evaluated, evaluate_compliance
  <2>2. c \in Conflicts(es)
    BY <1>1 DEF AnalysisInv, RowsInv, Built, build_transaction_dna
  <2>3. /\ Said(f.bl, "quantity") \in {None, f.invoice.quantity}
        /\ Said(f.packing, "total_quantity") \in {None, f.invoice.quantity}
    BY <2>1, NoDiscrepancy, CrossChecks DEF Said, Unequal
  <2> DEFINE readable == ReadableOf(Stated(es))
             first    == FirstOf(readable)
  <2>4. PICK k \in readable : Measure(Stated(es)[k]) # Measure(Stated(es)[first])
    BY <2>2, QuantityConflictLemma DEF QuantityConflicts
  <2>5. first \in readable
    BY <2>4, FirstExists DEF ReadableOf
  <2> HIDE DEF f, es, readable, first
  <2>6. Measure(Stated(es)[k]) = Measure(Stated(es)[first])
    BY <2>3, <2>4, <2>5, OneMeasure DEF readable
  <2> QED
    BY <2>4, <2>6
<1> QED
  BY <1>1, AnalysisInvariance, PTL


===============================================================================
