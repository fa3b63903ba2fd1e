---------------------------- MODULE MCCaseAnalysis ----------------------------
(* CaseAnalysis on small sets: families of case files that vary the inputs of  *)
(* one group of rules over a presentation that complies, and case files whose  *)
(* documents are still being read while requests overlap.                      *)
EXTENDS CaseAnalysis

AllTexts == {"exp", "Exp", "exp ltd", "imp", "rice", "wheat", "usd", "eur", "mundra", "INMUN",
             "colombo", "star", "starr"}

PlainForm  == [t \in AllTexts |-> IF t = "Exp" THEN "exp" ELSE t]
EntityForm == [t \in AllTexts |-> IF t \in {"Exp", "exp ltd"} THEN "exp" ELSE t]
PortForm   == [t \in AllTexts |-> IF t = "mundra" THEN "INMUN" ELSE t]
TextForm   == PlainForm

Near    == {<<"star", "starr">>, <<"starr", "star">>}
Dollars == {"usd"}

KindOf == [rules |-> "rules", again |-> "rules", dna |-> "dna", agent |-> "agent"]
AllRequests == DOMAIN KindOf

-------------------------------------------------------------------------------
(* A presentation that complies *)

Required(type) == [type |-> type, required |-> TRUE, originals |-> 1, copies |-> 0]

LC == [applicant |-> "imp", beneficiary |-> "exp", currency |-> "usd", credit_amount |-> 100,
       about_flag |-> None, expiry_date |-> 40, latest_shipment_date |-> 10,
       presentation_days |-> None, partial_shipments |-> None, required_documents |-> {},
       goods_description |-> "rice", quantity |-> 100,
       loading_port |-> "mundra", discharge_port |-> "colombo"]

Invoice == [seller |-> "exp", buyer |-> "imp", currency |-> "usd", invoice_amount |-> 100,
            quantity |-> 100, unit |-> "MT", goods_description |-> "rice",
            vessel_name |-> "star"]

BL == [bl_number |-> "exp", shipper |-> "exp", consignee |-> "imp", vessel_name |-> "star",
       loading_port |-> "mundra", discharge_port |-> "colombo", on_board_notation |-> TRUE,
       on_board_date |-> 5, bl_date |-> 4, goods_description |-> "rice", quantity |-> 100,
       unit |-> "MT", signature |-> None, partial_shipment |-> None]

Packing == [goods_description |-> "rice", total_quantity |-> 100, unit |-> "MT"]

Policy == [insured_amount |-> 110, currency |-> "usd", effective_date |-> 4,
           goods_description |-> "rice", vessel_name |-> "star",
           loading_port |-> "mundra", discharge_port |-> "colombo"]

Document(type, fields) == [type |-> type, fields |-> fields]

Presentation(lc, invoice, bl, packing, insurance) ==
  <<Document("letter_of_credit", lc), Document("commercial_invoice", invoice),
    Document("bill_of_lading", bl), Document("packing_list", packing),
    Document("insurance_certificate", insurance)>>

\* All documents are extracted and nothing changes.
Settled(docs, payloads, requests) ==
  [docs |-> docs, start |-> [i \in DOMAIN docs |-> "EXTRACTED"], payloads |-> payloads,
   requests |-> requests, changes |-> 0, twice |-> {}]

Default == {DefaultPayload}

Goods == {None, "rice", "wheat"}

GoodsFile(g) ==
  Settled(Presentation([LC EXCEPT !.goods_description = g[1]],
                       [Invoice EXCEPT !.goods_description = g[2]],
                       [BL EXCEPT !.goods_description = g[3]],
                       [Packing EXCEPT !.goods_description = g[4]],
                       [Policy EXCEPT !.goods_description = g[5]]), Default, {"rules"})

Names == {None, "exp", "Exp", "exp ltd", "imp"}

PartyFile(n) ==
  Settled(Presentation([LC EXCEPT !.beneficiary = n[1]], [Invoice EXCEPT !.seller = n[2]],
                       [BL EXCEPT !.shipper = n[3]], Packing, Policy), Default, {"rules", "dna"})

Vessels == {None, "star", "starr"}
Ports   == {None, "mundra", "INMUN"}

VoyageFile(v) ==
  Settled(Presentation([LC EXCEPT !.loading_port = v[1]], [Invoice EXCEPT !.vessel_name = v[2]],
                       [BL EXCEPT !.loading_port = v[3], !.vessel_name = v[4]], Packing,
                       [Policy EXCEPT !.vessel_name = v[5]]), Default, {"rules", "dna"})

MoneyFile(m) ==
  Settled(Presentation([LC EXCEPT !.credit_amount = m[1], !.about_flag = m[2]],
                       [Invoice EXCEPT !.invoice_amount = m[3]], BL, Packing,
                       [Policy EXCEPT !.insured_amount = m[4]]),
          {[DefaultPayload EXCEPT !.drawing = d] : d \in {None, 0, 101, 111}}, {"rules"})

Counts == {None, 100, 104, 106}

QuantityFile(q) ==
  Settled(Presentation([LC EXCEPT !.quantity = q[1]], [Invoice EXCEPT !.quantity = q[2]],
                       [BL EXCEPT !.quantity = q[3]], [Packing EXCEPT !.total_quantity = q[4]],
                       Policy),
          {[DefaultPayload EXCEPT !.bulk = b, !.drawing = d] : b \in BOOLEAN, d \in {None, 101}},
          {"rules"})

\* 1000 KG are 1 MT; bales cannot be read.
Measures == {None, "MT", "KG", "bales"}

UnitFile(u) ==
  Settled(Presentation([LC EXCEPT !.quantity = None],
                       [Invoice EXCEPT !.quantity = u[1][1], !.unit = u[2]],
                       [BL EXCEPT !.quantity = u[1][2], !.unit = u[3]],
                       [Packing EXCEPT !.total_quantity = u[1][3], !.unit = u[4]], Policy),
          Default, {"rules", "dna"})

DateFile(d) ==
  Settled(Presentation([LC EXCEPT !.latest_shipment_date = d[1], !.expiry_date = d[2],
                                  !.presentation_days = d[3]],
                       Invoice, [BL EXCEPT !.on_board_date = d[4][1], !.bl_date = d[4][2]],
                       Packing, [Policy EXCEPT !.effective_date = d[5]]),
          {[DefaultPayload EXCEPT !.presented = p, !.original = b] :
             p \in {None, 26, 35, 41}, b \in BOOLEAN}, {"rules"})

-------------------------------------------------------------------------------
(* Documents still being read *)

\* The second document is uploaded twice.
Live(docs, start, requests, n) ==
  [docs |-> docs, start |-> start, payloads |-> Default, requests |-> requests, changes |-> n,
   twice |-> {2} \intersect DOMAIN docs]

AsksFor(types) == [LC EXCEPT !.required_documents = {Required(t) : t \in types}]

Both == {"letter_of_credit", "commercial_invoice"}

\* The bill of lading and the insurance disagree with the rest.
Odd(types) == Presentation(AsksFor(types), Invoice, [BL EXCEPT !.shipper = "imp"], Packing,
                           [Policy EXCEPT !.insured_amount = 100])

\* Two invoices, the second over the credit; the first may have failed.
Twice ==
  <<Document("letter_of_credit", AsksFor(Both)), Document("commercial_invoice", Invoice),
    Document("commercial_invoice", [Invoice EXCEPT !.invoice_amount = 150, !.seller = None])>>

SecondInvoice(state) == Live(Twice, <<"EXTRACTED", state, "EXTRACTED">>, {"rules", "agent"}, 2)

LiveFile(name) ==
  CASE name = "free"    -> Live(Odd({}), <<"EXTRACTED", "PENDING", "EXTRACTED", "ABSENT", "PENDING">>,
                                {"rules", "again"}, 3)
    [] name = "asked"   -> Live(Odd(Both), <<"EXTRACTED", "PENDING", "EXTRACTED", "ABSENT", "EXTRACTED">>,
                                {"rules", "again"}, 2)
    [] name = "partial" -> Live(Odd(Both), <<"EXTRACTED", "PARTIAL", "PENDING", "ABSENT", "EXTRACTED">>,
                                {"rules", "agent", "dna"}, 2)
    [] name = "kept"    -> Live(Odd(Both), <<"EXTRACTED", "EXTRACTED", "FAILED_KEPT", "PARTIAL", "ABSENT">>,
                                {"agent", "dna"}, 2)
    \* Fields that are not those of the type.
    [] name = "raw"     -> Live(<<Document("letter_of_credit", LC),
                                  Document("commercial_invoice", None)>>,
                                <<"EXTRACTED", "PARTIAL">>, {"rules", "dna"}, 0)
    [] name = "raw lc"  -> Live(<<Document("letter_of_credit", None)>>, <<"PENDING">>,
                                {"rules", "dna", "agent"}, 1)

-------------------------------------------------------------------------------
\* A case file is named by its family and what varies in it.
AllFiles ==
  [c \in ({"goods"} \X (Goods \X Goods \X Goods \X Goods \X Goods))
         \cup ({"party"} \X (Names \X Names \X Names))
         \cup ({"voyage"} \X (Ports \X Vessels \X Ports \X Vessels \X Vessels))
         \cup ({"money"} \X ({None, 100} \X {None, TRUE} \X {None, 90, 100, 111}
                             \X {None, 99, 110}))
         \cup ({"quantity"} \X ({None, 100} \X Counts \X Counts \X Counts))
         \cup ({"unit"} \X ({<<100, 100, 100>>, <<1, 1000, 1>>, <<None, 1000, 1>>,
                             <<100, 100, None>>} \X Measures \X Measures \X Measures))
         \cup ({"date"} \X ({None, 10} \X {None, 40} \X {None, 0, 30}
                            \X {<<None, None>>, <<None, 5>>, <<5, 4>>, <<12, 4>>}
                            \X {None, 4, 5, 13}))
         \cup ({"live"} \X {"free", "asked", "partial", "kept", "raw", "raw lc"})
         \cup ({"second"} \X {"ABSENT", "PENDING", "EXTRACTED"}) |->
     CASE c[1] = "goods"    -> GoodsFile(c[2])
       [] c[1] = "party"    -> PartyFile(c[2])
       [] c[1] = "voyage"   -> VoyageFile(c[2])
       [] c[1] = "money"    -> MoneyFile(c[2])
       [] c[1] = "quantity" -> QuantityFile(c[2])
       [] c[1] = "unit"     -> UnitFile(c[2])
       [] c[1] = "date"     -> DateFile(c[2])
       [] c[1] = "live"     -> LiveFile(c[2])
       [] c[1] = "second"   -> SecondInvoice(c[2])]

SecondFiles == [s \in {"ABSENT", "PENDING", "EXTRACTED"} |-> SecondInvoice(s)]
===============================================================================
