----------------------------- MODULE TransactionDna -----------------------------
(***************************************************************************)
(* dna/builder.py: one record per transaction, drawn from the extractions  *)
(* of the letter of credit, the invoice, the bill of lading and the        *)
(* packing list.  Every value names the document it was taken from, and    *)
(* values on which two documents disagree are reported as conflicts.       *)
(*                                                                         *)
(* Extractions es are a function on positions in list_documents; one is    *)
(* [id, type, fields], its fields None when they are a raw dict.  The      *)
(* confidence flags and the names of the methods are left out.             *)
(***************************************************************************)
EXTENDS ComplianceRules, Sequences

CONSTANTS
  EntityName, Port, FreeText,  \* dna/normalization.py, on texts
  Close,                       \* pairs of normal forms that differ by an advisory only
  Dollar                       \* texts that name the US dollar

ASSUME DnaAssumption ==
  /\ EntityName \in [Texts -> Texts]
  /\ FreeText \in [Texts -> Texts]
  /\ Port \in [Texts -> Texts \cup {None}]
  /\ Dollar \subseteq Texts

-------------------------------------------------------------------------------
(* normalize_quantity: an amount in the smallest unit of its kind.  Any      *)
(* other unit raises NormalizationError.                                     *)

Grams == [MT |-> 1000000, KG |-> 1000, G |-> 1]
Units == DOMAIN Grams \cup {"L", "M3", "UNITS"}

Readable(quantity, unit) == quantity # None /\ unit \in Units

Canonical(quantity, unit) ==
  IF unit \in DOMAIN Grams THEN <<quantity * Grams[unit], "G">> ELSE <<quantity, unit>>

-------------------------------------------------------------------------------
(* Documents *)

FirstOf(S) == CHOOSE i \in S : \A j \in S : i <= j

\* _extraction: the first of its type.
Extraction(es, type) ==
  LET of == {i \in DOMAIN es : es[i].type = type}
  IN  IF of = {} THEN None ELSE es[FirstOf(of)]

\* _typed_fields, and a field of them.
Fields(e) == IF e = None THEN None ELSE e.fields

Value(e, field) == IF Fields(e) = None THEN None ELSE e.fields[field]

Id(e) == IF e = None THEN None ELSE e.id

Either(a, b) == IF a # None THEN a ELSE b

-------------------------------------------------------------------------------
(* Values and their sources.  A preferred field falls back on a field of the *)
(* bill of lading; the source is chosen by an expression of its own, and     *)
(* dropped when there is no value.                                           *)

Preferred ==
  [exporter       |-> [type |-> "commercial_invoice", field |-> "seller",
                       otherwise |-> "shipper"],
   importer       |-> [type |-> "commercial_invoice", field |-> "buyer",
                       otherwise |-> "consignee"],
   commodity      |-> [type |-> "commercial_invoice", field |-> "goods_description",
                       otherwise |-> "goods_description"],
   quantity       |-> [type |-> "commercial_invoice", field |-> "quantity",
                       otherwise |-> "quantity"],
   quantity_unit  |-> [type |-> "commercial_invoice", field |-> "unit",
                       otherwise |-> "unit"],
   loading_port   |-> [type |-> "letter_of_credit", field |-> "loading_port",
                       otherwise |-> "loading_port"],
   discharge_port |-> [type |-> "letter_of_credit", field |-> "discharge_port",
                       otherwise |-> "discharge_port"]]

\* Taken from one document only; hs_code, the voyage and the numbers of the
\* documents are like these or like the ones above.
Single ==
  [bl_number     |-> [type |-> "bill_of_lading", field |-> "bl_number"],
   vessel_name   |-> [type |-> "bill_of_lading", field |-> "vessel_name"],
   invoice_value |-> [type |-> "commercial_invoice", field |-> "invoice_amount"],
   currency      |-> [type |-> "commercial_invoice", field |-> "currency"]]

DnaFields == DOMAIN Preferred \cup DOMAIN Single \cup {"shipment_date"}

Raw(es, name) ==
  LET bl == Extraction(es, "bill_of_lading")
  IN  IF name \in DOMAIN Preferred
      THEN LET p == Preferred[name]
           IN  Either(Value(Extraction(es, p.type), p.field), Value(bl, p.otherwise))
      ELSE IF name \in DOMAIN Single
      THEN LET p == Single[name] IN Value(Extraction(es, p.type), p.field)
      ELSE Either(Value(bl, "on_board_date"), Value(bl, "bl_date"))

\* Mutant: the preferred document is named whether it held the value or not.
PreferredSource(es, name) ==
  IF name \in DOMAIN Preferred THEN Id(Extraction(es, Preferred[name].type))
  ELSE IF name \in DOMAIN Single THEN Id(Extraction(es, Single[name].type))
  ELSE Id(Extraction(es, "bill_of_lading"))

Source(es, name) ==
  LET bl == Extraction(es, "bill_of_lading")
  IN  IF name \in DOMAIN Preferred
      THEN LET p == Extraction(es, Preferred[name].type)
           IN  IF Value(p, Preferred[name].field) # None THEN Id(p) ELSE Id(bl)
      ELSE IF name \in DOMAIN Single THEN Id(Extraction(es, Single[name].type))
      ELSE Id(bl)

\* quantity_canonical and unit_canonical: the quantity and its unit may come
\* from different documents.
CanonicalQuantity(es) ==
  IF Readable(Raw(es, "quantity"), Raw(es, "quantity_unit"))
  THEN Canonical(Raw(es, "quantity"), Raw(es, "quantity_unit"))
  ELSE None

\* unit_value_usd_per_unit, as a pair of value and quantity.
UnitValue(es) ==
  LET q == CanonicalQuantity(es)
  IN  IF /\ Raw(es, "invoice_value") # None
         /\ Raw(es, "currency") \in Dollar
         /\ q # None
         /\ q[1] # 0
      THEN <<Raw(es, "invoice_value"), q[1]>>
      ELSE None

-------------------------------------------------------------------------------
(* Conflicts *)

Conflict(field, a, b, severity) == [field |-> field, a |-> a, b |-> b, severity |-> severity]

\* _string_conflict
StringConflict(field, a, valueA, b, valueB, normal) ==
  IF valueA = None \/ valueB = None THEN {}
  ELSE IF normal[valueA] = normal[valueB] THEN {}
  ELSE {Conflict(field, a, b, IF <<normal[valueA], normal[valueB]>> \in Close
                              THEN "ADVISORY" ELSE "MATERIAL")}

\* What the invoice, the bill of lading and the packing list say, in this order.
Stated(es) ==
  LET entry(type, quantity) ==
        LET e == Extraction(es, type)
        IN  [doc |-> Id(e), quantity |-> Value(e, quantity), unit |-> Value(e, "unit")]
  IN  <<entry("commercial_invoice", "quantity"), entry("bill_of_lading", "quantity"),
        entry("packing_list", "total_quantity")>>

\* Those that normalize_quantity can read, and the first of them.
ReadableOf(q) == {i \in 1..3 : Readable(q[i].quantity, q[i].unit)}

Measure(entry) == Canonical(entry.quantity, entry.unit)

\* Mutant: quantities in different units are not compared.
SameUnitConflicts(q) ==
  LET first == FirstOf(ReadableOf(q))
  IN  {Conflict("quantity", q[first].doc, q[i].doc, "MATERIAL") :
         i \in {k \in ReadableOf(q) : q[k].unit = q[first].unit
                                      /\ q[k].quantity # q[first].quantity}}

\* _quantity_conflicts: every later quantity against the first.
QuantityConflicts(q) ==
  LET first == FirstOf(ReadableOf(q))
  IN  {Conflict("quantity", q[first].doc, q[i].doc, "MATERIAL") :
         i \in {k \in ReadableOf(q) : Measure(q[k]) # Measure(q[first])}}

Conflicts(es) ==
  LET lc      == Extraction(es, "letter_of_credit")
      invoice == Extraction(es, "commercial_invoice")
      bl      == Extraction(es, "bill_of_lading")
  IN  StringConflict("exporter", Id(invoice), Value(invoice, "seller"),
                     Id(bl), Value(bl, "shipper"), EntityName)
      \cup StringConflict("vessel_name", Id(invoice), Value(invoice, "vessel_name"),
                          Id(bl), Value(bl, "vessel_name"), FreeText)
      \cup QuantityConflicts(Stated(es))
      \cup UNION {StringConflict(port, Id(lc), Value(lc, port), Id(bl), Value(bl, port), Port) :
                    port \in {"loading_port", "discharge_port"}}

-------------------------------------------------------------------------------
\* dna_fingerprint: the normal forms joined, missing ones as nothing.
Fingerprint(es) ==
  LET form(name, normal) ==
        IF Raw(es, name) = None THEN None ELSE normal[Raw(es, name)]
      there(v) == v # None
  IN  SelectSeq(<<Raw(es, "bl_number"), form("vessel_name", FreeText),
                  form("loading_port", Port), form("discharge_port", Port),
                  Raw(es, "shipment_date"), form("exporter", EntityName)>>, there)

build_transaction_dna(es) ==
  LET given == {name \in DnaFields : Raw(es, name) # None}
  IN  [raw         |-> [name \in DnaFields |-> Raw(es, name)],
       sources     |-> [name \in given |-> Source(es, name)],
       quantity    |-> CanonicalQuantity(es),
       unitValue   |-> UnitValue(es),
       conflicts   |-> Conflicts(es),
       fingerprint |-> Fingerprint(es)]
===============================================================================
