------------------------------ MODULE FraudTools ------------------------------
(***************************************************************************)
(* What the four fraud tools answer about a transaction DNA: the questions *)
(* fraud_tbml_runner.py draws from the DNA, and the answers the providers  *)
(* of src/fraud_tbml/ give from their reference data.                      *)
(*                                                                         *)
(* Prices are whole numbers, days count from 1970-01-01.  Provenance,      *)
(* rationale, caveats and the numbers that only describe an answer are     *)
(* left out.                                                               *)
(***************************************************************************)
EXTENDS Integers, Sequences, FiniteSets

CONSTANTS
  None,       \* a field the DNA does not have
  Names,      \* names of parties and vessels, as the DNA has them
  Days,       \* dates of shipment; 0 is 1970-01-01
  QuarterOf,  \* QuarterOf[d]: the quarter of day d
  CountryOf,  \* PORT_COUNTRIES on the ports it knows
  PortNameOf, \* PORT_NAMES on the ports it knows
  Prices,     \* Prices[<<hs, from, to, quarter>>]: the P90 of a corridor
  Schedules,  \* a sequence of [name, imo, port, day]
  Capitals,   \* Capitals[n]: n in capitals, without "MV "
  Within,     \* pairs of ports: the first is part of the second
  Registry,   \* a set of <<normal name, country>>
  NameForm,   \* NameForm[n]: normalize_name(n)
  SdnList,    \* a sequence of [name, identifier], its names in normal form
  Ratio,      \* Ratio[a][b]: the similarity of two normal forms, 0..100
  Threshold   \* possible_match_threshold

Forms == {NameForm[n] : n \in Names} \cup {SdnList[i].name : i \in DOMAIN SdnList}

ASSUME ToolsAssumption ==
  /\ None \notin Names
  /\ None \notin Days
  /\ 0 \in Days /\ Days \subseteq Int
  /\ DOMAIN QuarterOf = Days
  /\ DOMAIN NameForm = Names
  /\ SdnList \in Seq([name : STRING, identifier : BOOLEAN])
  /\ SdnList # <<>>
  /\ Ratio \in [Forms -> [Forms -> 0..100]]
  /\ \A a, b \in Forms : Ratio[a][b] = 100 <=> a = b
  /\ Threshold \in 0..100

Roles == {"exporter", "importer"}

\* The runner's fallbacks for fields the DNA lacks.
DayOf(d) == IF d.shipped # None THEN d.shipped ELSE 0

Country(port) == IF port \in DOMAIN CountryOf THEN CountryOf[port] ELSE "Unknown"

StatedPort(d) ==
  IF d.loading \in DOMAIN PortNameOf THEN PortNameOf[d.loading]
  ELSE IF d.loading # None THEN d.loading
  ELSE "UNKNOWN"

\* _entities: the named parties.
Entities(d) == {role \in Roles : d[role] # None}

CountryOfParty(d, role) == Country(IF role = "exporter" THEN d.loading ELSE d.discharge)

\* What is answered for in one call: the transaction, or each of its parties.
Subjects(tool, d) ==
  IF tool \in {"price_benchmark", "vessel_verification"} THEN {"transaction"} ELSE Entities(d)

Answer(status)    == [status |-> status, known |-> TRUE]
Unavailable(tool) ==
  [status |-> IF tool = "entity_verification" THEN "UNVERIFIED" ELSE "DATA_UNAVAILABLE",
   known  |-> FALSE]

-------------------------------------------------------------------------------
(* The four providers *)

\* benchmark.  A DNA without unit value is asked about as 0.
Price(d) ==
  LET corridor == <<IF d.hs # None THEN d.hs ELSE "UNKNOWN", Country(d.loading),
                    Country(d.discharge), QuarterOf[DayOf(d)]>>
      value    == IF d.unitValue # None THEN d.unitValue ELSE 0
  IN  IF corridor \notin DOMAIN Prices THEN Unavailable("price_benchmark")
      ELSE Answer(IF value <= Prices[corridor] THEN "NORMAL"
                  ELSE IF 2 * value <= 3 * Prices[corridor] THEN "REVIEW"
                  ELSE "SIGNIFICANT_ANOMALY")

\* verify of vessels: the first record with the name or the IMO number.
Calls(d) ==
  {i \in DOMAIN Schedules :
     \/ d.vessel # None /\ Schedules[i].name = Capitals[d.vessel]
     \/ d.imo # None /\ Schedules[i].imo = d.imo}

Near(a, b) == a - b \in -3..3

Vessel(d) ==
  IF Calls(d) = {} THEN Unavailable("vessel_verification")
  ELSE LET call == Schedules[CHOOSE i \in Calls(d) : \A j \in Calls(d) : i <= j]
       IN  Answer(IF <<call.port, StatedPort(d)>> \in Within /\ Near(call.day, DayOf(d))
                  THEN "CONSISTENT" ELSE "ANOMALY")

\* verify of entities
Entity(d, role) ==
  Answer(IF <<NameForm[d[role]], CountryOfParty(d, role)>> \in Registry
         THEN "VERIFIED" ELSE "UNVERIFIED")

\* Mutant: the first similar record stands for the list.
FirstSimilar(form) ==
  LET similar == {i \in DOMAIN SdnList : Ratio[form][SdnList[i].name] > 0}
  IN  IF similar = {} THEN 1 ELSE CHOOSE i \in similar : \A j \in similar : i <= j

\* _screen_one: the first of the records with the highest score.
Best(form) ==
  CHOOSE i \in DOMAIN SdnList : \A j \in DOMAIN SdnList :
    /\ Ratio[form][SdnList[j].name] <= Ratio[form][SdnList[i].name]
    /\ j < i => Ratio[form][SdnList[j].name] < Ratio[form][SdnList[i].name]

Screen(form) ==
  LET best == SdnList[Best(form)]
  IN  Answer(IF form = best.name /\ best.identifier THEN "CONFIRMED_SOURCE_MATCH"
             ELSE IF Ratio[form][best.name] >= Threshold THEN "POSSIBLE_MATCH"
             ELSE "NO_MATCH")

Verdict(tool, d, subject) ==
  CASE tool = "price_benchmark"     -> Price(d)
    [] tool = "vessel_verification" -> Vessel(d)
    [] tool = "entity_verification" -> Entity(d, subject)
    [] tool = "sanctions_screening" -> Screen(NameForm[d[subject]])
===============================================================================
