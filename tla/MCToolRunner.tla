----------------------------- MODULE MCToolRunner -----------------------------
(* ToolRunner on a small set of DNA and a reference data of a few records.     *)
EXTENDS ToolRunner

AllNames == {"acme", "acme co", "north star", "ocean_star", "mary", "marian"}

\* The schedule knows OCEAN STAR, the DNA ocean_star: only a name of one word can
\* be found, the others need their IMO number.
Ships  == [n \in AllNames |-> IF n = "mary" THEN "MARY" ELSE IF n = "ocean_star" THEN "OCEAN_STAR" ELSE "OTHER"]
Voyages == <<[name |-> "OCEAN STAR", imo |-> "9876543", port |-> "Mundra", day |-> 40],
             [name |-> "MARY", imo |-> "8765432", port |-> "Kandla", day |-> 40]>>
Parts  == {<<"Mundra", "Mundra">>, <<"Kandla", "Kandla">>}

SomeDays   == {0, 38, 43, 44, 100}
Quarters   == [d \in SomeDays |-> IF d = 100 THEN "Q2" ELSE "Q1"]
Countries  == [INMUN |-> "India", SGSIN |-> "Singapore"]
PortTexts  == [INMUN |-> "Mundra", SGSIN |-> "Singapore"]
Corridors  == {<<"1006.30", "India", "Singapore", "Q1">>}
Benchmarks == [c \in Corridors |-> 340]
Companies  == {<<"acme", "India">>}

Normal  == [n \in AllNames |-> IF n = "acme co" THEN "acme" ELSE n]
Listed  == <<[name |-> "maria", identifier |-> TRUE],
             [name |-> "north star", identifier |-> TRUE],
             [name |-> "acme", identifier |-> FALSE]>>
\* One name at the threshold, one below it, of the same record.
Ratios ==
  [a \in Forms |-> [b \in Forms |->
     IF a = b THEN 100
     ELSE IF {a, b} = {"mary", "maria"} THEN 82
     ELSE IF {a, b} = {"marian", "maria"} THEN 81 ELSE 20]]

Dna(loading, shipped, unitValue, vessel, imo, exporter, importer) ==
  [hs |-> "1006.30", loading |-> loading, discharge |-> "SGSIN", shipped |-> shipped,
   unitValue |-> unitValue, vessel |-> vessel, imo |-> imo, exporter |-> exporter,
   importer |-> importer]

SomeDnas ==
  {Dna("INMUN", d, 340, "mary", "9876543", "acme", "north star") : d \in {None, 38, 43, 44, 100}}
  \cup {Dna("INMUN", 38, v, "ocean_star", None, "acme co", "mary") : v \in {None, 341, 510, 511}}
  \cup {Dna(port, 43, 340, "mary", None, e, i) :
          port \in {None, "INIXY"}, e \in {None, "north star"}, i \in {None, "mary", "marian"}}

Time(inner, outer, attempts) == [inner |-> inner, outer |-> outer, attempts |-> attempts]

\* The defaults, a ratio that leaves room for both attempts, and one that leaves
\* none for the audit calls.
SomeLimits == {Time(3, 3, 2), Time(1, 5, 2), Time(2, 4, 2), Time(2, 5, 1)}
===============================================================================
