------------------------------ MODULE MCCrossIBU ------------------------------
(* CrossIBU with three units, one of which is not among those looked up by key, *)
(* one case each, and four signals: one trade, without its B/L, or another.    *)
EXTENDS CrossIBU, TLC

MCUnitOf == [c \in Cases |-> IF c = "ca" THEN "A" ELSE IF c = "cb" THEN "B" ELSE "D"]

Trade ==
  [bl |-> "BL1", voyage |-> "V1", vessel |-> "star", exporter |-> "abc", date |-> "d00",
   loading |-> "INMUN", discharge |-> "SGSIN"]

\* The same trade in documents that show neither the B/L number nor the date.
NoBl == [Trade EXCEPT !["bl"] = NoValue, !["date"] = NoValue]

\* Another B/L of the same voyage; another trade of the same exporter.
Variant == [Trade EXCEPT !["bl"] = "BL2"]
Repeat == [Trade EXCEPT !["bl"] = "BL9", !["vessel"] = "moon", !["voyage"] = "V9",
                        !["date"] = "d20"]

MCSimilarity(a, b) == IF a = b THEN 100 ELSE 0
MCDays(a, b) == IF a = b THEN 0 ELSE 20

Trades == {Trade, NoBl, Variant, Repeat}

MCStartDna == {[c \in Cases |-> IF c = "cd" THEN NoSignal ELSE Trade]}

Ask(op, c, unit) == [op |-> op, case |-> c, ibu |-> unit]

MCInputs ==
  {Ask("register", "ca", "A"), Ask("register", "cd", "D"), Ask("query", "cb", "B"),
   Ask("query", "ca", "B")}

Interchangeable == Permutations(Requests)
===============================================================================
