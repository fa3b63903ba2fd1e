---------------------------- MODULE MCInvestigation ----------------------------
(* Investigation on small sets.  Each run opens some of the choices wide and   *)
(* keeps the others narrow.                                                    *)
EXTENDS Investigation

Terms(listed, required, plural) ==
  [listed |-> listed, required |-> required, plural |-> plural]

\* Both documents asked for once, no list of documents, copies of one.
BothRequired == {Terms(TRUE, Types, {})}
ListOrNone   == BothRequired \union {Terms(FALSE, {}, {})}

\* The run treats PENDING and FAILED as ABSENT, except that it ends at once when
\* every document is ABSENT.
FourStates == {"ABSENT", "FAILED_KEPT", "PARTIAL", "EXTRACTED"}
Ready      == {"EXTRACTED"}

Dna(attention, bl, highValue, vesselConflict, named) ==
  [attention |-> attention, bl |-> bl, highValue |-> highValue,
   vesselConflict |-> vesselConflict, named |-> named]

AllDna ==
  {d \in [attention : BOOLEAN, bl : BOOLEAN, highValue : BOOLEAN,
          vesselConflict : BOOLEAN, named : SUBSET Parties] :
     d.vesselConflict => d.attention}
FewDna   == {Dna(a, ~a, FALSE, FALSE, {"exporter"}) : a \in BOOLEAN}

Finding(m, o) == [material |-> m, waivable |-> 0, other |-> o]
NoVerdict   == {Finding(0, 0)}
AllVerdicts == {Finding(0, 0), Finding(0, 2), Finding(1, 0), Finding(2, 1)}

AllMatches   == MatchLevels \ {"NOT_RUN"}
AllPrices    == PriceSignals \ {"NOT_RUN"}
AllVessels   == VesselSignals \ {"NOT_RUN"}
AllSanctions == SanctionsSignals \ {"NOT_RUN", "UNNAMED"}

NoMatch     == {"NONE"}
NormalPrice == {"NORMAL"}
Consistent  == {"CONSISTENT"}
Verified    == {"VERIFIED"}
NotListed   == {"NO_MATCH"}

FewBudgets  == {2, 5}
Plenty      == {12}
===============================================================================
