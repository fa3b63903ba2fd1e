\* Documents in every state that matters, an LC with and without a list, every
\* selection of an LLM planner, every failure, a change of the documents during the run.
SPECIFICATION FairSpec
CHECK_DEADLOCK FALSE  \* a run ends
CONSTANTS
  Types = {"LC", "BL"}
  LC = "LC"
  DocStates <- FourStates
  LcTerms <- ListOrNone
  Budgets <- FewBudgets
  Verdicts <- NoVerdict
  DnaResults <- FewDna
  Matches <- NoMatch
  Prices <- NormalPrice
  Vessels <- Consistent
  EntityResults <- Verified
  SanctionsResults <- NotListed
  NoDna = NoDna
  Bedrock = TRUE
  MayHang = TRUE
  MayFail = TRUE
  MaxDocChanges = 1
INVARIANTS TypeOK ReadyIsComplete IncompleteVerdictExplained TrailAccountsForRun
PROPERTIES RecommendationSpec RunEnds
