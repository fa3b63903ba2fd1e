--------------------------- MODULE ToolRunnerProofs ---------------------------
(***************************************************************************)
(* Proofs about one call of a fraud tool, for any DNA, any reference data  *)
(* and any time-outs and number of attempts.                               *)
(***************************************************************************)
EXTENDS ToolRunner, FiniteSetTheorems, SequenceTheorems, WellFoundedInduction, TLAPS

-------------------------------------------------------------------------------
(* The providers *)

\* An answer of tool t; one nobody gave does not clear anybody.
Result(t) == {r \in [status : Signals[t], known : BOOLEAN] : ~r.known => r.status # "NO_MATCH"}

USE DEF Agent!PriceSignals, Agent!VesselSignals, Agent!EntitySignals, Agent!SanctionsSignals

LEMMA SignalsOf ==
  /\ Signals["price_benchmark"] =
       {"NORMAL", "REVIEW", "SIGNIFICANT_ANOMALY", "DATA_UNAVAILABLE"}
  /\ Signals["vessel_verification"] = {"CONSISTENT", "ANOMALY", "DATA_UNAVAILABLE"}
  /\ Signals["entity_verification"] = {"VERIFIED", "UNVERIFIED", "SUSPICIOUS"}
  /\ Signals["sanctions_screening"] =
       {"NO_MATCH", "POSSIBLE_MATCH", "CONFIRMED_SOURCE_MATCH", "DATA_UNAVAILABLE"}
BY DEF Signals

LEMMA AnswerTyped ==
  ASSUME NEW t, NEW s \in Signals[t]
  PROVE  Answer(s) \in Result(t) /\ Answer(s).known
BY DEF Answer, Result

LEMMA UnavailableTyped ==
  ASSUME NEW t \in Tools
  PROVE  Unavailable(t) \in Result(t) /\ ~Unavailable(t).known
         /\ Unavailable(t).status # "NO_MATCH"
<1>1. CASE t = "entity_verification"
  BY <1>1, SignalsOf DEF Unavailable, Result
<1>2. CASE t # "entity_verification"
  <2>1. "DATA_UNAVAILABLE" \in Signals[t]
    BY <1>2, SignalsOf DEF Tools
  <2> QED
    BY <1>2, <2>1 DEF Unavailable, Result
<1> QED
  BY <1>1, <1>2

LEMMA PriceTyped ==
  ASSUME NEW d
  PROVE  Price(d) \in Result("price_benchmark")
<1> DEFINE t == "price_benchmark"
           corridor == <<IF d.hs # None THEN d.hs ELSE "UNKNOWN", Country(d.loading),
                         Country(d.discharge), QuarterOf[DayOf(d)]>>
           value == IF d.unitValue # None THEN d.unitValue ELSE 0
           signal == IF value <= Prices[corridor] THEN "NORMAL"
                     ELSE IF 2 * value <= 3 * Prices[corridor] THEN "REVIEW"
                     ELSE "SIGNIFICANT_ANOMALY"
<1>1. Price(d) = IF corridor \notin DOMAIN Prices THEN Unavailable(t) ELSE Answer(signal)
  BY Zenon DEF Price
<1>2. signal \in {"NORMAL", "REVIEW", "SIGNIFICANT_ANOMALY"}
  BY Zenon
<1> HIDE DEF corridor, signal
<1>3. signal \in Signals[t] /\ t \in Tools
  BY <1>2, SignalsOf DEF Tools
<1> QED
  BY <1>1, <1>3, AnswerTyped, UnavailableTyped

LEMMA VesselTyped ==
  ASSUME NEW d
  PROVE  Vessel(d) \in Result("vessel_verification")
<1> DEFINE t == "vessel_verification"
<1>1. "CONSISTENT" \in Signals[t] /\ "ANOMALY" \in Signals[t] /\ t \in Tools
  BY SignalsOf DEF Tools
<1>2. Answer("CONSISTENT") \in Result(t) /\ Answer("ANOMALY") \in Result(t)
  BY <1>1, AnswerTyped
<1> QED
  BY <1>1, <1>2, UnavailableTyped, Zenon DEF Vessel

LEMMA EntityTyped ==
  ASSUME NEW d, NEW role
  PROVE  Entity(d, role) \in Result("entity_verification")
<1> DEFINE t == "entity_verification"
<1>1. "VERIFIED" \in Signals[t] /\ "UNVERIFIED" \in Signals[t]
  BY SignalsOf
<1>2. Answer("VERIFIED") \in Result(t) /\ Answer("UNVERIFIED") \in Result(t)
  BY <1>1, AnswerTyped
<1> QED
  BY <1>2, Zenon DEF Entity

LEMMA ScreenTyped ==
  ASSUME NEW form
  PROVE  Screen(form) \in Result("sanctions_screening") /\ Screen(form).known
<1> DEFINE t == "sanctions_screening"
<1>1. {"CONFIRMED_SOURCE_MATCH", "POSSIBLE_MATCH", "NO_MATCH"} \subseteq Signals[t]
  BY SignalsOf
<1>2. \A s \in {"CONFIRMED_SOURCE_MATCH", "POSSIBLE_MATCH", "NO_MATCH"} :
        Answer(s) \in Result(t) /\ Answer(s).known
  BY <1>1, AnswerTyped
<1> QED
  BY <1>2, Zenon DEF Screen

LEMMA VerdictTyped ==
  ASSUME NEW d, NEW t \in Tools, NEW s
  PROVE  Verdict(t, d, s) \in Result(t)
<1>1. t = "price_benchmark" \/ t = "vessel_verification" \/ t = "entity_verification"
      \/ t = "sanctions_screening"
  BY DEF Tools
<1>2. CASE t = "price_benchmark"
  <2>1. Verdict(t, d, s) = Price(d)
    BY <1>2, Zenon DEF Verdict
  <2> QED BY <1>2, <2>1, PriceTyped
<1>3. CASE t = "vessel_verification"
  <2>1. Verdict(t, d, s) = Vessel(d)
    BY <1>3, Zenon DEF Verdict
  <2> QED BY <1>3, <2>1, VesselTyped
<1>4. CASE t = "entity_verification"
  <2>1. Verdict(t, d, s) = Entity(d, s)
    BY <1>4, Zenon DEF Verdict
  <2> QED BY <1>4, <2>1, EntityTyped
<1>5. CASE t = "sanctions_screening"
  <2>1. Verdict(t, d, s) = Screen(NameForm[d[s]])
    BY <1>5, Zenon DEF Verdict
  <2> QED BY <1>5, <2>1, ScreenTyped
<1> QED BY <1>1, <1>2, <1>3, <1>4, <1>5

\* The least of a set of positions.
LEMMA LeastExists ==
  ASSUME NEW S \in SUBSET Nat, S # {}
  PROVE  \E i \in S : \A j \in S : i <= j
<1> DEFINE R == OpToRel(<, Nat)
<1>1. \E x \in S : \A y \in S : ~ (<<y, x>> \in R)
  BY NatLessThanWellFounded, WFMin
<1>2. \A x, y \in Nat : <<y, x>> \in R <=> y < x
  BY DEF OpToRel
<1> HIDE DEF R
<1>3. PICK x \in S : \A y \in S : ~ (<<y, x>> \in R)
  BY <1>1
<1>4. ASSUME NEW y \in S PROVE x <= y
  <2>1. x \in Nat /\ y \in Nat
    OBVIOUS
  <2>2. ~(y < x)
    BY <1>2, <1>3, <2>1, Zenon
  <2> QED
    BY <2>1, <2>2
<1> QED
  BY <1>4

\* The similarity of a form to record i of the list.
Like(form, i) == Ratio[form][SdnList[i].name]

LEMMA LikeTyped ==
  ASSUME NEW form \in Forms, NEW i \in DOMAIN SdnList
  PROVE  Like(form, i) \in 0..100 /\ (Like(form, i) = 100 <=> SdnList[i].name = form)
<1>1. SdnList[i].name \in Forms
  BY DEF Forms
<1> QED
  BY <1>1, ToolsAssumption DEF Like

\* Some record is the most similar one, and a first one of these is chosen: it is
\* found by its distance from 100.
LEMMA BestIsMostSimilar ==
  ASSUME NEW form \in Forms
  PROVE  /\ Best(form) \in DOMAIN SdnList
         /\ \A j \in DOMAIN SdnList : Like(form, j) <= Like(form, Best(form))
<1> DEFINE Distances == {100 - Like(form, i) : i \in DOMAIN SdnList}
           Wins(i) == \A j \in DOMAIN SdnList :
                        /\ Like(form, j) <= Like(form, i)
                        /\ j < i => Like(form, j) < Like(form, i)
<1>1. DOMAIN SdnList \subseteq Nat /\ DOMAIN SdnList # {}
  <2>1. SdnList \in Seq([name : STRING, identifier : BOOLEAN]) /\ SdnList # <<>>
    BY ToolsAssumption
  <2>2. DOMAIN SdnList = 1..Len(SdnList)
    BY <2>1
  <2>3. Len(SdnList) \in Nat \ {0}
    BY <2>1, EmptySeq
  <2> QED
    BY <2>2, <2>3
<1>2. \A i \in DOMAIN SdnList : Like(form, i) \in 0..100
  BY LikeTyped
<1>3. Distances \in SUBSET Nat /\ Distances # {}
  BY <1>1, <1>2
<1>4. PICK d \in Distances : \A e \in Distances : d <= e
  BY <1>3, LeastExists
<1> DEFINE S == {i \in DOMAIN SdnList : 100 - Like(form, i) = d}
<1>5. S \in SUBSET Nat /\ S # {}
  BY <1>1, <1>4
<1>6. PICK m \in S : \A j \in S : m <= j
  BY <1>5, LeastExists
<1>7. Wins(m)
  <2>1. TAKE j \in DOMAIN SdnList
  <2>2. d <= 100 - Like(form, j) /\ 100 - Like(form, m) = d /\ m \in DOMAIN SdnList
    BY <1>4, <1>6
  <2>3. Like(form, j) \in 0..100 /\ Like(form, m) \in 0..100 /\ d \in Nat
    BY <1>2, <1>3, <1>4, <2>2
  <2>4. j < m => j \notin S
    BY <1>1, <1>6
  <2>5. j < m => 100 - Like(form, j) # d
    BY <2>4
  <2> QED
    BY <2>2, <2>3, <2>5
<1>8. Best(form) = CHOOSE i \in DOMAIN SdnList : Wins(i)
  BY Zenon DEF Best, Like
<1>9. m \in DOMAIN SdnList
  BY <1>6
<1> HIDE DEF Wins
<1>10. Best(form) \in DOMAIN SdnList /\ Wins(Best(form))
  BY <1>7, <1>8, <1>9, Zenon
<1> QED
  BY <1>10 DEF Wins

\* The answer for one name: clear exactly if nothing on the list is similar.
LEMMA ScreenedForSimilarity ==
  ASSUME NEW form \in Forms
  PROVE  Screen(form).status = "NO_MATCH" <=> Similar(form) = {}
<1> DEFINE best == SdnList[Best(form)]
<1>1. Best(form) \in DOMAIN SdnList /\ \A j \in DOMAIN SdnList : Like(form, j) <= Like(form, Best(form))
  BY BestIsMostSimilar
<1>2. Threshold \in 0..100 /\ \A j \in DOMAIN SdnList : Like(form, j) \in 0..100
  BY LikeTyped, ToolsAssumption
<1>3. Similar(form) = {} <=> ~(Like(form, Best(form)) >= Threshold)
  <2>1. \A i : i \in Similar(form) <=> i \in DOMAIN SdnList /\ Like(form, i) >= Threshold
    BY DEF Similar, Like
  <2>2. Similar(form) = {} <=> \A i \in DOMAIN SdnList : ~(Like(form, i) >= Threshold)
    BY <2>1
  <2> QED
    BY <1>1, <1>2, <2>2
<1>4. form = best.name => Like(form, Best(form)) = 100
  BY <1>1, LikeTyped
<1>5. Screen(form) = Answer(IF form = best.name /\ best.identifier THEN "CONFIRMED_SOURCE_MATCH"
                            ELSE IF Like(form, Best(form)) >= Threshold THEN "POSSIBLE_MATCH"
                            ELSE "NO_MATCH")
  BY Zenon DEF Screen, Like
<1>6. form = best.name => Like(form, Best(form)) >= Threshold
  BY <1>2, <1>4
<1>7. CASE Like(form, Best(form)) >= Threshold
  <2>1. Screen(form) = Answer("CONFIRMED_SOURCE_MATCH") \/ Screen(form) = Answer("POSSIBLE_MATCH")
    BY <1>5, <1>7, Zenon
  <2> QED
    BY <1>3, <1>7, <2>1 DEF Answer
<1>8. CASE ~(Like(form, Best(form)) >= Threshold)
  <2>1. Screen(form) = Answer("NO_MATCH")
    BY <1>5, <1>6, <1>8, Zenon
  <2> QED
    BY <1>3, <1>8, <2>1 DEF Answer
<1> QED
  BY <1>7, <1>8

\* A name on the list is similar to a record, whatever the threshold.
LEMMA ListedIsSimilar ==
  ASSUME NEW form \in Forms, NEW k \in DOMAIN SdnList, SdnList[k].name = form
  PROVE  Similar(form) # {}
<1>1. Like(form, k) = 100
  BY LikeTyped
<1>2. Threshold \in 0..100
  BY ToolsAssumption
<1> QED
  BY <1>1, <1>2 DEF Similar, Like

-------------------------------------------------------------------------------
(* The call *)

\* Time adds up: what was not spent in audit calls was spent in attempts, each
\* within the inner time-out; a call without result waited out the outer one, or
\* lost an audit event.
Clock ==
  /\ phase = "started" => attempt = 0 /\ now = inAudit /\ answered = {}
  /\ phase = "ask" => /\ attempt >= 1
                      /\ began <= inAudit + (attempt - 1) * limits.inner
                      /\ now <= began + limits.inner
  /\ phase \in {"completed", "record", "done", "raised"} =>
       now <= inAudit + limits.attempts * limits.inner
  /\ Ended /\ status = "DATA_UNAVAILABLE" /\ ~lost => now >= limits.outer
  /\ ~Ended => status = "COMPLETED" /\ ~lost

\* The result part.
ResultOK ==
  /\ IF HasResult
     THEN result \in [Subjects(tool, dna) -> Result(tool)]
     ELSE result = None
  /\ AnswersWhole

RunnerInv == TypeOK /\ Clock /\ ResultOK

USE DEF call

LEMMA Multiples ==
  ASSUME NEW a \in Nat, NEW b \in Nat, NEW t \in Nat, a <= b
  PROVE  /\ a * t \in Nat /\ b * t \in Nat
         /\ a * t <= b * t
         /\ a >= 1 => (a - 1) * t + t = a * t
         /\ (a + 1 - 1) * t = a * t
OBVIOUS

LEMMA LimitsTyped ==
  ASSUME TypeOK
  PROVE  /\ limits.inner \in Nat \ {0} /\ limits.outer \in Nat \ {0}
         /\ limits.attempts \in Nat \ {0}
         /\ now \in Nat /\ inAudit \in Nat /\ attempt \in Nat /\ began \in Nat
         /\ inAudit <= now /\ began <= now /\ now <= limits.outer
         /\ attempt <= limits.attempts
BY RunnerAssumption DEF TypeOK

LEMMA InitRunner == Init => RunnerInv
<1> SUFFICES ASSUME Init PROVE RunnerInv
  OBVIOUS
<1>1. /\ limits.outer \in Nat \ {0} /\ limits.attempts \in Nat \ {0}
  BY RunnerAssumption DEF Init
<1>2. ~HasResult /\ ~Ended
  BY DEF Init, HasResult, Ended
<1>3. dna \in Dnas /\ tool \in Tools /\ limits \in Limits /\ phase = "started"
      /\ now = 0 /\ inAudit = 0 /\ attempt = 0 /\ began = 0 /\ answered = {}
      /\ result = None /\ status = "COMPLETED" /\ lost = FALSE /\ trail = {}
  BY DEF Init
<1>4. TypeOK
  <2>1. IF HasResult
        THEN result \in [Subjects(tool, dna) -> [status : Signals[tool], known : BOOLEAN]]
        ELSE result = None
    BY <1>2, <1>3
  <2>2. now \in 0..limits.outer /\ inAudit \in 0..now /\ attempt \in 0..limits.attempts
        /\ began \in 0..now
    BY <1>1, <1>3
  <2> QED
    BY <1>3, <2>1, <2>2 DEF TypeOK
<1>5. Clock
  BY <1>2, <1>3 DEF Clock
<1> QED
  BY <1>2, <1>3, <1>4, <1>5 DEF RunnerInv, ResultOK, AnswersWhole

\* The provider's answers and the typed unavailable result are whole results.
LEMMA ResultsWhole ==
  ASSUME TypeOK
  PROVE  /\ Answers \in [Subjects(tool, dna) -> Result(tool)]
         /\ \A s \in Subjects(tool, dna) : Answers[s] = Verdict(tool, dna, s)
         /\ AllUnavailable \in [Subjects(tool, dna) -> Result(tool)]
         /\ \A s \in Subjects(tool, dna) : AllUnavailable[s] = Unavailable(tool)
<1>1. tool \in Tools
  BY DEF TypeOK
<1>2. \A s : Verdict(tool, dna, s) \in Result(tool)
  BY <1>1, VerdictTyped
<1>3. Unavailable(tool) \in Result(tool) /\ ~Unavailable(tool).known
  BY <1>1, UnavailableTyped
<1> QED
  BY <1>2, <1>3 DEF Answers, AllUnavailable

LEMMA ResultKept ==
  ASSUME RunnerInv, UNCHANGED <<dna, tool, result>>, HasResult' = HasResult
  PROVE  ResultOK'
BY DEF RunnerInv, ResultOK, AnswersWhole

LEMMA ResultGiven ==
  ASSUME TypeOK, UNCHANGED <<dna, tool>>, HasResult',
         result' = Answers \/ result' = AllUnavailable
  PROVE  ResultOK'
BY ResultsWhole DEF ResultOK, AnswersWhole

LEMMA ResultDropped ==
  ASSUME result' = None, ~HasResult'
  PROVE  ResultOK'
BY DEF ResultOK, AnswersWhole

\* The rest of TypeOK.
LEMMA TypeStep ==
  ASSUME TypeOK, UNCHANGED call, ResultOK',
         phase' \in {"started", "ask", "completed", "record", "done", "raised"},
         now' \in 0..limits.outer, inAudit' \in 0..now', attempt' \in 0..limits.attempts,
         began' \in 0..now', answered' \subseteq Subjects(tool, dna),
         status' \in {"COMPLETED", "DATA_UNAVAILABLE"}, lost' \in BOOLEAN,
         trail' \subseteq {"STARTED", "COMPLETED", "RECORDED"}
  PROVE  TypeOK'
BY DEF TypeOK, ResultOK, Result

USE DEF Ended, HasResult

LEMMA AuditStartedKeeps ==
  ASSUME RunnerInv, AuditStarted
  PROVE  RunnerInv'
<1>1. ResultOK'
  BY ResultKept DEF AuditStarted, RunnerInv, Clock
<1>2. Clock'
  BY LimitsTyped, Multiples DEF AuditStarted, RunnerInv, Clock
<1>3. TypeOK'
  BY <1>1, TypeStep, LimitsTyped DEF AuditStarted, RunnerInv, TypeOK
<1> QED
  BY <1>1, <1>2, <1>3 DEF RunnerInv, ResultOK

LEMMA AuditFailsKeeps ==
  ASSUME RunnerInv, AuditFails
  PROVE  RunnerInv'
<1>1. ResultOK'
  BY ResultDropped DEF AuditFails
<1>2. limits.attempts * limits.inner \in Nat
  BY LimitsTyped, Multiples DEF RunnerInv
<1>3. Clock'
  BY <1>2, LimitsTyped DEF AuditFails, RunnerInv, Clock
<1>4. TypeOK'
  BY <1>1, TypeStep, LimitsTyped DEF AuditFails, RunnerInv, TypeOK
<1> QED
  BY <1>1, <1>3, <1>4 DEF RunnerInv, ResultOK

\* What is left of the attempts when one of them ends.
LEMMA AttemptEnds ==
  ASSUME RunnerInv, phase = "ask"
  PROVE  /\ now <= inAudit + attempt * limits.inner
         /\ attempt * limits.inner <= limits.attempts * limits.inner
         /\ attempt * limits.inner \in Nat /\ limits.attempts * limits.inner \in Nat
         /\ (attempt + 1 - 1) * limits.inner = attempt * limits.inner
<1>1. /\ attempt >= 1
      /\ began <= inAudit + (attempt - 1) * limits.inner
      /\ now <= began + limits.inner
  BY DEF RunnerInv, Clock
<1>2. /\ limits.inner \in Nat /\ attempt \in Nat /\ limits.attempts \in Nat
      /\ now \in Nat /\ inAudit \in Nat /\ began \in Nat /\ attempt <= limits.attempts
  BY LimitsTyped DEF RunnerInv
<1> DEFINE before == (attempt - 1) * limits.inner
           upto   == attempt * limits.inner
           all    == limits.attempts * limits.inner
<1>3. /\ before + limits.inner = upto /\ upto \in Nat /\ all \in Nat /\ upto <= all
      /\ (attempt + 1 - 1) * limits.inner = upto
  BY <1>1, <1>2, Multiples
<1>4. before \in Int
  BY <1>1, <1>2
<1>5. began <= inAudit + before
  BY <1>1
<1> HIDE DEF before, upto, all
<1>6. now <= inAudit + upto
  BY <1>1, <1>2, <1>3, <1>4, <1>5
<1> QED
  BY <1>3, <1>6 DEF upto, all

LEMMA ProviderAnswersKeeps ==
  ASSUME RunnerInv, ProviderAnswers
  PROVE  RunnerInv'
<1>1. answered' \subseteq Subjects(tool, dna)
  BY DEF ProviderAnswers, AnsweredNext, First, RunnerInv, TypeOK
<1>2. CASE answered' = Subjects(tool, dna)
  <2>1. ResultOK'
    BY <1>2, ResultGiven DEF ProviderAnswers, RunnerInv
  <2>2. Clock'
    BY <1>2, AttemptEnds, LimitsTyped DEF ProviderAnswers, RunnerInv, Clock
  <2>3. TypeOK'
    BY <1>1, <1>2, <2>1, TypeStep, LimitsTyped DEF ProviderAnswers, RunnerInv, TypeOK
  <2> QED
    BY <2>1, <2>2, <2>3 DEF RunnerInv, ResultOK
<1>3. CASE answered' # Subjects(tool, dna)
  <2>1. ResultOK'
    BY <1>3, ResultKept DEF ProviderAnswers
  <2>2. Clock'
    BY <1>3 DEF ProviderAnswers, RunnerInv, Clock
  <2>3. TypeOK'
    BY <1>1, <1>3, <2>1, TypeStep, LimitsTyped DEF ProviderAnswers, RunnerInv, TypeOK
  <2> QED
    BY <2>1, <2>2, <2>3 DEF RunnerInv, ResultOK
<1> QED
  BY <1>2, <1>3

\* An attempt ends without an answer.
LEMMA RetryKeeps ==
  ASSUME RunnerInv, phase = "ask", RetryOrGiveUp,
         UNCHANGED <<call, now, inAudit, status, lost, trail>>
  PROVE  RunnerInv'
<1>1. CASE attempt < limits.attempts
  <2>1. ResultOK'
    BY <1>1, ResultKept DEF RetryOrGiveUp
  <2>2. Clock'
    BY <1>1, AttemptEnds, LimitsTyped DEF RetryOrGiveUp, RunnerInv, Clock
  <2>3. TypeOK'
    BY <1>1, <2>1, TypeStep, LimitsTyped DEF RetryOrGiveUp, RunnerInv, TypeOK
  <2> QED
    BY <2>1, <2>2, <2>3 DEF RunnerInv, ResultOK
<1>2. CASE ~(attempt < limits.attempts)
  <2>1. ResultOK'
    BY <1>2, ResultGiven DEF RetryOrGiveUp, RunnerInv
  <2>2. Clock'
    BY <1>2, AttemptEnds, LimitsTyped DEF RetryOrGiveUp, RunnerInv, Clock
  <2>3. TypeOK'
    BY <1>2, <2>1, TypeStep, LimitsTyped DEF RetryOrGiveUp, RunnerInv, TypeOK
  <2> QED
    BY <2>1, <2>2, <2>3 DEF RunnerInv, ResultOK
<1> QED
  BY <1>1, <1>2

LEMMA ProviderRaisesKeeps ==
  ASSUME RunnerInv, ProviderRaises
  PROVE  RunnerInv'
<1>1. ResultOK'
  BY ResultGiven DEF ProviderRaises, RunnerInv
<1>2. Clock'
  BY AttemptEnds, LimitsTyped DEF ProviderRaises, RunnerInv, Clock
<1>3. TypeOK'
  BY <1>1, TypeStep, LimitsTyped DEF ProviderRaises, RunnerInv, TypeOK
<1> QED
  BY <1>1, <1>2, <1>3 DEF RunnerInv, ResultOK

LEMMA AuditCompletedKeeps ==
  ASSUME RunnerInv, AuditCompleted
  PROVE  RunnerInv'
<1>1. ResultOK'
  BY ResultKept DEF AuditCompleted, RunnerInv, Clock
<1>2. Clock'
  BY DEF AuditCompleted, RunnerInv, Clock
<1>3. TypeOK'
  BY <1>1, TypeStep, LimitsTyped DEF AuditCompleted, RunnerInv, TypeOK
<1> QED
  BY <1>1, <1>2, <1>3 DEF RunnerInv, ResultOK

LEMMA OuterTimeoutKeeps ==
  ASSUME RunnerInv, OuterTimeout
  PROVE  RunnerInv'
<1>1. ResultOK'
  BY ResultDropped DEF OuterTimeout
<1>2. limits.attempts * limits.inner \in Nat
  BY LimitsTyped, Multiples DEF RunnerInv
<1>3. now <= inAudit + limits.attempts * limits.inner
  <2>1. CASE phase = "started"
    BY <1>2, <2>1, LimitsTyped DEF RunnerInv, Clock
  <2>2. CASE phase = "ask"
    BY <2>2, AttemptEnds, LimitsTyped DEF RunnerInv
  <2>3. CASE phase = "completed"
    BY <2>3 DEF RunnerInv, Clock
  <2> QED
    BY <2>1, <2>2, <2>3 DEF OuterTimeout, OuterDue
<1>4. Clock'
  BY <1>3 DEF OuterTimeout, OuterDue, Clock
<1>5. TypeOK'
  BY <1>1, TypeStep, LimitsTyped DEF OuterTimeout, RunnerInv, TypeOK
<1> QED
  BY <1>1, <1>4, <1>5 DEF RunnerInv, ResultOK

LEMMA RecordKeeps ==
  ASSUME RunnerInv, Record
  PROVE  RunnerInv'
<1>1. ResultOK'
  BY ResultKept DEF Record
<1>2. Clock'
  BY DEF Record, RunnerInv, Clock
<1>3. TypeOK'
  BY <1>1, TypeStep, LimitsTyped DEF Record, RunnerInv, TypeOK
<1> QED
  BY <1>1, <1>2, <1>3 DEF RunnerInv, ResultOK

LEMMA TickKeeps ==
  ASSUME RunnerInv, Tick
  PROVE  RunnerInv'
<1>1. ResultOK'
  BY ResultKept DEF Tick
<1>2. now < limits.outer
  BY LimitsTyped DEF Tick, OuterDue, RunnerInv
<1>3. limits.attempts * limits.inner \in Nat
  BY LimitsTyped, Multiples DEF RunnerInv
<1>4. Clock'
  <2>1. CASE phase = "ask"
    BY <2>1, LimitsTyped DEF Tick, InnerDue, RunnerInv, Clock
  <2>2. CASE phase # "ask"
    BY <1>3, <2>2, LimitsTyped DEF Tick, RunnerInv, Clock
  <2> QED
    BY <2>1, <2>2
<1>6. TypeOK'
  BY <1>1, <1>2, TypeStep, LimitsTyped DEF Tick, RunnerInv, TypeOK
<1> QED
  BY <1>1, <1>4, <1>6 DEF RunnerInv, ResultOK

LEMMA StutterKeeps ==
  ASSUME RunnerInv, UNCHANGED vars
  PROVE  RunnerInv'
<1>1. ResultOK'
  BY ResultKept DEF vars
<1>2. Clock'
  BY DEF vars, RunnerInv, Clock
<1>3. TypeOK'
  BY <1>1, TypeStep DEF vars, RunnerInv, TypeOK
<1> QED
  BY <1>1, <1>2, <1>3 DEF RunnerInv, ResultOK

LEMMA NextKeeps ==
  ASSUME RunnerInv, [Next]_vars
  PROVE  RunnerInv'
<1>1. CASE ProviderLost
  BY <1>1, RetryKeeps DEF ProviderLost
<1>2. CASE InnerTimeout
  BY <1>2, RetryKeeps DEF InnerTimeout, InnerDue
<1> QED
  BY <1>1, <1>2, AuditStartedKeeps, AuditFailsKeeps, AuditCompletedKeeps,
     ProviderAnswersKeeps, ProviderRaisesKeeps, OuterTimeoutKeeps, RecordKeeps, TickKeeps,
     StutterKeeps DEF Next

-------------------------------------------------------------------------------
(* Theorems *)

\* The inductive invariant: types, the clock and whole results.
THEOREM RunnerInvariance == Spec => []RunnerInv
<1>1. Init => RunnerInv
  BY InitRunner
<1>2. RunnerInv /\ [Next]_vars => RunnerInv'
  BY NextKeeps
<1> QED
  BY <1>1, <1>2, PTL DEF Spec

\* A call in progress is within its time-outs, and COMPLETED has a typed result.
THEOREM CallTypeCorrect == Spec => []TypeOK
<1>1. RunnerInv => TypeOK
  BY DEF RunnerInv
<1> QED
  BY <1>1, RunnerInvariance, PTL

\* A result is whole: all of the provider's answers, or none.
THEOREM ResultsAreWhole == Spec => []AnswersWhole
<1>1. RunnerInv => AnswersWhole
  BY DEF RunnerInv, ResultOK
<1> QED
  BY <1>1, RunnerInvariance, PTL

\* With room for every attempt beside the audit calls, the tool degrades to a typed
\* result and never to none.
THEOREM ResultsAreTyped == Spec => []TypedUnlessSqueezed
<1>1. RunnerInv => TypedUnlessSqueezed
  <2> SUFFICES ASSUME RunnerInv, Ended, ~lost, status # "COMPLETED"
               PROVE  ~(inAudit + limits.attempts * limits.inner < limits.outer)
    BY DEF TypedUnlessSqueezed
  <2>1. status = "DATA_UNAVAILABLE"
    BY DEF RunnerInv, TypeOK
  <2>2. now >= limits.outer /\ now <= inAudit + limits.attempts * limits.inner
    BY <2>1 DEF RunnerInv, Clock
  <2>3. limits.attempts * limits.inner \in Nat
    BY LimitsTyped, Multiples DEF RunnerInv
  <2> QED
    BY <2>2, <2>3, LimitsTyped DEF RunnerInv
<1> QED
  BY <1>1, RunnerInvariance, PTL

\* A party is reported clear exactly if the provider answered and no record of the
\* list reaches the threshold, for any list, similarity and threshold.
THEOREM ClearedAreDissimilar == Spec => []ClearExactlyIfDissimilar
<1>1. RunnerInv => ClearExactlyIfDissimilar
  <2> SUFFICES ASSUME RunnerInv, tool = "sanctions_screening", HasResult,
                      NEW role \in Entities(dna)
               PROVE  result[role].status = "NO_MATCH" <=>
                        result[role].known /\ Similar(NameForm[dna[role]]) = {}
    BY DEF ClearExactlyIfDissimilar
  <2> DEFINE form == NameForm[dna[role]]
  <2>1. role \in Subjects(tool, dna)
    BY DEF Subjects
  <2>2. dna[role] \in Names
    BY RunnerAssumption DEF RunnerInv, TypeOK, Entities, Roles
  <2>3. form \in Forms
    BY <2>2 DEF Forms
  <2>4. Verdict(tool, dna, role) = Screen(form)
    <3>1. tool = "sanctions_screening"
      OBVIOUS
    <3> QED
      BY <3>1, Zenon DEF Verdict
  <2> HIDE DEF form
  <2>5. CASE \A s \in Subjects(tool, dna) : result[s] = Verdict(tool, dna, s)
    BY <2>1, <2>3, <2>4, <2>5, ScreenTyped, ScreenedForSimilarity DEF form
  <2>6. CASE \A s \in Subjects(tool, dna) : result[s] = Unavailable(tool)
    <3>1. result[role] = Unavailable(tool) /\ tool \in Tools
      BY <2>1, <2>6 DEF RunnerInv, TypeOK
    <3> QED
      BY <3>1, UnavailableTyped
  <2> QED
    BY <2>5, <2>6 DEF RunnerInv, ResultOK, AnswersWhole
<1> QED
  BY <1>1, RunnerInvariance, PTL

\* A listed party is never reported clear.
THEOREM ListedAreNotCleared == Spec => []ListedIsNotClear
<1>1. RunnerInv /\ ClearExactlyIfDissimilar => ListedIsNotClear
  <2> SUFFICES ASSUME RunnerInv, ClearExactlyIfDissimilar,
                      tool = "sanctions_screening", HasResult, NEW role \in Entities(dna),
                      NEW i \in DOMAIN SdnList, SdnList[i].name = NameForm[dna[role]]
               PROVE  result[role].status # "NO_MATCH"
    BY DEF ListedIsNotClear
  <2>1. dna[role] \in Names
    BY RunnerAssumption DEF RunnerInv, TypeOK, Entities, Roles
  <2>2. NameForm[dna[role]] \in Forms
    BY <2>1 DEF Forms
  <2>3. Similar(NameForm[dna[role]]) # {}
    BY <2>2, ListedIsSimilar
  <2> QED
    BY <2>3 DEF ClearExactlyIfDissimilar
<1> QED
  BY <1>1, RunnerInvariance, ClearedAreDissimilar, PTL

-------------------------------------------------------------------------------
(* The interface *)

\* When a call ends, it has a reply to its question or none.
EndedInv ==
  Ended => \/ status = "COMPLETED" /\ Reply(result) \in WholeReplies([tool |-> tool, dna |-> dna])
           \/ status = "DATA_UNAVAILABLE" /\ result = None

LEMMA EndedWhole == RunnerInv => EndedInv
<1> SUFFICES ASSUME RunnerInv, Ended
             PROVE  \/ status = "COMPLETED"
                       /\ Reply(result) \in WholeReplies([tool |-> tool, dna |-> dna])
                    \/ status = "DATA_UNAVAILABLE" /\ result = None
  BY DEF EndedInv
<1>1. CASE status = "COMPLETED"
  <2>1. result \in [Subjects(tool, dna) -> Result(tool)]
    BY <1>1 DEF RunnerInv, ResultOK
  <2>2. CASE \A s \in Subjects(tool, dna) : result[s] = Verdict(tool, dna, s)
    <3>1. result = [s \in Subjects(tool, dna) |-> Verdict(tool, dna, s)]
      BY <2>1, <2>2
    <3> QED
      BY <1>1, <3>1 DEF WholeReplies
  <2>3. CASE \A s \in Subjects(tool, dna) : result[s] = Unavailable(tool)
    <3>1. result = [s \in Subjects(tool, dna) |-> Unavailable(tool)]
      BY <2>1, <2>3
    <3> QED
      BY <1>1, <3>1 DEF WholeReplies
  <2> QED
    BY <1>1, <2>2, <2>3 DEF RunnerInv, ResultOK, AnswersWhole
<1>2. CASE status = "DATA_UNAVAILABLE"
  BY <1>2 DEF RunnerInv, ResultOK
<1> QED
  BY <1>1, <1>2 DEF RunnerInv, TypeOK

LEMMA InitInterface == Init => Interface!Init
BY DEF Init, Interface!Init

\* A step either ends the call, or files it, or is not seen from outside.
LEMMA InterfaceStep ==
  ASSUME RunnerInv, EndedInv', [Next]_vars
  PROVE  [Interface!Next]_(Interface!vars)
<1> USE DEF Interface!vars
<1>1. ASSUME ~Ended, ~Ended', UNCHANGED call PROVE UNCHANGED Interface!vars
  BY <1>1
<1>2. ASSUME ~Ended, phase' = "record", UNCHANGED call PROVE Interface!Next
  <2>1. Ended'
    BY <1>2
  <2>2. \/ status' = "COMPLETED" /\ Reply(result)' \in WholeReplies([tool |-> tool, dna |-> dna])'
        \/ status' = "DATA_UNAVAILABLE" /\ result' = None
    BY <2>1 DEF EndedInv
  <2>3. WholeReplies([tool |-> tool, dna |-> dna])' = WholeReplies([tool |-> tool, dna |-> dna])
    BY <1>2 DEF WholeReplies, Reply
  <2> QED
    BY <1>2, <2>1, <2>2, <2>3 DEF Interface!Next, Interface!Settle, Reply
<1>3. CASE Record
  <2>1. phase = "record" /\ phase' \in {"done", "raised"} /\ UNCHANGED <<call, result, status>>
    BY <1>3 DEF Record
  <2>2. Ended /\ Ended' /\ status \in {"COMPLETED", "DATA_UNAVAILABLE"}
    BY <2>1 DEF RunnerInv, TypeOK
  <2> QED
    BY <2>1, <2>2 DEF Interface!Next, Interface!File
<1>4. CASE AuditStarted \/ ProviderAnswers \/ ProviderLost \/ ProviderRaises \/ InnerTimeout \/ Tick
  <2>1. ~Ended /\ ~Ended' /\ UNCHANGED call
    BY <1>4 DEF AuditStarted, ProviderAnswers, ProviderLost, ProviderRaises, InnerTimeout,
                InnerDue, RetryOrGiveUp, Tick
  <2> QED
    BY <1>1, <2>1
<1>5. CASE AuditFails \/ AuditCompleted \/ OuterTimeout
  <2>1. ~Ended /\ phase' = "record" /\ UNCHANGED call
    BY <1>5 DEF AuditFails, AuditCompleted, OuterTimeout, OuterDue
  <2> QED
    BY <1>2, <2>1
<1>6. CASE UNCHANGED vars
  BY <1>6 DEF vars
<1> QED
  BY <1>3, <1>4, <1>5, <1>6 DEF Next

\* The runner with its time-outs, retries and audits implements the tool call the
\* investigation relies on.
THEOREM RunnerImplementsCall == Spec => ToolCallSpec
<1>1. RunnerInv /\ EndedInv' /\ [Next]_vars => [Interface!Next]_(Interface!vars)
  BY InterfaceStep
<1> QED
  BY <1>1, EndedWhole, InitInterface, RunnerInvariance, PTL DEF Spec, ToolCallSpec, Interface!Spec

-------------------------------------------------------------------------------
(* The end of a call *)

LEMMA UnansweredCount ==
  ASSUME NEW S
  PROVE  Unanswered(S) = (IF "exporter" \in S THEN 0 ELSE 1) + (IF "importer" \in S THEN 0 ELSE 1)
<1> DEFINE left == Roles \ S
<1>1. /\ Cardinality({}) = 0
      /\ Cardinality({"exporter"}) = 1 /\ Cardinality({"importer"}) = 1
  BY FS_EmptySet, FS_Singleton
<1>2. Cardinality({"exporter", "importer"}) = 2
  <2>1. {"exporter"} \cup {"importer"} = {"exporter", "importer"} /\ "importer" \notin {"exporter"}
    OBVIOUS
  <2>2. IsFiniteSet({"exporter"})
    BY FS_Singleton
  <2> QED
    BY <1>1, <2>1, <2>2, FS_AddElement
<1>3. left = CASE "exporter" \in S /\ "importer" \in S -> {}
               [] "exporter" \in S /\ "importer" \notin S -> {"importer"}
               [] "exporter" \notin S /\ "importer" \in S -> {"exporter"}
               [] "exporter" \notin S /\ "importer" \notin S ->
                    {"exporter", "importer"}
  BY DEF Roles
<1> QED
  BY <1>1, <1>2, <1>3 DEF Unanswered

\* An answer for some but not all parties leaves fewer of them.
LEMMA OneMoreAnswer ==
  ASSUME TypeOK, answered' = AnsweredNext, answered' # Subjects(tool, dna)
  PROVE  Unanswered(answered') < Unanswered(answered)
<1>1. tool = "entity_verification" /\ answered \subseteq Entities(dna)
  BY DEF TypeOK, AnsweredNext, Subjects
<1>2. PICK s \in Entities(dna) \ answered : TRUE
  BY <1>1 DEF AnsweredNext, Subjects, First
<1>3. Entities(dna) \subseteq {"exporter", "importer"}
  BY DEF Entities, Roles
<1>4. \/ "exporter" \notin answered /\ answered' = answered \cup {"exporter"}
      \/ /\ "exporter" \in answered \/ "exporter" \notin Entities(dna)
         /\ "importer" \notin answered /\ answered' = answered \cup {"importer"}
  BY <1>1, <1>2, <1>3 DEF AnsweredNext, Subjects, First
<1> QED
  BY <1>4, UnansweredCount

LEMMA StepRunsDown ==
  ASSUME RunnerInv, Next
  PROVE  StepsLeft' \in 0..StepsLeft - 1
<1> DEFINE early == limits.outer - now
           rest == limits.attempts - attempt
<1>1. limits' = limits
  BY DEF Next, AuditStarted, AuditFails, AuditCompleted, ProviderAnswers, ProviderLost,
         ProviderRaises, InnerTimeout, OuterTimeout, Record, Tick
<1>2. early \in Nat /\ rest \in Nat /\ limits.attempts \in Nat /\ now \in Nat
      /\ limits.outer \in Nat /\ attempt \in Nat
  BY LimitsTyped DEF RunnerInv
<1>3. /\ Unanswered(answered) \in 0..2
      /\ Unanswered(answered') \in 0..2
  BY UnansweredCount
<1>4. CASE Tick
  <2>1. now < limits.outer
    BY LimitsTyped, <1>4 DEF Tick, OuterDue, RunnerInv
  <2>2. now' = now + 1 /\ StepsAhead' = StepsAhead
    BY <1>4 DEF Tick, StepsAhead
  <2>3. StepsAhead \in Nat
    BY <1>2, <1>3 DEF StepsAhead
  <2> QED
    BY <1>1, <1>2, <2>1, <2>2, <2>3 DEF StepsLeft
<1>5. ASSUME now' = now, StepsAhead \in Int, StepsAhead' \in 0..StepsAhead - 1
      PROVE  StepsLeft' \in 0..StepsLeft - 1
  BY <1>1, <1>2, <1>5 DEF StepsLeft
<1>6. CASE AuditStarted
  <2>1. /\ phase = "started" /\ phase' = "ask" /\ attempt' = 1 /\ now' = now /\ answered' = answered
        /\ limits.attempts >= 1
    BY <1>6, LimitsTyped DEF AuditStarted, RunnerInv
  <2>2. StepsAhead = 3 * limits.attempts + 3
        /\ StepsAhead' = 3 * (limits.attempts - 1) + Unanswered(answered) + 3
    BY <1>1, <2>1 DEF StepsAhead
  <2> QED
    BY <1>2, <1>3, <1>5, <2>1, <2>2
<1>7. CASE AuditFails \/ AuditCompleted
  <2>1. /\ phase \in {"started", "completed"} /\ phase' = "record" /\ now' = now
    BY <1>7 DEF AuditFails, AuditCompleted
  <2> QED
    BY <1>2, <1>5, <2>1 DEF StepsAhead
<1>8. CASE OuterTimeout
  <2>1. /\ phase \in {"started", "ask", "completed"} /\ phase' = "record" /\ now' = now
    BY <1>8 DEF OuterTimeout, OuterDue
  <2> QED
    BY <1>2, <1>3, <1>5, <2>1 DEF StepsAhead
<1>9. CASE ProviderAnswers
  <2>1. phase = "ask" /\ now' = now /\ attempt' = attempt
    BY <1>9 DEF ProviderAnswers
  <2>2. CASE answered' = Subjects(tool, dna)
    <3>1. phase' = "completed"
      BY <1>9, <2>2 DEF ProviderAnswers
    <3> QED
      BY <1>2, <1>3, <1>5, <2>1, <3>1 DEF StepsAhead
  <2>3. CASE answered' # Subjects(tool, dna)
    <3>1. phase' = phase /\ Unanswered(answered') < Unanswered(answered)
      BY <1>9, <2>3, OneMoreAnswer DEF ProviderAnswers, RunnerInv
    <3> QED
      BY <1>1, <1>2, <1>3, <1>5, <2>1, <3>1 DEF StepsAhead
  <2> QED
    BY <2>2, <2>3
<1>10. ASSUME phase = "ask", now' = now, RetryOrGiveUp PROVE StepsLeft' \in 0..StepsLeft - 1
  <2>1. CASE attempt < limits.attempts
    <3>1. phase' = "ask" /\ attempt' = attempt + 1
      BY <1>10, <2>1 DEF RetryOrGiveUp
    <3> QED
      BY <1>1, <1>2, <1>3, <1>5, <1>10, <2>1, <3>1 DEF StepsAhead
  <2>2. CASE ~(attempt < limits.attempts)
    <3>1. phase' = "completed"
      BY <1>10, <2>2 DEF RetryOrGiveUp
    <3> QED
      BY <1>2, <1>3, <1>5, <1>10, <3>1 DEF StepsAhead
  <2> QED
    BY <2>1, <2>2
<1>11. CASE ProviderLost \/ InnerTimeout
  BY <1>10, <1>11 DEF ProviderLost, InnerTimeout, InnerDue
<1>12. CASE ProviderRaises
  <2>1. phase = "ask" /\ phase' = "completed" /\ now' = now
    BY <1>12 DEF ProviderRaises
  <2> QED
    BY <1>2, <1>3, <1>5, <2>1 DEF StepsAhead
<1>13. CASE Record
  <2>1. phase = "record" /\ phase' \in {"done", "raised"} /\ now' = now
    BY <1>13 DEF Record
  <2> QED
    BY <1>5, <2>1 DEF StepsAhead
<1> QED
  BY <1>4, <1>6, <1>7, <1>8, <1>9, <1>11, <1>12, <1>13 DEF Next

\* A call takes at most outer ticks and three steps for each attempt and itself, for
\* all time-outs and numbers of attempts and whoever stays silent: the half of its end
\* that needs no fairness.
THEOREM CallsRunDown == Spec => CallRunsDown
<1>1. RunnerInv /\ [Next]_vars => [StepsLeft' \in 0..StepsLeft - 1]_vars
  BY StepRunsDown
<1> QED
  BY <1>1, RunnerInvariance, PTL DEF Spec, CallRunsDown
===============================================================================
