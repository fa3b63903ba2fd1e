---------------------------- MODULE CrossIBUProofs ----------------------------
(***************************************************************************)
(* Proofs about CrossIBU for any number of units, cases, requests, days and *)
(* rebuilt DNA, and for every similarity of names.                          *)
(***************************************************************************)
EXTENDS CrossIBU, FiniteSetTheorems, TLAPS

-------------------------------------------------------------------------------
(* The matcher *)

\* A match level is one of the four, and EXACT means equal fingerprints or B/L.
LEMMA LevelKind ==
  ASSUME NEW s, NEW t
  PROVE  Level(s, t) \in MatchLevel /\ (Level(s, t) = "EXACT" <=> Duplicate(s, t))
BY DEF Level, MatchLevel

\* The best candidates are exact ones as soon as there is an exact one.
LEMMA BestIsExact ==
  ASSUME NEW s, NEW candidates, NEW c \in candidates, Duplicate(s, c.sig)
  PROVE  /\ Best(s, candidates) # {}
         /\ \A a \in Best(s, candidates) : Level(s, a.sig) = "EXACT"
<1>1. Level(s, c.sig) = "EXACT" /\ Priority[Level(s, c.sig)] = 3
  BY LevelKind DEF Priority
<1>2. \A a : Level(s, a.sig) \in MatchLevel
  BY LevelKind
<1>3. \A a : Priority[Level(s, a.sig)] \in 0..3
  BY <1>2 DEF MatchLevel, Priority
<1>4. \A a : Level(s, a.sig) # "EXACT" => Priority[Level(s, a.sig)] < 3
  BY <1>2 DEF MatchLevel, Priority
<1>5. \A b : ~Better(s, b, c)
  BY <1>1, <1>3 DEF Better
<1>6. \A a : Level(s, a.sig) # "EXACT" => Better(s, c, a)
  BY <1>1, <1>3, <1>4 DEF Better
<1> QED
  BY <1>5, <1>6 DEF Best

\* Two units that hold each other's signals are told the same level, if the ratio
\* of names is symmetric.  RapidFuzz's is; that of difflib, the code's fallback
\* where RapidFuzz is not installed, need not be.
THEOREM LevelIsSymmetric ==
  ASSUME NEW s, NEW t,
         \A a, b : Similarity(a, b) = Similarity(b, a),
         \A a, b : DaysBetween(a, b) = DaysBetween(b, a)
  PROVE  Level(s, t) = Level(t, s)
<1>1. Duplicate(s, t) <=> Duplicate(t, s)
  BY DEF Duplicate, SameBl, Has
<1>2. FalsePositive(s, t) <=> FalsePositive(t, s)
  BY DEF FalsePositive, Compared, Differ, Has
<1>3. Contextual(s, t) <=> Contextual(t, s)
  BY DEF Contextual, Has
<1>4. \A field : SimilarityOf(field, s[field], t[field]) = SimilarityOf(field, t[field], s[field])
  BY DEF SimilarityOf
<1>5. \A field : Compared(s, t, field) <=> Compared(t, s, field)
  BY DEF Compared
<1>6. Numerator(s, t) = Numerator(t, s) /\ Denominator(s, t) = Denominator(t, s)
  BY <1>4, <1>5 DEF Numerator, Denominator, SumOver
<1>7. Reaches(s, t, 85) <=> Reaches(t, s, 85)
  BY <1>6 DEF Reaches
<1> QED
  BY <1>1, <1>2, <1>3, <1>7, Zenon DEF Level

-------------------------------------------------------------------------------
(* Types *)

\* The item of a well typed request is a registration.
LEMMA RegistrationType ==
  ASSUME TypeOK, NEW r \in Requests, req[r] # NoSignal, sig[r] # NoSignal
  PROVE  Registration(r) \in Registrations
<1>1. req[r] \in [op : Ops, case : Cases, ibu : Units]
  BY RegistryAssumption DEF TypeOK, RegistryAssumption
<1>2. UnitOf[req[r].case] \in Units
  BY <1>1, RegistryAssumption DEF RegistryAssumption
<1> QED
  BY <1>1, <1>2 DEF TypeOK, Registration, Registrations

\* What a query may be answered with is a registration some read returned.
LEMMA CandidateType ==
  ASSUME TypeOK, NEW r \in Requests
  PROVE  /\ Merged(r) \subseteq indexView \union found[r]
         /\ Candidates(r) \subseteq Merged(r)
         /\ Best(sig[r], Candidates(r)) \subseteq Candidates(r)
         /\ Candidates(r) \subseteq Registrations
BY DEF TypeOK, Merged, Candidates, Best

\* An empty registry, and requests that have not begun.
LEMMA InitRegistryInv == Init => RegistryInv
<1> SUFFICES ASSUME Init PROVE RegistryInv
  OBVIOUS
<1>1. TypeOK
  BY RegistryAssumption
  DEF Init, TypeOK, RegistryAssumption, Working, Replies, Answers, NoAnswer
<1>2. HandlerInv
  BY RegistryAssumption DEF Init, HandlerInv, RegistryAssumption
<1>3. ReplyInv /\ AnswerInv /\ KeptInv /\ KnownInv /\ StoreInv
  BY RegistryAssumption
  DEF Init, ReplyInv, AnswerInv, KeptInv, KnownInv, StoreInv, OnePerKey, NoAnswer, RegistryAssumption
<1> QED
  BY <1>1, <1>2, <1>3 DEF RegistryInv

\* Every step keeps the types.
LEMMA TypeStep == RegistryInv /\ [Next]_vars => TypeOK'
<1> SUFFICES ASSUME RegistryInv, [Next]_vars PROVE TypeOK'
  OBVIOUS
<1> USE DEF RegistryInv, TypeOK, Goto, Working, tableVars, requestVars
<1>0. Ttl \in Nat /\ MaxTime \in Nat /\ MaxBuilds \in Nat /\ MaxFailures \in Nat
  BY RegistryAssumption DEF RegistryAssumption
<1>n. NoAnswer \in Answers
  BY DEF NoAnswer, Answers
<1>1. ASSUME NEW r \in Requests, NEW in \in Inputs, Begin(r, in)
      PROVE  TypeOK'
  <2>1. known' \in [Requests -> SUBSET Registrations]
    BY <1>1 DEF Begin
  <2>2. req' \in [Requests -> Inputs \union {NoSignal}]
    BY <1>1 DEF Begin
  <2> QED
    BY <1>1, <2>1, <2>2 DEF Begin
<1>2. ASSUME NEW r \in Requests, Authorize(r)
      PROVE  TypeOK'
  <2>0. req[r] # NoSignal
    BY <1>2 DEF Authorize, HandlerInv
  <2>1. dna[req[r].case] \in Signals \union {NoSignal}
    BY <2>0, RegistryAssumption DEF RegistryAssumption
  <2>2. sig' \in [Requests -> Signals \union {NoSignal}] /\ at' \in [Requests -> 0..MaxTime]
    BY <1>2, <2>1 DEF Authorize
  <2>3. reply' \in [Requests -> Replies]
    BY <1>2, <1>n DEF Authorize, Answer, Replies
  <2>4. pc' \in [Requests -> Working \union {"idle", "done", "dead"}]
    BY <1>2 DEF Authorize, Answer
  <2> QED
    BY <1>2, <2>2, <2>3, <2>4 DEF Authorize
<1>3. ASSUME NEW r \in Requests, AuditDenied(r)
      PROVE  TypeOK'
  BY <1>3, <1>n DEF AuditDenied, Answer, Record, Replies, EventTypes
<1>4. ASSUME NEW r \in Requests, Put(r)
      PROVE  TypeOK'
  <2>1. Registration(r) \in Registrations
    BY <1>4, RegistrationType DEF Put, HandlerInv
  <2> QED
    BY <1>4, <2>1 DEF Put, Store
<1>5. ASSUME NEW r \in Requests, AuditRegistered(r)
      PROVE  TypeOK'
  BY <1>5, <1>n DEF AuditRegistered, Answer, Record, Replies, EventTypes
<1>6. ASSUME NEW r \in Requests, ReadKeys(r)
      PROVE  TypeOK'
  BY <1>6 DEF ReadKeys
<1>7. ASSUME NEW r \in Requests, ReadIndexes(r)
      PROVE  TypeOK'
  <2>1. \A g \in Best(sig[r], Candidates(r)) : g \in Registrations
    BY CandidateType
  <2>2. reply[r] \in Replies
    OBVIOUS
  <2>3. \A level \in MatchLevel, g \in Registrations \union {NoSignal} :
          [reply[r] EXCEPT !.answer = [level |-> level, of |-> g]] \in Replies
    BY <2>2 DEF Replies, Answers
  <2>4. "NONE" \in MatchLevel /\ \A g : Level(sig[r], g.sig) \in MatchLevel
    BY LevelKind DEF MatchLevel
  <2>5. reply' \in [Requests -> Replies]
    <3>1. CASE Candidates(r) = {} /\ reply' = [reply EXCEPT ![r].answer = [level |-> "NONE", of |-> NoSignal]]
      BY <3>1, <2>3, <2>4
    <3>2. CASE \E g \in Best(sig[r], Candidates(r)) :
                 reply' = [reply EXCEPT ![r].answer = [level |-> Level(sig[r], g.sig), of |-> g]]
      BY <3>2, <2>1, <2>3, <2>4
    <3> QED
      BY <1>7, <3>1, <3>2 DEF ReadIndexes
  <2> QED
    BY <1>7, <2>5 DEF ReadIndexes
<1>8. ASSUME NEW r \in Requests, AuditQueried(r)
      PROVE  TypeOK'
  BY <1>8 DEF AuditQueried, Answer, Record, Replies, EventTypes
<1>9. ASSUME NEW r \in Requests, Fail(r)
      PROVE  TypeOK'
  BY <1>9, <1>0 DEF Fail
<1>10. ASSUME NEW c \in Cases, NEW s \in Signals, SaveDna(c, s)
       PROVE  TypeOK'
  BY <1>10, <1>0 DEF SaveDna
<1>11. ASSUME CatchUpKeys
       PROVE  TypeOK'
  BY <1>11 DEF CatchUpKeys, CatchUp
<1>12. ASSUME CatchUpIndexes
       PROVE  TypeOK'
  BY <1>12 DEF CatchUpIndexes, CatchUp
<1>13. ASSUME NEW g \in items, Expire(g)
       PROVE  TypeOK'
  BY <1>13 DEF Expire
<1>14. ASSUME Tick
       PROVE  TypeOK'
  BY <1>14, <1>0 DEF Tick
<1>15. CASE UNCHANGED vars
  BY <1>15 DEF vars
<1> QED
  BY <1>1, <1>2, <1>3, <1>4, <1>5, <1>6, <1>7, <1>8, <1>9, <1>10, <1>11, <1>12, <1>13, <1>14,
     <1>15 DEF Next, Step

-------------------------------------------------------------------------------
(* Handlers *)

\* Every step keeps what the handlers hold.
LEMMA HandlerStep == RegistryInv /\ [Next]_vars => HandlerInv'
<1> SUFFICES ASSUME RegistryInv, [Next]_vars PROVE HandlerInv'
  OBVIOUS
<1> USE DEF RegistryInv, TypeOK, HandlerInv, Goto, OwnCase, tableVars, requestVars
<1>0. NoSignal \notin Inputs
  BY RegistryAssumption DEF RegistryAssumption
<1>1. ASSUME NEW r \in Requests, NEW in \in Inputs, Begin(r, in)
      PROVE  HandlerInv'
  BY <1>1, <1>0 DEF Begin
<1>2. ASSUME NEW r \in Requests, Authorize(r)
      PROVE  HandlerInv'
  <2>0. req[r] \in Inputs /\ req[r].op \in Ops
    BY <1>2, <1>0, RegistryAssumption DEF Authorize, RegistryAssumption
  <2>1. CASE dna[req[r].case] = NoSignal /\ pc' = [pc EXCEPT ![r] = "done"] /\ UNCHANGED <<sig, at>>
    BY <1>2, <2>1, <2>0, <1>0 DEF Authorize
  <2>2. CASE pc' = [pc EXCEPT ![r] = "audit_denied"] /\ UNCHANGED <<sig, at>>
    BY <1>2, <2>2, <2>0, <1>0 DEF Authorize
  <2>3. CASE /\ OwnCase(r) /\ dna[req[r].case] # NoSignal
             /\ sig' = [sig EXCEPT ![r] = dna[req[r].case]]
             /\ at' = [at EXCEPT ![r] = clock]
             /\ pc' = [pc EXCEPT ![r] =
                         IF req[r].op = "register" THEN "put" ELSE "read_keys"]
    BY <1>2, <2>3, <2>0, <1>0 DEF Authorize, Ops
  <2> QED
    BY <1>2, <2>1, <2>2, <2>3 DEF Authorize, Answer
<1>3. ASSUME NEW r \in Requests, AuditDenied(r) \/ AuditRegistered(r) \/ AuditQueried(r)
      PROVE  HandlerInv'
  BY <1>3 DEF AuditDenied, AuditRegistered, AuditQueried, Answer
<1>4. ASSUME NEW r \in Requests, Put(r) \/ ReadKeys(r)
      PROVE  HandlerInv'
  BY <1>4 DEF Put, ReadKeys
<1>7. ASSUME NEW r \in Requests, ReadIndexes(r)
      PROVE  HandlerInv'
  BY <1>7 DEF ReadIndexes
<1>9. ASSUME NEW r \in Requests, Fail(r)
      PROVE  HandlerInv'
  BY <1>9 DEF Fail, Working
<1>10. ASSUME \/ \E c \in Cases, s \in Signals : SaveDna(c, s)
              \/ CatchUpKeys \/ CatchUpIndexes
              \/ \E g \in items : Expire(g)
       PROVE  HandlerInv'
  BY <1>10 DEF SaveDna, CatchUpKeys, CatchUpIndexes, Expire
<1>14. ASSUME Tick
       PROVE  HandlerInv'
  BY <1>14 DEF Tick
<1>15. CASE UNCHANGED vars
  BY <1>15 DEF vars
<1> QED
  BY <1>1, <1>2, <1>3, <1>4, <1>7, <1>9, <1>10, <1>14, <1>15 DEF Next, Step

\* What a request has registered stays what it has registered.
LEMMA RegisteredStable ==
  ASSUME RegistryInv, [Next]_vars, NEW w \in Requests, Registered(w)
  PROVE  /\ Registered(w)' /\ Registration(w)' = Registration(w)
         /\ req'[w] = req[w] /\ sig'[w] = sig[w] /\ at'[w] = at[w]
<1> USE DEF RegistryInv, TypeOK, HandlerInv, Registered, Goto, tableVars, requestVars
<1>1. ASSUME NEW r \in Requests, NEW in \in Inputs, Begin(r, in)
      PROVE  r # w /\ pc' = [pc EXCEPT ![r] = "authorize"] /\ UNCHANGED <<sig, at>>
             /\ req' = [req EXCEPT ![r] = in]
  BY <1>1 DEF Begin
<1>2. ASSUME NEW r \in Requests, Authorize(r)
      PROVE  r # w /\ req' = req /\ pc'[w] = pc[w] /\ sig'[w] = sig[w] /\ at'[w] = at[w]
  BY <1>2 DEF Authorize, Answer
<1>3. ASSUME NEW r \in Requests,
             \/ AuditDenied(r) \/ AuditRegistered(r) \/ AuditQueried(r) \/ Put(r) \/ ReadKeys(r)
             \/ Fail(r)
      PROVE  UNCHANGED <<req, sig, at>> /\ pc'[w] # "put"
  BY <1>3 DEF AuditDenied, AuditRegistered, AuditQueried, Put, ReadKeys, Fail, Answer
<1>4. ASSUME NEW r \in Requests, ReadIndexes(r)
      PROVE  r # w /\ UNCHANGED <<req, sig>> /\ pc'[w] = pc[w] /\ at'[w] = at[w]
  BY <1>4 DEF ReadIndexes
<1>5. ASSUME \/ \E c \in Cases, s \in Signals : SaveDna(c, s)
             \/ CatchUpKeys \/ CatchUpIndexes \/ Tick
             \/ \E g \in items : Expire(g)
             \/ UNCHANGED vars
      PROVE  UNCHANGED <<req, sig, at, pc>>
  BY <1>5 DEF SaveDna, CatchUpKeys, CatchUpIndexes, Expire, Tick, vars
<1>6. req'[w] = req[w] /\ sig'[w] = sig[w] /\ at'[w] = at[w] /\ pc'[w] # "put"
  BY <1>1, <1>2, <1>3, <1>4, <1>5 DEF Next, Step
<1> QED
  BY <1>6 DEF Registration

\* So what is grounded stays grounded.
LEMMA GroundedStable ==
  ASSUME RegistryInv, [Next]_vars, NEW g, Grounded(g)
  PROVE  Grounded(g)'
<1>1. PICK w \in Requests : Registered(w) /\ Registration(w) = g
  BY DEF Grounded
<1>2. Registered(w)' /\ Registration(w)' = g
  BY <1>1, RegisteredStable
<1> QED
  BY <1>2 DEF Grounded

-------------------------------------------------------------------------------
(* Stores *)

\* A put leaves one item per key, the new one grounded.
LEMMA PutEffect ==
  ASSUME RegistryInv, NEW r \in Requests, Put(r)
  PROVE  /\ items' = {h \in items : KeyOf(h) # KeyOf(Registration(r))} \union {Registration(r)}
         /\ Registered(r)' /\ Registration(r)' = Registration(r)
         /\ Registration(r).at = clock
         /\ OnePerKey(items)'
<1>1. items' = {h \in items : KeyOf(h) # KeyOf(Registration(r))} \union {Registration(r)}
  BY DEF Put, Store
<1>2. Registration(r)' = Registration(r)
  BY DEF Put, Registration
<1>3. Registered(r)'
  BY DEF Put, Goto, RegistryInv, HandlerInv, TypeOK, Registered
<1>4. Registration(r).at = clock
  BY DEF Put, RegistryInv, HandlerInv, Registration
<1>5. OnePerKey(items)'
  BY <1>1 DEF RegistryInv, StoreInv, OnePerKey
<1> QED
  BY <1>1, <1>2, <1>3, <1>4, <1>5

\* A view that catches up takes items of the table and keeps one per key.
LEMMA CatchUpEffect ==
  ASSUME NEW view, NEW k, OnePerKey(items), OnePerKey(view)
  PROVE  /\ CatchUp(view, k) \subseteq view \union items
         /\ \A g, h \in CatchUp(view, k) : KeyOf(g) = KeyOf(h) => g = h
         /\ \A g : Fresh(items, g) /\ Fresh(view, g) => Fresh(CatchUp(view, k), g)
BY DEF CatchUp, OnePerKey, Fresh

\* Every step keeps the stores grounded.
LEMMA StoreStep == RegistryInv /\ [Next]_vars => StoreInv'
<1> SUFFICES ASSUME RegistryInv, [Next]_vars PROVE StoreInv'
  OBVIOUS
<1>g. \A g : Grounded(g) => Grounded(g)'
  BY GroundedStable
<1> USE DEF StoreInv
<1>1. ASSUME UNCHANGED tableVars, UNCHANGED found
      PROVE  StoreInv'
  BY <1>1, <1>g DEF RegistryInv, tableVars, OnePerKey
<1>2. ASSUME NEW r \in Requests, Put(r)
      PROVE  StoreInv'
  <2>1. Grounded(Registration(r))'
    BY <1>2, PutEffect DEF Grounded
  <2>2. \A g \in items' : Grounded(g)'
    BY <1>2, <2>1, <1>g, PutEffect DEF RegistryInv
  <2> QED
    BY <1>2, <2>2, <1>g, PutEffect DEF RegistryInv, Put, OnePerKey
<1>3. ASSUME NEW r \in Requests, ReadKeys(r)
      PROVE  StoreInv'
  <2>1. \A q \in Requests : \A g \in found'[q] : g \in found[q] \/ g \in keyView
    BY <1>3 DEF ReadKeys, RegistryInv, TypeOK
  <2> QED
    BY <1>3, <2>1, <1>g DEF ReadKeys, RegistryInv, tableVars, OnePerKey
<1>4. ASSUME CatchUpKeys
      PROVE  StoreInv'
  <2>1. PICK k \in Lagging(keyView) : keyView' = CatchUp(keyView, k)
    BY <1>4 DEF CatchUpKeys
  <2>2. keyView' \subseteq keyView \union items /\ OnePerKey(keyView)'
    BY <2>1, CatchUpEffect DEF RegistryInv, OnePerKey
  <2> QED
    BY <1>4, <2>2, <1>g DEF CatchUpKeys, RegistryInv, OnePerKey, requestVars
<1>5. ASSUME CatchUpIndexes
      PROVE  StoreInv'
  <2>1. PICK k \in Lagging(indexView) : indexView' = CatchUp(indexView, k)
    BY <1>5 DEF CatchUpIndexes
  <2>2. indexView' \subseteq indexView \union items /\ OnePerKey(indexView)'
    BY <2>1, CatchUpEffect DEF RegistryInv, OnePerKey
  <2> QED
    BY <1>5, <2>2, <1>g DEF CatchUpIndexes, RegistryInv, OnePerKey, requestVars
<1>6. ASSUME NEW g \in items, Expire(g)
      PROVE  StoreInv'
  BY <1>6, <1>g DEF Expire, RegistryInv, OnePerKey, requestVars
<1>7. ASSUME NEW r \in Requests, ReadIndexes(r)
      PROVE  StoreInv'
  <2>1. \A q \in Requests : found'[q] \subseteq found[q]
    BY <1>7 DEF ReadIndexes, RegistryInv, TypeOK
  <2> QED
    BY <1>7, <2>1, <1>g DEF ReadIndexes, RegistryInv, tableVars, OnePerKey
<1>8. \/ UNCHANGED tableVars /\ UNCHANGED found
      \/ \E r \in Requests : Put(r) \/ ReadKeys(r) \/ ReadIndexes(r)
      \/ CatchUpKeys \/ CatchUpIndexes
      \/ \E g \in items : Expire(g)
  BY DEF Next, Step, Begin, Authorize, AuditDenied, AuditRegistered, AuditQueried,
         Fail, SaveDna, Tick, vars, tableVars, requestVars
<1> QED
  BY <1>1, <1>2, <1>3, <1>4, <1>5, <1>6, <1>7, <1>8
\* A registration that has not expired is not lost from the table, nor from the
\* views once they have it.
LEMMA FreshStable ==
  ASSUME RegistryInv, [Next]_vars, NEW g \in Registrations, g.at + Ttl > clock', Fresh(items, g)
  PROVE  /\ Fresh(items, g)' /\ (Fresh(keyView, g) => Fresh(keyView, g)')
         /\ (Fresh(indexView, g) => Fresh(indexView, g)')
<1>0. Ttl \in Nat /\ clock \in Nat /\ g.at \in Nat /\ \A h \in Registrations : h.at \in Nat
  BY RegistryAssumption DEF RegistryAssumption, RegistryInv, TypeOK, Registrations
<1>1. items \subseteq Registrations
  BY DEF RegistryInv, TypeOK
<1>2. CASE UNCHANGED tableVars
  BY <1>2 DEF tableVars, Fresh
<1>3. ASSUME NEW r \in Requests, Put(r)
      PROVE  Fresh(items, g)' /\ UNCHANGED <<keyView, indexView>>
  <2>1. PICK h \in items : KeyOf(h) = KeyOf(g) /\ h.at >= g.at
    BY DEF Fresh
  <2>2. h.at <= clock
    <3>1. PICK w \in Requests : Registration(w) = h
      BY DEF RegistryInv, StoreInv, Grounded
    <3> QED
      BY <3>1 DEF RegistryInv, HandlerInv, Registration
  <2>3. CASE KeyOf(h) = KeyOf(Registration(r))
    <3>1. Registration(r) \in items' /\ KeyOf(Registration(r)) = KeyOf(g)
          /\ Registration(r).at >= g.at
      BY <1>0, <1>1, <1>3, <2>1, <2>2, <2>3, PutEffect
    <3> QED
      BY <1>3, <3>1 DEF Fresh, Put
  <2>4. CASE KeyOf(h) # KeyOf(Registration(r))
    <3>1. h \in items'
      BY <1>3, <2>4, PutEffect
    <3> QED
      BY <1>3, <2>1, <3>1 DEF Fresh, Put
  <2> QED
    BY <2>3, <2>4
<1>4. ASSUME NEW e \in items, Expire(e)
      PROVE  Fresh(items, g)' /\ UNCHANGED <<keyView, indexView>>
  <2>1. PICK h \in items : KeyOf(h) = KeyOf(g) /\ h.at >= g.at
    BY DEF Fresh
  <2>2. clock' = clock /\ e.at + Ttl <= clock /\ items' = items \ {e}
    BY <1>4 DEF Expire
  <2>3. h # e
    BY <1>0, <1>1, <2>1, <2>2
  <2> QED
    BY <1>4, <2>1, <2>2, <2>3 DEF Fresh, Expire
<1>5. CASE CatchUpKeys
  <2>1. \E k : keyView' = CatchUp(keyView, k) /\ UNCHANGED <<items, indexView>>
    BY <1>5 DEF CatchUpKeys
  <2>2. Fresh(keyView, g) => Fresh(keyView', g)
    BY <2>1, CatchUpEffect DEF RegistryInv, StoreInv
  <2> QED
    BY <2>1, <2>2 DEF Fresh
<1>6. CASE CatchUpIndexes
  <2>1. \E k : indexView' = CatchUp(indexView, k) /\ UNCHANGED <<items, keyView>>
    BY <1>6 DEF CatchUpIndexes
  <2>2. Fresh(indexView, g) => Fresh(indexView', g)
    BY <2>1, CatchUpEffect DEF RegistryInv, StoreInv
  <2> QED
    BY <2>1, <2>2 DEF Fresh
<1>7. \/ UNCHANGED tableVars
      \/ \E r \in Requests : Put(r)
      \/ CatchUpKeys \/ CatchUpIndexes
      \/ \E e \in items : Expire(e)
  BY DEF Next, Step, Begin, Authorize, AuditDenied, AuditRegistered, ReadKeys, ReadIndexes,
         AuditQueried, Fail, SaveDna, Tick, vars, tableVars
<1>8. Fresh(items, g)' /\ UNCHANGED <<keyView, indexView>>
      => Fresh(items, g)' /\ (Fresh(keyView, g) => Fresh(keyView, g)')
         /\ (Fresh(indexView, g) => Fresh(indexView, g)')
  BY DEF Fresh
<1> QED
  BY <1>2, <1>3, <1>4, <1>5, <1>6, <1>7, <1>8

\* Days do not run backwards.
LEMMA ClockStep == RegistryInv /\ [Next]_vars => clock' >= clock /\ clock' \in Nat
BY RegistryAssumption
DEF RegistryAssumption, RegistryInv, TypeOK, Next, Step, Begin, Authorize, AuditDenied,
    AuditRegistered, ReadKeys, ReadIndexes, AuditQueried, Fail, SaveDna, Tick, Put, CatchUpKeys,
    CatchUpIndexes, Expire, vars

\* Every step keeps what has been put.
LEMMA KeptStep == RegistryInv /\ [Next]_vars => KeptInv'
<1> SUFFICES ASSUME RegistryInv, [Next]_vars,
                    NEW r \in Requests,
                    pc'[r] \in {"audit_registered", "done"}, sig'[r] # NoSignal,
                    req'[r].op = "register", at'[r] + Ttl > clock'
             PROVE  Fresh(items', Registration(r)')
  BY DEF KeptInv
<1>1. CASE Registered(r)
  <2>1. pc[r] \in {"audit_registered", "done"}
    BY <1>1
    DEF Registered, RegistryInv, TypeOK, HandlerInv, Goto, Next, Step, Begin, Authorize,
        AuditDenied, AuditRegistered, ReadKeys, ReadIndexes, AuditQueried, Fail, Working,
        SaveDna, Tick, Put, CatchUpKeys, CatchUpIndexes, Expire, vars, Answer, requestVars
  <2>2. Registration(r)' = Registration(r) /\ req'[r] = req[r] /\ sig'[r] = sig[r] /\ at'[r] = at[r]
    BY <1>1, RegisteredStable
  <2>3. Registration(r) \in Registrations /\ Registration(r).at = at[r]
    BY <1>1, RegistrationType DEF Registered, RegistryInv, Registration
  <2>4. at[r] + Ttl > clock
    BY <2>2, ClockStep, RegistryAssumption DEF RegistryInv, TypeOK, RegistryAssumption
  <2>5. Fresh(items, Registration(r))
    BY <1>1, <2>1, <2>4 DEF RegistryInv, KeptInv, Registered
  <2>6. Fresh(items, Registration(r))'
    BY <2>2, <2>3, <2>5, FreshStable DEF Fresh
  <2> QED
    BY <2>2, <2>6
<1>2. CASE ~Registered(r)
  <2>1. Put(r)
    BY <1>2
    DEF Registered, RegistryInv, TypeOK, HandlerInv, Goto, Next, Step, Begin, Authorize,
        AuditDenied, AuditRegistered, ReadKeys, ReadIndexes, AuditQueried, Fail, Working,
        SaveDna, Tick, Put, CatchUpKeys, CatchUpIndexes, Expire, vars, Answer, requestVars
  <2>2. Registration(r) \in items' /\ Registration(r)' = Registration(r)
    BY <2>1, PutEffect
  <2>3. Registration(r).at \in Nat
    BY <2>1, PutEffect, RegistryAssumption DEF RegistryInv, TypeOK, RegistryAssumption
  <2> QED
    BY <2>2, <2>3 DEF Fresh
<1> QED
  BY <1>1, <1>2
-------------------------------------------------------------------------------
(* Replies *)

\* The answer of a query is a grounded candidate, if it names one.
LEMMA AnswerEffect ==
  ASSUME RegistryInv, NEW r \in Requests, ReadIndexes(r)
  PROVE  /\ reply'[r].code = reply[r].code
         /\ reply'[r].answer # NoAnswer
         /\ reply'[r].answer.of # NoSignal => reply'[r].answer.of \in Candidates(r)
         /\ \A q \in Requests \ {r} : reply'[q] = reply[q]
<1>1. reply \in [Requests -> Replies]
  BY DEF RegistryInv, TypeOK
<1>2. \A level, g : reply' = [reply EXCEPT ![r].answer = [level |-> level, of |-> g]] =>
        /\ reply'[r].code = reply[r].code /\ reply'[r].answer = [level |-> level, of |-> g]
        /\ \A q \in Requests \ {r} : reply'[q] = reply[q]
  BY <1>1 DEF Replies
<1>3. CASE reply' = [reply EXCEPT ![r].answer = [level |-> "NONE", of |-> NoSignal]]
  <2>1. reply'[r].answer = [level |-> "NONE", of |-> NoSignal]
    BY <1>2, <1>3
  <2>2. reply'[r].answer # NoAnswer
    BY <2>1 DEF NoAnswer
  <2> QED
    BY <1>2, <1>3, <2>1, <2>2
<1>4. CASE \E g \in Best(sig[r], Candidates(r)) :
             reply' = [reply EXCEPT ![r].answer = [level |-> Level(sig[r], g.sig), of |-> g]]
  <2>1. PICK g \in Best(sig[r], Candidates(r)) :
          reply' = [reply EXCEPT ![r].answer = [level |-> Level(sig[r], g.sig), of |-> g]]
    BY <1>4
  <2>2. reply'[r].answer = [level |-> Level(sig[r], g.sig), of |-> g] /\ g \in Candidates(r)
    BY <1>2, <2>1, CandidateType DEF RegistryInv
  <2>3. Level(sig[r], g.sig) # "-"
    BY LevelKind DEF MatchLevel
  <2>4. reply'[r].answer # NoAnswer
    BY <2>2, <2>3 DEF NoAnswer
  <2> QED
    BY <1>2, <2>1, <2>2, <2>4
<1> QED
  BY <1>3, <1>4 DEF ReadIndexes

\* Every step keeps replies audited.
LEMMA ReplyStep == RegistryInv /\ [Next]_vars => ReplyInv'
<1> SUFFICES ASSUME RegistryInv, [Next]_vars PROVE ReplyInv'
  OBVIOUS
<1>t. /\ pc \in [Requests -> Working \union {"idle", "done", "dead"}]
      /\ reply \in [Requests -> Replies] /\ sig \in [Requests -> Signals \union {NoSignal}]
      /\ req \in [Requests -> Inputs \union {NoSignal}]
  BY DEF RegistryInv, TypeOK
<1>h. HandlerInv /\ ReplyInv
  BY DEF RegistryInv
<1> USE <1>t, <1>h DEF Goto, HandlerInv, ReplyInv, EventOf
<1>1. ASSUME NEW r \in Requests, NEW in \in Inputs, Begin(r, in)
      PROVE  ReplyInv'
  BY <1>1 DEF Begin
<1>2. ASSUME NEW r \in Requests, Authorize(r)
      PROVE  ReplyInv'
  <2>1. CASE pc' = [pc EXCEPT ![r] = "done"] /\ UNCHANGED sig
             /\ reply' = [reply EXCEPT ![r] = [code |-> "missing", answer |-> NoAnswer]]
    BY <2>1, <1>2 DEF Authorize
  <2>2. CASE pc' = [pc EXCEPT ![r] = "audit_denied"] /\ UNCHANGED <<sig, reply>>
    BY <2>2, <1>2 DEF Authorize
  <2>3. CASE /\ sig' = [sig EXCEPT ![r] = dna[req[r].case]]
             /\ pc' = [pc EXCEPT ![r] =
                         IF req[r].op = "register" THEN "put" ELSE "read_keys"]
             /\ UNCHANGED reply
    BY <2>3, <1>2 DEF Authorize
  <2> QED
    BY <1>2, <2>1, <2>2, <2>3 DEF Authorize, Answer
<1>3. ASSUME NEW r \in Requests, AuditDenied(r)
      PROVE  ReplyInv'
  BY <1>3 DEF AuditDenied, Answer, Record
<1>4. ASSUME NEW r \in Requests, Put(r) \/ ReadKeys(r)
      PROVE  ReplyInv'
  BY <1>4 DEF Put, ReadKeys
<1>5. ASSUME NEW r \in Requests, AuditRegistered(r)
      PROVE  ReplyInv'
  BY <1>5 DEF AuditRegistered, Answer, Record
<1>7. ASSUME NEW r \in Requests, ReadIndexes(r)
      PROVE  ReplyInv'
  <2>1. /\ UNCHANGED <<req, sig, audit>>
        /\ pc[r] = "read_indexes" /\ pc' = [pc EXCEPT ![r] = "audit_queried"]
    BY <1>7 DEF ReadIndexes
  <2>2. /\ pc'[r] = "audit_queried" /\ reply'[r].code = "none"
        /\ sig[r] # NoSignal /\ req[r].op = "query"
    BY <1>7, <2>1, AnswerEffect
  <2>3. \A q \in Requests \ {r} : reply'[q] = reply[q] /\ pc'[q] = pc[q]
    BY <1>7, <2>1, AnswerEffect
  <2>4. \A q \in Requests : EventOf(q)' = EventOf(q) /\ sig'[q] = sig[q] /\ req'[q] = req[q]
    BY <2>1
  <2>5. ASSUME NEW q \in Requests \ {r}
        PROVE  /\ pc'[q] # "done" => reply'[q].code = "none"
               /\ reply'[q].code = "ok" => sig'[q] # NoSignal
               /\ reply'[q].code = "denied" => [type |-> "AUTH_FAILURE", of |-> q] \in audit'
               /\ pc'[q] = "done" /\ sig'[q] # NoSignal => EventOf(q)' \in audit'
               /\ reply'[q].answer # NoAnswer =>
                    sig'[q] # NoSignal /\ req'[q].op = "query"
                    /\ pc'[q] \notin {"read_keys", "read_indexes"}
    BY <2>1, <2>3, <2>4
  <2> QED
    BY <2>1, <2>2, <2>4, <2>5
<1>8. ASSUME NEW r \in Requests, AuditQueried(r)
      PROVE  ReplyInv'
  BY <1>8 DEF AuditQueried, Answer, Record
<1>9. ASSUME NEW r \in Requests, Fail(r)
      PROVE  ReplyInv'
  BY <1>9 DEF Fail, Working
<1>10. ASSUME UNCHANGED <<audit, pc, req, sig, reply>>
       PROVE  ReplyInv'
  BY <1>10
<1>11. \/ UNCHANGED <<audit, pc, req, sig, reply>>
       \/ \E r \in Requests : Step(r) \/ Fail(r) \/ \E in \in Inputs : Begin(r, in)
  BY DEF Next, SaveDna, CatchUpKeys, CatchUpIndexes, Expire, Tick, vars, requestVars
<1> QED
  BY <1>1, <1>2, <1>3, <1>4, <1>5, <1>7, <1>8, <1>9, <1>10, <1>11 DEF Step

\* Every step keeps answers grounded.
LEMMA AnswerStep == RegistryInv /\ [Next]_vars => AnswerInv'
<1> SUFFICES ASSUME RegistryInv, [Next]_vars,
                    NEW q \in Requests, NEW g, reply'[q].answer.of = g, g # NoSignal
             PROVE  Grounded(g)' /\ g.unit # UnitOf[req'[q].case] /\ g.at + Ttl > at'[q]
  BY DEF AnswerInv
<1>0. NoSignal # g /\ NoAnswer.of = NoSignal
  BY DEF NoAnswer
<1>1. CASE ReadIndexes(q)
  <2>1. g \in Candidates(q)
    BY <1>0, <1>1, AnswerEffect
  <2>2. Grounded(g)
    BY <2>1, CandidateType DEF RegistryInv, StoreInv
  <2>3. at'[q] = clock /\ req' = req
    BY <1>1 DEF ReadIndexes, RegistryInv, TypeOK
  <2> QED
    BY <2>1, <2>2, <2>3, GroundedStable DEF Candidates
<1>2. CASE ~ReadIndexes(q)
  <2>1. ASSUME NEW r \in Requests, ReadIndexes(r)
        PROVE  reply'[q].answer.of = reply[q].answer.of /\ req'[q] = req[q] /\ at'[q] = at[q]
    <3>1. r # q
      BY <1>2, <2>1
    <3> QED
      BY <2>1, <3>1, AnswerEffect DEF ReadIndexes, RegistryInv, TypeOK
  <2>2. ASSUME NEW r \in Requests, NEW in \in Inputs, Begin(r, in)
        PROVE  reply'[q].answer.of = reply[q].answer.of /\ req'[q] = req[q] /\ at'[q] = at[q]
    <3>1. reply[r].answer = NoAnswer /\ UNCHANGED <<reply, at>>
      BY <2>2 DEF Begin, RegistryInv, HandlerInv, ReplyInv
    <3>2. r # q
      BY <1>0, <3>1
    <3> QED
      BY <2>2, <3>1, <3>2 DEF Begin, RegistryInv, TypeOK
  <2>3. ASSUME NEW r \in Requests, Authorize(r)
        PROVE  reply'[q].answer.of = reply[q].answer.of /\ req'[q] = req[q] /\ at'[q] = at[q]
    <3>1. reply[r].answer = NoAnswer
      BY <2>3 DEF Authorize, RegistryInv, HandlerInv, ReplyInv
    <3>2. reply'[r].answer = NoAnswer
      BY <2>3, <3>1 DEF Authorize, Answer, RegistryInv, TypeOK
    <3>3. r # q
      BY <1>0, <3>2
    <3> QED
      BY <2>3, <3>3 DEF Authorize, Answer, RegistryInv, TypeOK
  <2>4. ASSUME NEW r \in Requests, AuditDenied(r) \/ AuditRegistered(r) \/ AuditQueried(r)
        PROVE  reply'[q].answer.of = reply[q].answer.of /\ req'[q] = req[q] /\ at'[q] = at[q]
    <3>1. /\ UNCHANGED <<req, at>>
          /\ \A p \in Requests \ {r} : reply'[p] = reply[p]
          /\ reply'[r].answer \in {NoAnswer, reply[r].answer}
      BY <2>4 DEF AuditDenied, AuditRegistered, AuditQueried, Answer, RegistryInv, TypeOK
    <3> QED
      BY <1>0, <3>1
  <2>5. ASSUME UNCHANGED <<reply, req, at>>
        PROVE  reply'[q].answer.of = reply[q].answer.of /\ req'[q] = req[q] /\ at'[q] = at[q]
    BY <2>5
  <2>6. \/ UNCHANGED <<reply, req, at>>
        \/ \E r \in Requests :
             \/ \E in \in Inputs : Begin(r, in)
             \/ Authorize(r) \/ AuditDenied(r) \/ AuditRegistered(r) \/ AuditQueried(r)
             \/ ReadIndexes(r)
    BY DEF Next, Step, Put, ReadKeys, Fail, SaveDna, CatchUpKeys, CatchUpIndexes, Expire, Tick,
           vars, requestVars
  <2>7. reply[q].answer.of = g /\ req'[q] = req[q] /\ at'[q] = at[q]
    BY <2>1, <2>2, <2>3, <2>4, <2>5, <2>6
  <2>8. Grounded(g) /\ g.unit # UnitOf[req[q].case] /\ g.at + Ttl > at[q]
    BY <2>7 DEF RegistryInv, AnswerInv
  <2> QED
    BY <2>7, <2>8, GroundedStable
<1> QED
  BY <1>1, <1>2

-------------------------------------------------------------------------------
(* What a query could see when it was stamped *)

\* Every step keeps it visible.
LEMMA KnownStep == RegistryInv /\ [Next]_vars => KnownInv'
<1> SUFFICES ASSUME RegistryInv, [Next]_vars,
                    NEW r \in Requests, pc'[r] \in {"read_keys", "read_indexes"},
                    NEW g \in known'[r], g.at + Ttl > clock'
             PROVE  /\ Fresh(items, g)' /\ Fresh(keyView, g)' /\ Fresh(indexView, g)'
                    /\ /\ pc'[r] = "read_indexes" /\ g.unit \in Simulated
                       /\ Fingerprint(g.sig) = Fingerprint(sig'[r])
                       => Fresh(found'[r], g)
  BY DEF KnownInv
<1>0. known'[r] \subseteq Registrations /\ g.at \in Nat /\ Ttl \in Nat /\ clock \in Nat
  BY TypeStep, RegistryAssumption
  DEF RegistryAssumption, TypeOK, RegistryInv, Registrations
<1>1. g.at + Ttl > clock
  BY <1>0, ClockStep
<1>2. CASE Authorize(r)
  <2>1. pc'[r] = "read_keys" /\ known'[r] = items \intersect keyView \intersect indexView
        /\ UNCHANGED tableVars
    BY <1>2 DEF Authorize, Answer, Goto, RegistryInv, TypeOK
  <2> QED
    BY <1>0, <2>1 DEF Fresh, tableVars
<1>3. CASE ~Authorize(r)
  <2>1. known'[r] = known[r]
    BY <1>3
    DEF Next, Step, Begin, Authorize, AuditDenied, AuditRegistered, ReadKeys, ReadIndexes,
        AuditQueried, Fail, SaveDna, Tick, Put, CatchUpKeys, CatchUpIndexes, Expire, vars,
        requestVars, RegistryInv, TypeOK
  <2>2. /\ pc[r] \in {"read_keys", "read_indexes"}
        /\ \/ pc'[r] = "read_indexes" /\ (ReadKeys(r) \/ pc[r] = "read_indexes")
           \/ pc'[r] # "read_indexes"
    BY <1>3
    DEF Next, Step, Begin, Authorize, AuditDenied, AuditRegistered, ReadKeys, ReadIndexes,
        AuditQueried, Fail, SaveDna, Tick, Put, CatchUpKeys, CatchUpIndexes, Expire, vars,
        requestVars, RegistryInv, TypeOK, Goto, Answer, Working
  <2>3. Fresh(items, g) /\ Fresh(keyView, g) /\ Fresh(indexView, g)
    BY <1>1, <2>1, <2>2 DEF RegistryInv, KnownInv
  <2>4. Fresh(items, g)' /\ Fresh(keyView, g)' /\ Fresh(indexView, g)'
    BY <1>0, <2>3, FreshStable
  <2>5. ASSUME ReadKeys(r), g.unit \in Simulated, Fingerprint(g.sig) = Fingerprint(sig'[r])
        PROVE  Fresh(found'[r], g)
    <3>1. PICK h \in keyView : KeyOf(h) = KeyOf(g) /\ h.at >= g.at
      BY <2>3 DEF Fresh
    <3>2. h.unit = g.unit /\ Fingerprint(h.sig) = Fingerprint(g.sig) /\ sig'[r] = sig[r]
      BY <2>5, <3>1 DEF KeyOf, ReadKeys
    <3>3. h \in found'[r]
      BY <2>5, <3>2 DEF ReadKeys, RegistryInv, TypeOK
    <3> QED
      BY <3>1, <3>3 DEF Fresh
  <2>6. ASSUME pc[r] = "read_indexes", pc'[r] = "read_indexes"
        PROVE  found'[r] = found[r] /\ sig'[r] = sig[r]
    BY <2>6
    DEF Next, Step, Begin, Authorize, AuditDenied, AuditRegistered, ReadKeys, ReadIndexes,
        AuditQueried, Fail, SaveDna, Tick, Put, CatchUpKeys, CatchUpIndexes, Expire, vars,
        requestVars, RegistryInv, TypeOK, Goto, Answer, Working
  <2>7. ASSUME pc[r] = "read_indexes", pc'[r] = "read_indexes", g.unit \in Simulated,
               Fingerprint(g.sig) = Fingerprint(sig'[r])
        PROVE  Fresh(found'[r], g)
    BY <1>1, <2>1, <2>6, <2>7 DEF RegistryInv, KnownInv
  <2> QED
    BY <2>2, <2>4, <2>5, <2>7
<1> QED
  BY <1>2, <1>3

-------------------------------------------------------------------------------
(* Theorems *)

\* The inductive invariant holds in every reachable state.
THEOREM RegistryInvariance == Spec => []RegistryInv
<1>1. RegistryInv /\ [Next]_vars => RegistryInv'
  BY TypeStep, HandlerStep, ReplyStep, AnswerStep, StoreStep, KeptStep, KnownStep DEF RegistryInv
<1> QED
  BY InitRegistryInv, <1>1, PTL DEF Spec

\* The registry, its reads and the handlers keep their types.
THEOREM RegistryTypeCorrect == Spec => []TypeOK
<1>1. RegistryInv => TypeOK
  BY DEF RegistryInv
<1> QED
  BY RegistryInvariance, <1>1, PTL

\* A query is answered only by what another unit put and what has not expired.
THEOREM AnswersAreGrounded == Spec => []AnswerIsGrounded
<1>1. RegistryInv => AnswerIsGrounded
  <2> SUFFICES ASSUME RegistryInv, NEW r \in Requests, Queried(r),
                      reply[r].answer.of # NoSignal
               PROVE  LET g == reply[r].answer.of IN
                      /\ g.unit # req[r].ibu /\ g.at + Ttl > at[r]
                      /\ UnitOf[g.case] = g.unit
                      /\ Grounded(g)
    BY DEF AnswerIsGrounded
  <2> DEFINE g == reply[r].answer.of
  <2>1. Grounded(g) /\ g.unit # UnitOf[req[r].case] /\ g.at + Ttl > at[r]
    BY DEF RegistryInv, AnswerInv
  <2>2. OwnCase(r)
    BY DEF RegistryInv, ReplyInv, HandlerInv, Queried
  <2>3. UnitOf[g.case] = g.unit
    BY <2>1 DEF Grounded, Registration
  <2> QED
    BY <2>1, <2>2, <2>3 DEF OwnCase
<1> QED
  BY RegistryInvariance, <1>1, PTL

\* An acknowledged registration stands, in its form or renewed, until it expires.
THEOREM RegistrationsAreKept == Spec => []RegistrationKept
<1>1. RegistryInv => RegistrationKept
  BY DEF RegistryInv, RegistrationKept, KeptInv, ReplyInv
<1> QED
  BY RegistryInvariance, <1>1, PTL

\* Handlers die one at a time, and each death is counted.
LEMMA DeathStep == TypeOK /\ DeathInv /\ [Next]_vars => DeathInv'
<1> SUFFICES ASSUME TypeOK, DeathInv, [Next]_vars PROVE DeathInv'
  OBVIOUS
<1>t. pc \in [Requests -> Working \union {"idle", "done", "dead"}] /\ failures \in Nat
  BY RegistryAssumption DEF TypeOK, RegistryAssumption
<1>1. ASSUME NEW q \in Requests, Fail(q)
      PROVE  DeathInv'
  <2>1. q \notin Dead /\ Dead' = Dead \union {q} /\ failures' = failures + 1
    BY <1>1, <1>t DEF Fail, Goto, Dead, Working
  <2> QED
    BY <2>1, FS_AddElement DEF DeathInv
<1>2. ASSUME NEW q \in Requests, Step(q)
      PROVE  DeathInv'
  <2>1. failures' = failures
    BY <1>2 DEF Step, Authorize, AuditDenied, Put, AuditRegistered, ReadKeys, ReadIndexes,
      AuditQueried
  <2>2. pc[q] \in Working /\ \E label \in Working \union {"done"} : Goto(q, label)
    BY <1>2 DEF Step, Authorize, AuditDenied, Put, AuditRegistered, ReadKeys, ReadIndexes,
      AuditQueried, Answer, Working
  <2>3. Dead' = Dead
    BY <1>t, <2>2 DEF Goto, Dead, Working
  <2> QED
    BY <2>1, <2>3 DEF DeathInv
<1>3. ASSUME NEW q \in Requests, NEW in \in Inputs, Begin(q, in)
      PROVE  DeathInv'
  <2>1. Dead' = Dead /\ failures' = failures
    BY <1>3, <1>t DEF Begin, Goto, Dead
  <2> QED
    BY <2>1 DEF DeathInv
<1>4. ASSUME pc' = pc, failures' = failures
      PROVE  DeathInv'
  BY <1>4 DEF DeathInv, Dead
<1>5. \/ pc' = pc /\ failures' = failures
      \/ \E q \in Requests : (\E in \in Inputs : Begin(q, in)) \/ Step(q) \/ Fail(q)
  BY DEF Next, SaveDna, CatchUpKeys, CatchUpIndexes, Expire, Tick, vars, requestVars
<1> QED
  BY <1>1, <1>2, <1>3, <1>4, <1>5

\* Registry and replies agree with the audit trail, but for one event per death.
THEOREM AuditIsComplete == Spec => []AuditComplete
<1>1. RegistryInv /\ DeathInv => AuditComplete
  <2> SUFFICES ASSUME RegistryInv, DeathInv PROVE AuditComplete
    OBVIOUS
  <2>1. \A w \in Requests : sig[w] # NoSignal /\ pc[w] = "done" => EventOf(w) \in audit
    BY DEF RegistryInv, ReplyInv
  <2>2. \A r \in Requests :
          /\ reply[r].code = "denied" => [type |-> "AUTH_FAILURE", of |-> r] \in audit
          /\ reply[r].code = "ok" => EventOf(r) \in audit
    BY DEF RegistryInv, ReplyInv
  <2>3. Unaudited \subseteq Dead
    BY <2>1 DEF Unaudited, Dead
  <2>4. Cardinality(Unaudited) <= failures
    BY <2>3, FS_Subset DEF DeathInv
  <2>5. \A g \in items : \E w \in Requests :
          Registered(w) /\ Registration(w) = g /\ (pc[w] = "done" => EventOf(w) \in audit)
    BY <2>1 DEF RegistryInv, StoreInv, Grounded, Registered
  <2> QED
    BY <2>2, <2>4, <2>5 DEF AuditComplete
<1>2. Init => DeathInv
  <2> SUFFICES ASSUME Init PROVE DeathInv
    OBVIOUS
  <2>1. Dead = {} /\ failures = 0
    BY DEF Init, Dead
  <2> QED
    BY <2>1, FS_EmptySet DEF DeathInv
<1>3. RegistryInv => TypeOK
  BY DEF RegistryInv
<1> QED
  BY RegistryInvariance, DeathStep, <1>1, <1>2, <1>3, PTL DEF Spec
-------------------------------------------------------------------------------
(* Duplicates are reported *)

\* The versions a query has read include one that is as late as any it could see
\* when it was stamped and must be warned of.
LEMMA WarningIsCandidate ==
  ASSUME RegistryInv, NEW r \in Requests, pc[r] = "read_indexes",
         NEW g \in known[r], Warning(sig[r], g, req[r].ibu, clock)
  PROVE  \E c \in Candidates(r) : Duplicate(sig[r], c.sig)
<1>0. /\ sig[r] \in Signals /\ UnitOf[req[r].case] = req[r].ibu /\ Ttl \in Nat /\ clock \in Nat
      /\ g \in Registrations /\ g.at + Ttl > clock /\ g.unit # req[r].ibu
      /\ indexView \subseteq Registrations /\ found[r] \subseteq Registrations
  BY RegistryAssumption
  DEF RegistryAssumption, RegistryInv, TypeOK, HandlerInv, OwnCase, Warning
<1>1. /\ Fresh(indexView, g)
      /\ g.unit \in Simulated /\ Fingerprint(g.sig) = Fingerprint(sig[r]) => Fresh(found[r], g)
  BY <1>0 DEF RegistryInv, KnownInv
<1>2. ASSUME NEW h \in Merged(r), KeyOf(h) = KeyOf(g), h.at >= g.at
      PROVE  h \in Candidates(r)
  <2>1. h \in Registrations /\ h.unit = g.unit
    BY <1>0, <1>2, CandidateType DEF KeyOf, RegistryInv
  <2> QED
    BY <1>0, <1>2, <2>1 DEF Candidates, Registrations
<1>3. CASE KeyKeepsBl(sig[r], g)
  <2>1. PICK h \in indexView : KeyOf(h) = KeyOf(g) /\ h.at >= g.at
    BY <1>1 DEF Fresh
  <2>2. PICK w \in Requests : Registered(w) /\ Registration(w) = h
    BY <2>1 DEF RegistryInv, StoreInv, Grounded
  <2>3. SameBl(sig[r], h.sig)
    BY <1>3, <2>1, <2>2 DEF KeyKeepsBl, Registration
  <2>4. h \in Merged(r)
    BY <2>1, <2>3 DEF Merged, IndexHit
  <2> QED
    BY <1>2, <2>1, <2>3, <2>4 DEF Duplicate
<1>4. CASE ~KeyKeepsBl(sig[r], g)
  <2>1. g.unit \in Simulated /\ Fingerprint(g.sig) = Fingerprint(sig[r])
    BY <1>4 DEF Warning
  <2>2. PICK h \in found[r] : KeyOf(h) = KeyOf(g) /\ h.at >= g.at
    BY <1>1, <2>1 DEF Fresh
  <2>3. PICK i \in indexView : KeyOf(i) = KeyOf(g) /\ i.at >= g.at
    BY <1>1 DEF Fresh
  <2>4. \E k \in Merged(r) : KeyOf(k) = KeyOf(g) /\ k.at >= g.at
    <3>1. CASE \A k \in indexView : IndexHit(sig[r], k.sig) => KeyOf(k) # KeyOf(h)
      BY <2>2, <3>1 DEF Merged
    <3>2. CASE \E k \in indexView : IndexHit(sig[r], k.sig) /\ KeyOf(k) = KeyOf(h)
      BY <2>2, <2>3, <3>2 DEF Merged, RegistryInv, StoreInv, OnePerKey
    <3> QED
      BY <3>1, <3>2
  <2>5. PICK k \in Merged(r) : KeyOf(k) = KeyOf(g) /\ k.at >= g.at
    BY <2>4
  <2>6. Fingerprint(k.sig) = Fingerprint(sig[r])
    BY <2>1, <2>5 DEF KeyOf
  <2> QED
    BY <1>2, <2>5, <2>6 DEF Duplicate
<1> QED
  BY <1>3, <1>4

\* Every step keeps duplicates reported.
LEMMA ReportStep ==
  RegistryInv /\ ExactDuplicateReported /\ [Next]_vars => ExactDuplicateReported'
<1> SUFFICES ASSUME RegistryInv, ExactDuplicateReported, [Next]_vars,
                    NEW r \in Requests, Queried(r)',
                    NEW g \in known'[r], Warning(sig[r], g, req[r].ibu, at[r])'
             PROVE  reply'[r].answer.level = "EXACT"
  BY DEF ExactDuplicateReported
<1>t. /\ pc \in [Requests -> Working \union {"idle", "done", "dead"}]
      /\ reply \in [Requests -> Replies] /\ sig \in [Requests -> Signals \union {NoSignal}]
      /\ at \in [Requests -> 0..MaxTime] /\ req \in [Requests -> Inputs \union {NoSignal}]
  BY DEF RegistryInv, TypeOK
<1>w. sig'[r] = sig[r] /\ req'[r] = req[r]
      => Warning(sig[r], g, req[r].ibu, at'[r])
  <2>1. KeyKeepsBl(sig[r], g)' /\ sig'[r] = sig[r] => KeyKeepsBl(sig[r], g)
    BY RegisteredStable DEF KeyKeepsBl
  <2> QED
    BY <2>1 DEF Warning
<1>1. CASE ReadIndexes(r)
  <2>1. /\ pc[r] = "read_indexes" /\ known' = known /\ sig' = sig /\ req' = req
        /\ at'[r] = clock
    BY <1>1, <1>t DEF ReadIndexes
  <2>2. PICK c \in Candidates(r) : Duplicate(sig[r], c.sig)
    BY <2>1, <1>w, WarningIsCandidate
  <2>3. PICK a \in Best(sig[r], Candidates(r)) :
          reply' = [reply EXCEPT ![r].answer = [level |-> Level(sig[r], a.sig), of |-> a]]
    BY <1>1, <2>2 DEF ReadIndexes
  <2>4. Level(sig[r], a.sig) = "EXACT"
    BY <2>2, <2>3, BestIsExact
  <2> QED
    BY <1>t, <2>3, <2>4 DEF Replies
<1>2. CASE ~ReadIndexes(r)
  <2> DEFINE Same == /\ pc[r] \in {"audit_queried", "done"}
                     /\ reply'[r].answer = reply[r].answer /\ known'[r] = known[r]
                     /\ sig'[r] = sig[r] /\ req'[r] = req[r] /\ at'[r] = at[r]
  <2>0. pc'[r] \in {"audit_queried", "done"} /\ reply'[r].answer # NoAnswer
    BY DEF Queried
  <2>1. ASSUME NEW q \in Requests, ReadIndexes(q)
        PROVE  Same
    BY <1>2, <2>0, <2>1, <1>t, AnswerEffect DEF ReadIndexes, Goto
  <2>2. ASSUME NEW q \in Requests, NEW in \in Inputs, Begin(q, in)
        PROVE  Same
    BY <2>0, <2>2, <1>t DEF Begin, Goto, RegistryInv, TypeOK
  <2>3. ASSUME NEW q \in Requests, Authorize(q)
        PROVE  Same
    <3>1. q # r
      <4> SUFFICES ASSUME q = r PROVE FALSE
        OBVIOUS
      <4>1. reply[r].answer = NoAnswer
        BY <2>3 DEF Authorize, RegistryInv, HandlerInv, ReplyInv
      <4>2. reply'[r].answer = NoAnswer
        BY <2>3, <4>1, <1>t DEF Authorize, Answer
      <4> QED
        BY <2>0, <4>2
    <3>2. pc'[r] = pc[r] /\ reply'[r] = reply[r] /\ known'[r] = known[r] /\ sig'[r] = sig[r]
          /\ at'[r] = at[r] /\ req' = req
      BY <2>3, <3>1, <1>t DEF Authorize, Answer, Goto, RegistryInv, TypeOK
    <3> QED
      BY <2>0, <3>2
  <2>4. ASSUME NEW q \in Requests, AuditDenied(q) \/ AuditRegistered(q) \/ AuditQueried(q)
        PROVE  Same
    BY <2>0, <2>4, <1>t
    DEF AuditDenied, AuditRegistered, AuditQueried, Answer, Goto, requestVars
  <2>5. ASSUME NEW q \in Requests, Put(q) \/ ReadKeys(q) \/ Fail(q)
        PROVE  Same
    BY <2>0, <2>5, <1>t DEF Put, ReadKeys, Fail, Goto, RegistryInv, HandlerInv, ReplyInv
  <2>6. ASSUME UNCHANGED <<requestVars>>
        PROVE  Same
    BY <2>0, <2>6 DEF requestVars
  <2>7. \/ UNCHANGED <<requestVars>>
        \/ \E q \in Requests :
             \/ \E in \in Inputs : Begin(q, in)
             \/ Step(q) \/ Fail(q)
    BY DEF Next, SaveDna, CatchUpKeys, CatchUpIndexes, Expire, Tick, vars, requestVars
  <2>8. Same
    BY <2>1, <2>2, <2>3, <2>4, <2>5, <2>6, <2>7 DEF Step
  <2>9. Queried(r)
    BY <2>0, <2>8 DEF Queried
  <2>10. Warning(sig[r], g, req[r].ibu, at[r])
    BY <2>8, <1>w, <1>t
  <2> QED
    BY <2>8, <2>9, <2>10 DEF ExactDuplicateReported
<1> QED
  BY <1>1, <1>2

\* A duplicate that every read returned when a query was stamped is reported as EXACT
\* unless it has expired meanwhile: by its fingerprint in a unit looked up by key, by
\* its B/L unless a trade of another B/L was registered under its key.
THEOREM DuplicatesAreReported == Spec => []ExactDuplicateReported
<1>1. Init => ExactDuplicateReported
  BY DEF Init, ExactDuplicateReported, Queried
<1>2. RegistryInv /\ ExactDuplicateReported /\ [Next]_vars => ExactDuplicateReported'
  BY ReportStep
<1> QED
  BY RegistryInvariance, <1>1, <1>2, PTL DEF Spec
===============================================================================
