------------------------------- MODULE CrossIBU -------------------------------
(***************************************************************************)
(* The registry in which banking units (IBUs) register the fingerprints of *)
(* their transactions and look for those of others: the two handlers of    *)
(* cross_ibu_api.py over the DynamoDB registry, and the matcher.           *)
(*                                                                         *)
(* Several processes serve requests, so each call to a store is an action. *)
(* DynamoDB reads and indexes lag behind the table and forget expired      *)
(* items late.  The unit of time is a day: a registration takes less.      *)
(***************************************************************************)
EXTENDS Integers, Sequences, FiniteSets

CONSTANTS
  Units,        \* banking units
  Simulated,    \* simulated_ibus: the units whose items are looked up by key
  Cases,        \* cases with a transaction DNA
  UnitOf,       \* UnitOf[c]: presenting_ibu
  Signals,      \* signals a DNA may project to: functions from Fields
  NoValue,      \* a field without value: None
  Similarity(_, _),  \* token_sort_ratio of two values, in percent
  DaysBetween(_, _), \* distance of two shipment dates
  StartDna,     \* the DNA built before the behaviour
  Requests,     \* activations of the handlers
  Inputs,       \* what clients send: [op, case, ibu of the caller]
  NoSignal,     \* no transaction DNA
  Ttl,          \* ttl_days
  MaxTime,      \* bound: days
  MaxBuilds,    \* bound: DNA built during the behaviour
  MaxFailures   \* bound: requests that die

Fields == {"bl", "voyage", "vessel", "exporter", "date", "loading", "discharge"}

\* matching.json, in hundredths.
Weight ==
  [bl |-> 100, voyage |-> 25, vessel |-> 20, exporter |-> 20, date |-> 15,
   loading |-> 10, discharge |-> 10]

MatchLevel == {"EXACT", "NEAR", "CONTEXTUAL", "NONE"}

Ops == {"register", "query"}

Registrations == [unit : Units, case : Cases, sig : Signals, at : 0..MaxTime]

Answers == [level : MatchLevel \union {"-"}, of : Registrations \union {NoSignal}]

ASSUME RegistryAssumption ==
  /\ Simulated \subseteq Units
  /\ UnitOf \in [Cases -> Units]
  /\ \A s \in Signals : DOMAIN s = Fields
  /\ NoSignal \notin Signals
  /\ NoSignal \notin Registrations
  /\ Inputs \subseteq [op : Ops, case : Cases, ibu : Units]
  /\ NoSignal \notin Inputs
  /\ StartDna \subseteq [Cases -> Signals \union {NoSignal}]
  /\ Ttl \in Nat /\ Ttl > 0
  /\ MaxTime \in Nat
  /\ MaxBuilds \in Nat
  /\ MaxFailures \in Nat

-------------------------------------------------------------------------------
(* The fingerprint and the matcher *)

Has(s, field) == s[field] # NoValue

\* The values the builder hashes, joined without a separator: one that is
\* missing leaves no trace.
Fingerprint(s) ==
  LET present(v) == v # NoValue IN
  SelectSeq(<<s["bl"], s["vessel"], s["voyage"], s["loading"], s["discharge"], s["date"],
              s["exporter"]>>, present)

SameBl(s, t) == Has(s, "bl") /\ s["bl"] = t["bl"]

SimilarityOf(field, a, b) ==
  IF field # "date" THEN Similarity(a, b)
  ELSE IF a = b THEN 100 ELSE IF DaysBetween(a, b) <= 7 THEN 50 ELSE 0

\* The sum of a weight over the fields, those with F(field) = 0 left out.
SumOver(F(_)) ==
  F("bl") + F("voyage") + F("vessel") + F("exporter") + F("date") + F("loading")
    + F("discharge")

\* weighted_similarity: over the fields that both have.
Compared(s, t, field) == Has(s, field) /\ Has(t, field)

Denominator(s, t) ==
  LET F(field) == IF Compared(s, t, field) THEN Weight[field] ELSE 0 IN SumOver(F)

Numerator(s, t) ==
  LET F(field) == IF Compared(s, t, field)
                  THEN Weight[field] * SimilarityOf(field, s[field], t[field]) ELSE 0
  IN  SumOver(F)

\* score >= threshold (in percent), where nothing compared scores 0.
Reaches(s, t, threshold) ==
  Denominator(s, t) > 0 /\ Numerator(s, t) >= threshold * Denominator(s, t)

\* Both have the field and the values differ.
Differ(s, t, field) == Compared(s, t, field) /\ s[field] # t[field]

FalsePositive(s, t) ==
  /\ Compared(s, t, "exporter") /\ s["exporter"] = t["exporter"]
  /\ \A field \in {"bl", "vessel", "date"} : Differ(s, t, field)

Contextual(s, t) ==
  /\ s["bl"] # t["bl"]
  /\ \A field \in {"exporter", "vessel", "voyage", "loading", "discharge"} :
       Has(s, field) /\ s[field] = t[field]

Duplicate(s, t) == Fingerprint(s) = Fingerprint(t) \/ SameBl(s, t)

\* Both thresholds, likely and possible, give NEAR.
Level(s, t) ==
  CASE Duplicate(s, t) -> "EXACT"
    [] ~Duplicate(s, t) /\ ~FalsePositive(s, t) /\ Reaches(s, t, 85) -> "NEAR"
    [] /\ ~Duplicate(s, t) /\ ~FalsePositive(s, t) /\ ~Reaches(s, t, 85)
       /\ Contextual(s, t) -> "CONTEXTUAL"
    [] OTHER -> "NONE"

Priority == [EXACT |-> 3, NEAR |-> 2, CONTEXTUAL |-> 1, NONE |-> 0]

\* Mutant: a suppressed pattern or a mere resemblance may stand for a duplicate.
BestAny(s, candidates) == candidates

\* The candidates of the highest level, and among them those of the highest
\* score (an exact one scores 1).
Better(s, a, b) ==
  \/ Priority[Level(s, a.sig)] > Priority[Level(s, b.sig)]
  \/ /\ Level(s, a.sig) = Level(s, b.sig) /\ Level(s, a.sig) # "EXACT"
     /\ Numerator(s, a.sig) * Denominator(s, b.sig) > Numerator(s, b.sig) * Denominator(s, a.sig)

Best(s, candidates) == {a \in candidates : \A b \in candidates : ~Better(s, b, a)}

-------------------------------------------------------------------------------

VARIABLES
  dna,        \* dna[c]: the signal of the DNA stored for case c, or NoSignal
  items,      \* the registrations in the table, one per unit and fingerprint
  keyView,    \* what reads by key return
  indexView,  \* what index queries return
  audit,      \* audit events: [type, of], of the request
  clock,      \* the day
  pc,         \* pc[r]: the store call request r makes next
  req,        \* req[r]: what the client sent, or NoSignal
  sig,        \* sig[r]: the signal the handler works with, or NoSignal
  at,         \* at[r]: the day of the registration, or of the answer
  found,      \* found[r]: what the query has read by key
  reply,      \* reply[r]: [code, answer]
  known,      \* history: what every read returned when query r was stamped
  builds,     \* DNA built
  failures    \* requests that died

tableVars == <<items, keyView, indexView>>
requestVars == <<pc, req, sig, at, found, reply, known>>
vars == <<dna, items, keyView, indexView, audit, clock, pc, req, sig, at, found, reply,
          known, builds, failures>>

NoAnswer == [level |-> "-", of |-> NoSignal]

\* An empty registry; the DNA of some cases has been built.
Init ==
  /\ dna \in StartDna
  /\ items = {} /\ keyView = {} /\ indexView = {}
  /\ audit = {}
  /\ clock = 0
  /\ pc = [r \in Requests |-> "idle"]
  /\ req = [r \in Requests |-> NoSignal]
  /\ sig = [r \in Requests |-> NoSignal]
  /\ at = [r \in Requests |-> 0]
  /\ found = [r \in Requests |-> {}]
  /\ reply = [r \in Requests |-> [code |-> "none", answer |-> NoAnswer]]
  /\ known = [r \in Requests |-> {}]
  /\ builds = 0
  /\ failures = 0

-------------------------------------------------------------------------------
(* register_transaction and query_registry *)

Goto(r, label) == pc' = [pc EXCEPT ![r] = label]

Answer(r, code, answer) ==
  /\ reply' = [reply EXCEPT ![r] = [code |-> code, answer |-> answer]]
  /\ Goto(r, "done")

Record(r, type) == audit' = audit \union {[type |-> type, of |-> r]}

\* The role has been checked.
Begin(r, in) ==
  /\ pc[r] = "idle"
  /\ req' = [req EXCEPT ![r] = in]
  /\ Goto(r, "authorize")
  /\ UNCHANGED <<dna, tableVars, audit, clock, sig, at, found, reply, known, builds, failures>>

OwnCase(r) == UnitOf[req[r].case] = req[r].ibu

\* _authorized_signal; a registration or query is stamped in the same step.
Authorize(r) ==
  LET signal == dna[req[r].case] IN
  /\ pc[r] = "authorize"
  /\ \/ signal = NoSignal /\ Answer(r, "missing", NoAnswer) /\ UNCHANGED <<sig, at, known>>
     \/ /\ signal # NoSignal /\ ~OwnCase(r)
        /\ Goto(r, "audit_denied") /\ UNCHANGED <<sig, at, known, reply>>
     \/ /\ signal # NoSignal /\ OwnCase(r)
        /\ sig' = [sig EXCEPT ![r] = signal]
        /\ at' = [at EXCEPT ![r] = clock]
        /\ \/ req[r].op = "register" /\ Goto(r, "put") /\ UNCHANGED known
           \/ /\ req[r].op = "query" /\ Goto(r, "read_keys")
              /\ known' = [known EXCEPT ![r] = items \intersect keyView \intersect indexView]
        /\ UNCHANGED reply
  /\ UNCHANGED <<dna, tableVars, audit, clock, req, found, builds, failures>>

AuditDenied(r) ==
  /\ pc[r] = "audit_denied"
  /\ Record(r, "AUTH_FAILURE")
  /\ Answer(r, "denied", NoAnswer)
  /\ UNCHANGED <<dna, tableVars, clock, req, sig, at, found, known, builds, failures>>

\* PK and SK of an item.
KeyOf(g) == <<g.unit, Fingerprint(g.sig)>>

\* Mutant: the day of expiry for that of registration.
RegistrationExpiry(r) ==
  [unit |-> UnitOf[req[r].case], case |-> req[r].case, sig |-> sig[r], at |-> at[r] + Ttl]

Registration(r) ==
  [unit |-> UnitOf[req[r].case], case |-> req[r].case, sig |-> sig[r], at |-> at[r]]

\* Mutant: an existing item is kept (attribute_not_exists).
StoreOnce(g) ==
  items' = IF \E h \in items : KeyOf(h) = KeyOf(g) THEN items ELSE items \union {g}

\* put_item replaces the item of the key.
Store(g) == items' = {h \in items : KeyOf(h) # KeyOf(g)} \union {g}

Put(r) ==
  /\ pc[r] = "put"
  /\ Store(Registration(r))
  /\ Goto(r, "audit_registered")
  /\ UNCHANGED <<dna, keyView, indexView, audit, clock, req, sig, at, found, reply, known,
                 builds, failures>>

\* Mutant: a registration is not an event.
AuditRegisteredNever(r) ==
  /\ pc[r] = "audit_registered"
  /\ Answer(r, "ok", NoAnswer)
  /\ UNCHANGED <<dna, tableVars, audit, clock, req, sig, at, found, known, builds, failures>>

AuditRegistered(r) ==
  /\ pc[r] = "audit_registered"
  /\ Record(r, "CROSS_IBU_REGISTERED")
  /\ Answer(r, "ok", NoAnswer)
  /\ UNCHANGED <<dna, tableVars, clock, req, sig, at, found, known, builds, failures>>

\* get_item for each of the simulated units.
ReadKeys(r) ==
  /\ pc[r] = "read_keys"
  /\ found' = [found EXCEPT ![r] =
       {g \in keyView : g.unit \in Simulated /\ Fingerprint(g.sig) = Fingerprint(sig[r])}]
  /\ Goto(r, "read_indexes")
  /\ UNCHANGED <<dna, tableVars, audit, clock, req, sig, at, reply, known, builds, failures>>

\* The three indexes; an item without a shipment date is not in the one by vessel.
IndexHit(s, t) ==
  \/ SameBl(s, t)
  \/ Has(s, "vessel") /\ s["vessel"] = t["vessel"] /\ Has(t, "date")
  \/ Has(s, "exporter") /\ s["exporter"] = t["exporter"]

\* items.values(): by registration id, the index read last.
Merged(r) ==
  LET hits == {g \in indexView : IndexHit(sig[r], g.sig)} IN
  hits \union {g \in found[r] : \A h \in hits : KeyOf(h) # KeyOf(g)}

\* Mutant: expired registrations are candidates.
CandidatesExpired(r) == {g \in Merged(r) : g.unit # UnitOf[req[r].case]}

Candidates(r) == {g \in Merged(r) : g.unit # UnitOf[req[r].case] /\ g.at + Ttl > clock}

\* The rest of find_candidates, and find_best_match.
ReadIndexes(r) ==
  /\ pc[r] = "read_indexes"
  /\ at' = [at EXCEPT ![r] = clock]
  /\ \/ /\ Candidates(r) = {}
        /\ reply' = [reply EXCEPT ![r].answer = [level |-> "NONE", of |-> NoSignal]]
     \/ \E g \in Best(sig[r], Candidates(r)) :
          reply' = [reply EXCEPT ![r].answer = [level |-> Level(sig[r], g.sig), of |-> g]]
  /\ found' = [found EXCEPT ![r] = {}]
  /\ Goto(r, "audit_queried")
  /\ UNCHANGED <<dna, tableVars, audit, clock, req, sig, known, builds, failures>>

AuditQueried(r) ==
  /\ pc[r] = "audit_queried"
  /\ Record(r, "CROSS_IBU_QUERIED")
  /\ Answer(r, "ok", reply[r].answer)
  /\ UNCHANGED <<dna, tableVars, clock, req, sig, at, found, known, builds, failures>>

Working ==
  {"authorize", "audit_denied", "put", "audit_registered", "read_keys", "read_indexes",
   "audit_queried"}

\* A store call raises, or the process dies before it.
Fail(r) ==
  /\ failures < MaxFailures
  /\ pc[r] \in Working
  /\ failures' = failures + 1
  /\ Goto(r, "dead")
  /\ UNCHANGED <<dna, tableVars, audit, clock, req, sig, at, found, reply, known, builds>>

-------------------------------------------------------------------------------
(* The surroundings of the handlers *)

\* dna_store.save: a case's DNA is built, or built again from changed documents.
SaveDna(c, s) ==
  /\ builds < MaxBuilds
  /\ builds' = builds + 1
  /\ dna' = [dna EXCEPT ![c] = s]
  /\ UNCHANGED <<tableVars, audit, clock, requestVars, failures>>

\* A read catches up with the table, key by key.
CatchUp(view, k) ==
  {g \in view : KeyOf(g) # k} \union {g \in items : KeyOf(g) = k}

Lagging(view) == {KeyOf(g) : g \in (items \ view) \union (view \ items)}

CatchUpKeys ==
  /\ \E k \in Lagging(keyView) : keyView' = CatchUp(keyView, k)
  /\ UNCHANGED <<dna, items, indexView, audit, clock, requestVars, builds, failures>>

CatchUpIndexes ==
  /\ \E k \in Lagging(indexView) : indexView' = CatchUp(indexView, k)
  /\ UNCHANGED <<dna, items, keyView, audit, clock, requestVars, builds, failures>>

\* The table forgets an expired item at some time.
Expire(g) ==
  /\ g \in items /\ g.at + Ttl <= clock
  /\ items' = items \ {g}
  /\ UNCHANGED <<dna, keyView, indexView, audit, clock, requestVars, builds, failures>>

\* A day passes, but not between the stamp of a registration and its put.
Tick ==
  /\ clock < MaxTime
  /\ \A r \in Requests : pc[r] # "put"
  /\ clock' = clock + 1
  /\ UNCHANGED <<dna, tableVars, audit, requestVars, builds, failures>>

-------------------------------------------------------------------------------

Step(r) ==
  \/ Authorize(r) \/ AuditDenied(r) \/ Put(r) \/ AuditRegistered(r)
  \/ ReadKeys(r) \/ ReadIndexes(r) \/ AuditQueried(r)

Next ==
  \/ \E r \in Requests, in \in Inputs : Begin(r, in)
  \/ \E r \in Requests : Step(r) \/ Fail(r)
  \/ \E c \in Cases, s \in Signals : SaveDna(c, s)
  \/ CatchUpKeys \/ CatchUpIndexes
  \/ \E g \in items : Expire(g)
  \/ Tick

Spec == Init /\ [][Next]_vars

-------------------------------------------------------------------------------
(* Properties *)

EventTypes == {"AUTH_FAILURE", "CROSS_IBU_REGISTERED", "CROSS_IBU_QUERIED"}

Replies == [code : {"none", "missing", "denied", "ok"}, answer : Answers]

\* Each variable holds the kind of value the stores and the handlers keep there.
TypeOK ==
  /\ dna \in [Cases -> Signals \union {NoSignal}]
  /\ items \subseteq Registrations
  /\ keyView \subseteq Registrations
  /\ indexView \subseteq Registrations
  /\ audit \subseteq [type : EventTypes, of : Requests]
  /\ clock \in 0..MaxTime
  /\ pc \in [Requests -> Working \union {"idle", "done", "dead"}]
  /\ req \in [Requests -> Inputs \union {NoSignal}]
  /\ sig \in [Requests -> Signals \union {NoSignal}]
  /\ at \in [Requests -> 0..MaxTime]
  /\ found \in [Requests -> SUBSET Registrations]
  /\ reply \in [Requests -> Replies]
  /\ known \in [Requests -> SUBSET Registrations]
  /\ builds \in 0..MaxBuilds
  /\ failures \in 0..MaxFailures

Queried(r) == pc[r] \in {"audit_queried", "done"} /\ reply[r].answer # NoAnswer

Registered(r) ==
  req[r] # NoSignal /\ req[r].op = "register" /\ sig[r] # NoSignal /\ pc[r] # "put"

\* All that has been registered under the key of g carries the B/L of s: the joined
\* fields of two trades may give one fingerprint, and then one replaces the other.
KeyKeepsBl(s, g) ==
  SameBl(s, g.sig)
  /\ \A w \in Requests : Registered(w) /\ KeyOf(Registration(w)) = KeyOf(g) => SameBl(s, sig[w])

\* Registrations by which a query of signal s must be warned: by their fingerprint if
\* they are looked up by key, by their B/L wherever they come from.
Warning(s, g, unit, day) ==
  /\ g.unit # unit /\ g.at + Ttl > day
  /\ \/ g.unit \in Simulated /\ Fingerprint(s) = Fingerprint(g.sig)
     \/ KeyKeepsBl(s, g)

\* A registration that every read returned when the query was stamped, and that has
\* not expired when it is answered, is reported as an exact duplicate, whatever
\* was registered again, expired, lagged or looked like a repeat customer.
ExactDuplicateReported ==
  \A r \in Requests : Queried(r) =>
    \A g \in known[r] :
      Warning(sig[r], g, req[r].ibu, at[r]) => reply[r].answer.level = "EXACT"

Grounded(g) == \E w \in Requests : Registered(w) /\ Registration(w) = g

\* A query is never answered by a registration of the asking unit, by an expired
\* one, or by one that no handler of its unit put under one of its own cases.
AnswerIsGrounded ==
  \A r \in Requests : Queried(r) /\ reply[r].answer.of # NoSignal =>
    LET g == reply[r].answer.of IN
    /\ g.unit # req[r].ibu /\ g.at + Ttl > at[r]
    /\ UnitOf[g.case] = g.unit
    /\ Grounded(g)

\* The view has g or a later registration under its key.
Fresh(view, g) == \E h \in view : KeyOf(h) = KeyOf(g) /\ h.at >= g.at

\* An acknowledged registration stands until its time is over, in its own form
\* or renewed, whatever its unit registers besides.
RegistrationKept ==
  \A r \in Requests :
    reply[r].code = "ok" /\ req[r].op = "register" /\ at[r] + Ttl > clock =>
      Fresh(items, Registration(r))

EventOf(r) ==
  [type |-> IF req[r].op = "query" THEN "CROSS_IBU_QUERIED" ELSE "CROSS_IBU_REGISTERED",
   of |-> r]

\* Handlers that ended with no event of what they registered or answered.
Unaudited ==
  {r \in Requests : sig[r] # NoSignal /\ pc[r] \in {"done", "dead"} /\ EventOf(r) \notin audit}

\* What the registry holds and what a caller was answered is in the audit trail, but
\* for handlers that have their event still to record; each death loses at most one.
AuditComplete ==
  /\ \A g \in items : \E w \in Requests :
       Registered(w) /\ Registration(w) = g /\ (pc[w] = "done" => EventOf(w) \in audit)
  /\ \A r \in Requests :
       /\ reply[r].code = "denied" => [type |-> "AUTH_FAILURE", of |-> r] \in audit
       /\ reply[r].code = "ok" => EventOf(r) \in audit
  /\ Cardinality(Unaudited) <= failures

-------------------------------------------------------------------------------
(* The inductive invariant *)

\* What a handler holds at each of its calls.
HandlerInv ==
  \A r \in Requests :
    /\ pc[r] = "idle" <=> req[r] = NoSignal
    /\ pc[r] \in {"idle", "authorize", "audit_denied"} => sig[r] = NoSignal
    /\ pc[r] \in {"put", "audit_registered"} => sig[r] # NoSignal /\ req[r].op = "register"
    /\ pc[r] \in {"read_keys", "read_indexes", "audit_queried"} =>
         sig[r] # NoSignal /\ req[r].op = "query"
    /\ sig[r] # NoSignal => OwnCase(r)
    /\ at[r] <= clock
    /\ pc[r] = "put" => at[r] = clock

\* What was answered has been audited.
ReplyInv ==
  \A r \in Requests :
    /\ pc[r] # "done" => reply[r].code = "none"
    /\ reply[r].code = "ok" => sig[r] # NoSignal
    /\ reply[r].code = "denied" => [type |-> "AUTH_FAILURE", of |-> r] \in audit
    /\ pc[r] = "done" /\ sig[r] # NoSignal => EventOf(r) \in audit
    /\ reply[r].answer # NoAnswer =>
         sig[r] # NoSignal /\ req[r].op = "query" /\ pc[r] \notin {"read_keys", "read_indexes"}

\* An answer that names a registration names a live one of another unit.
AnswerInv ==
  \A r \in Requests : \A g \in {reply[r].answer.of} \ {NoSignal} :
    Grounded(g) /\ g.unit # UnitOf[req[r].case] /\ g.at + Ttl > at[r]

OnePerKey(view) == \A g, h \in view : KeyOf(g) = KeyOf(h) => g = h

\* Every read returns what some handler put, one item per key.
StoreInv ==
  /\ \A g \in items \union keyView \union indexView : Grounded(g)
  /\ \A r \in Requests : \A g \in found[r] : Grounded(g)
  /\ OnePerKey(items) /\ OnePerKey(keyView) /\ OnePerKey(indexView)

\* A registration that has been put stands until it expires.
KeptInv ==
  \A r \in Requests :
    /\ pc[r] \in {"audit_registered", "done"} /\ sig[r] # NoSignal
    /\ req[r].op = "register" /\ at[r] + Ttl > clock
    => Fresh(items, Registration(r))

\* So do those a query could see when it was stamped, in the table and in every read.
KnownInv ==
  \A r \in Requests : pc[r] \in {"read_keys", "read_indexes"} =>
    \A g \in known[r] : g.at + Ttl > clock =>
      /\ Fresh(items, g) /\ Fresh(keyView, g) /\ Fresh(indexView, g)
      /\ /\ pc[r] = "read_indexes" /\ g.unit \in Simulated
         /\ Fingerprint(g.sig) = Fingerprint(sig[r])
         => Fresh(found[r], g)

Dead == {r \in Requests : pc[r] = "dead"}

\* Each failure ends one handler.
DeathInv == IsFiniteSet(Dead) /\ Cardinality(Dead) = failures

\* The inductive invariant of the proofs: handlers, replies, stores and what is known agree.
RegistryInv ==
  TypeOK /\ HandlerInv /\ ReplyInv /\ AnswerInv /\ StoreInv /\ KeptInv /\ KnownInv
===============================================================================
