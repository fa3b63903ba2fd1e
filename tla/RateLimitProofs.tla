---------------------------- MODULE RateLimitProofs ----------------------------
(***************************************************************************)
(* The limits of RateLimit hold for any number of requests, any limits and *)
(* any window: within a window's grace the numbers a key gives out are     *)
(* distinct, and no counter is ahead of the requests it counted.           *)
(***************************************************************************)
EXTENDS RateLimit, FiniteSetTheorems, TLAPS

-------------------------------------------------------------------------------
(* Windows *)

LEMMA DivBounds ==
  ASSUME NEW n \in Nat
  PROVE  n \div W \in Nat /\ W * (n \div W) <= n /\ n < W * (n \div W) + W
BY RateAssumption

LEMMA Multiples ==
  ASSUME NEW a \in Nat, NEW b \in Nat
  PROVE  W * a \in Nat /\ a <= W * a /\ (W * a < W * b + W => a <= b)
<1>1. W \in Nat /\ W >= 1
  BY RateAssumption
<1>2. W * a \in Nat /\ a <= W * a
  BY <1>1
<1>3. ASSUME W * a < W * b + W, ~(a <= b) PROVE FALSE
  <2>1. a >= b + 1
    BY <1>3
  <2>2. W * a >= W * (b + 1)
    BY <1>1, <2>1
  <2>3. W * (b + 1) = W * b + W
    BY <1>1
  <2>. QED BY <1>3, <2>2, <2>3, <1>1
<1>. QED BY <1>2, <1>3

LEMMA WindowType ==
  ASSUME TypeOK
  PROVE  /\ Window \in Windows
         /\ W * Window \in Nat /\ W * Window <= now /\ now < W * Window + W
<1>1. now \in Nat /\ now <= Horizon /\ Horizon \in Nat
  BY RateAssumption DEF TypeOK
<1>2. Window \in Nat /\ W * Window <= now /\ now < W * Window + W
  BY <1>1, DivBounds DEF Window
<1>3. Window <= W * Window /\ W * Window \in Nat
  BY <1>2, Multiples
<1>. QED BY <1>1, <1>2, <1>3 DEF Windows

-------------------------------------------------------------------------------
(* The inductive invariant *)

\* Nothing is counted in a window that has not begun.
Clock ==
  /\ \A r \in Requests, c \in Checks : W * ticket[r][c].window <= now
  /\ \A k \in Keys : W * stored[k].window <= now

ToCome(s) ==
  IF s \in {"ip", "auth"} THEN {"user", "upload"} ELSE IF s = "user" THEN {"upload"} ELSE {}

\* A request is counted once per check, under a key of its own; only in Redis does
\* it wait within a check.
Order ==
  \A r \in Requests :
    /\ step[r] # "ask" => backend = "redis" /\ stage[r] \in Checks
    /\ \A c \in ToCome(stage[r]) : ticket[r][c].number = 0
    /\ stage[r] \in Checks /\ step[r] # "expire" => ticket[r][stage[r]].number = 0
    /\ \A c \in Checks : ticket[r][c].number > 0 => Key(r, c) \in Keys

\* What a request's numbers were, by where it is.
Passed ==
  \A r \in Requests :
    /\ stage[r] \notin {"limited", "failed"}
         => \A c \in Checks : ticket[r][c].number <= Limit[c]
    /\ stage[r] = "limited" => \E c \in Checks : ticket[r][c].number > Limit[c]

\* No counter, and no number it gave out, is ahead of the requests counted.
Received ==
  \A k \in Keys, w \in Windows :
    /\ stored[k].window = w => stored[k].count <= Cardinality(Counted(k, w))
    /\ count[k][w] <= Cardinality(Counted(k, w))
    /\ \A r \in Counted(k, w) : ticket[r][k.check].number <= Cardinality(Counted(k, w))

\* While a window is not long over, its counter is there and not behind any number
\* it gave out.
Recent ==
  \A k \in Keys, w \in Windows :
    /\ backend = "memory" =>
         \A r \in Counted(k, w) :
           /\ w <= stored[k].window
           /\ w = stored[k].window => ticket[r][k.check].number <= stored[k].count
    /\ backend = "redis" /\ now <= W * w + W =>
         /\ expires[k][w] = 0 \/ expires[k][w] > W * w + W
         /\ \A r \in Counted(k, w) : ticket[r][k.check].number <= count[k][w]

\* Numbers given out before that are distinct.
Distinct ==
  \A k \in Keys, w \in Windows : \A r, s \in Counted(k, w) :
    /\ ~ticket[r][k.check].late /\ ~ticket[s][k.check].late
    /\ ticket[r][k.check].number = ticket[s][k.check].number
    => r = s

RateInv == TypeOK /\ Clock /\ Order /\ Passed /\ Received /\ Recent /\ Distinct

-------------------------------------------------------------------------------
(* Counting *)

LEMMA KeyType ==
  ASSUME TypeOK, NEW r \in Requests, stage[r] \in Checks
  PROVE  Key(r, stage[r]) \in Keys
<1>1. shape[r] \in [client : Clients, officer : Officers \cup {None}, target : Targets]
  BY RateAssumption DEF TypeOK
<1>2. stage[r] # "ip" => shape[r].officer \in Officers
  BY DEF TypeOK, Checks
<1>. QED BY <1>1, <1>2 DEF Key, Keys, Who

LEMMA CountedFinite ==
  ASSUME NEW k, NEW w
  PROVE  /\ IsFiniteSet(Counted(k, w)) /\ Cardinality(Counted(k, w)) \in Nat
         /\ Counted(k, w) \subseteq Requests
<1>1. Counted(k, w) \subseteq Requests
  BY DEF Counted
<1>2. IsFiniteSet(Counted(k, w))
  BY <1>1, FS_Subset, RateAssumption
<1>. QED BY <1>1, <1>2, FS_CardinalityType

\* What counting does to one ticket.
Number(r, w, n, l) ==
  ticket' = [ticket EXCEPT ![r][stage[r]] = [window |-> w, number |-> n, late |-> l]]

\* What a request has between two countings does not disturb the counted.
LEMMA CountedSame ==
  ASSUME TypeOK, Order, UNCHANGED shape,
         \/ UNCHANGED ticket
         \/ \E r \in Requests : Ask(r)
  PROVE  \A k \in Keys, w \in Windows :
           /\ Counted(k, w)' = Counted(k, w)
           /\ \A r \in Counted(k, w) : ticket'[r][k.check] = ticket[r][k.check]
<1>1. CASE UNCHANGED ticket
  BY <1>1 DEF Counted, Who
<1>2. CASE \E r \in Requests : Ask(r)
  <2>1. PICK q \in Requests : Ask(q)
    BY <1>2
  <2>2. /\ ticket' = [ticket EXCEPT ![q][stage[q]].window = Window]
        /\ stage[q] \in Checks /\ step[q] = "ask"
    BY <2>1 DEF Ask
  <2>3. ticket[q][stage[q]].number = 0
    BY <2>2 DEF Order
  <2>4. ticket \in [Requests -> [Checks -> [window : Windows, number : Nat, late : BOOLEAN]]]
    BY DEF TypeOK
  <2>5. ASSUME NEW r \in Requests, NEW c \in Checks
        PROVE  /\ ticket'[r][c].number = ticket[r][c].number
               /\ ticket[r][c].number > 0 => ticket'[r][c] = ticket[r][c]
    <3>1. CASE r = q /\ c = stage[q]
      BY <3>1, <2>2, <2>3, <2>4
    <3>2. CASE ~(r = q /\ c = stage[q])
      BY <3>2, <2>2, <2>4
    <3>. QED BY <3>1, <3>2
  <2>. TAKE k \in Keys, w \in Windows
  <2>6. k.check \in Checks
    BY DEF Keys
  <2>7. \A r \in Requests : r \in Counted(k, w)' <=> r \in Counted(k, w)
    BY <2>5, <2>6 DEF Counted, Who
  <2>8. Counted(k, w)' \subseteq Requests /\ Counted(k, w) \subseteq Requests
    BY DEF Counted
  <2>9. \A r \in Counted(k, w) : ticket'[r][k.check] = ticket[r][k.check]
    BY <2>5, <2>6 DEF Counted
  <2>. QED BY <2>7, <2>8, <2>9
<1>. QED BY <1>1, <1>2

LEMMA CountedOneMore ==
  ASSUME TypeOK, Order, UNCHANGED shape, NEW r \in Requests,
         stage[r] \in Checks, step[r] # "expire",
         NEW v \in Windows, NEW n \in Nat \ {0}, NEW l \in BOOLEAN,
         Number(r, v, n, l)
  PROVE  /\ Key(r, stage[r]) \in Keys
         /\ r \notin Counted(Key(r, stage[r]), v)
         /\ ticket'[r][stage[r]] = [window |-> v, number |-> n, late |-> l]
         /\ \A k \in Keys, w \in Windows :
              /\ Counted(k, w)' = IF k = Key(r, stage[r]) /\ w = v
                                  THEN Counted(k, w) \cup {r} ELSE Counted(k, w)
              /\ \A s \in Counted(k, w) : ticket'[s][k.check] = ticket[s][k.check]
<1>. DEFINE c == stage[r]
<1>1. c \in Checks /\ ticket[r][c].number = 0
  BY DEF Order
<1>2. ticket \in [Requests -> [Checks -> [window : Windows, number : Nat, late : BOOLEAN]]]
  BY DEF TypeOK
<1>3. ticket'[r][c] = [window |-> v, number |-> n, late |-> l]
  BY <1>1, <1>2 DEF Number
<1>4. \A s \in Requests, d \in Checks : ~(s = r /\ d = c) => ticket'[s][d] = ticket[s][d]
  BY <1>1, <1>2 DEF Number
<1>5. Key(r, c) \in Keys
  BY <1>1, KeyType
<1>6. r \notin Counted(Key(r, c), v)
  BY <1>1 DEF Counted, Key
<1>. HIDE DEF c
<1>7. ASSUME NEW k \in Keys, NEW w \in Windows
      PROVE  /\ Counted(k, w)' = IF k = Key(r, c) /\ w = v
                                 THEN Counted(k, w) \cup {r} ELSE Counted(k, w)
             /\ \A s \in Counted(k, w) : ticket'[s][k.check] = ticket[s][k.check]
  <2>1. k.check \in Checks
    BY DEF Keys
  <2>2. k = Key(r, c) <=> k.check = c /\ Who(r, c) = k.who
    BY <1>5 DEF Key, Keys
  <2>3. \A s \in Requests : s # r => (s \in Counted(k, w)' <=> s \in Counted(k, w))
    BY <1>4, <2>1 DEF Counted, Who
  <2>4. k.check # c => (r \in Counted(k, w)' <=> r \in Counted(k, w))
    BY <1>4, <2>1 DEF Counted, Who
  <2>5. k.check = c => (r \in Counted(k, w)' <=> k = Key(r, c) /\ w = v)
    BY <1>3, <2>2 DEF Counted, Who
  <2>6. k.check = c => r \notin Counted(k, w)
    BY <1>1 DEF Counted
  <2>7. Counted(k, w)' \subseteq Requests /\ Counted(k, w) \subseteq Requests
    BY DEF Counted
  <2>8. \A s : s \in Counted(k, w)' <=> s \in (IF k = Key(r, c) /\ w = v
                                               THEN Counted(k, w) \cup {r} ELSE Counted(k, w))
    BY <2>2, <2>3, <2>4, <2>5, <2>6, <2>7
  <2>9. \A s \in Counted(k, w) : ticket'[s][k.check] = ticket[s][k.check]
    BY <1>4, <2>1, <2>6, <2>7
  <2>. QED BY <2>8, <2>9
<1>. QED BY <1>3, <1>5, <1>6, <1>7 DEF c
-------------------------------------------------------------------------------
(* Types *)

Stages == Checks \cup {"auth", "called", "limited", "unauthorized", "failed"}

LEMMA Decided ==
  ASSUME TypeOK, UNCHANGED shape, NEW r \in Requests, stage[r] \in Checks,
         NEW n \in Nat, Decide(r, stage[r], n)
  PROVE  /\ stage' \in [Requests -> Stages]
         /\ step' \in [Requests -> {"ask", "incr", "expire"}]
         /\ \A s \in Requests : stage'[s] \in {"user", "upload"} => shape'[s].officer \in Officers
<1>1. stage \in [Requests -> Stages] /\ step \in [Requests -> {"ask", "incr", "expire"}]
  BY DEF TypeOK, Stages
<1>2. Onward(r, stage[r]) \in {"auth", "upload", "called"}
  BY DEF Onward
<1>3. Onward(r, stage[r]) = "upload" => stage[r] = "user"
  BY DEF Onward
<1>4. /\ stage' = [stage EXCEPT ![r] = IF n <= Limit[stage[r]] THEN Onward(r, stage[r]) ELSE "limited"]
      /\ step' = [step EXCEPT ![r] = "ask"]
  BY DEF Decide
<1>5. stage'[r] \in {"auth", "upload", "called", "limited"}
      /\ (stage'[r] = "upload" => stage[r] = "user")
  BY <1>1, <1>2, <1>3, <1>4
<1>6. stage' \in [Requests -> Stages]
  <2>. DEFINE x == IF n <= Limit[stage[r]] THEN Onward(r, stage[r]) ELSE "limited"
  <2>1. x \in Stages
    <3>1. Onward(r, stage[r]) \in Stages
      BY <1>2 DEF Stages, Checks
    <3>2. "limited" \in Stages
      BY DEF Stages
    <3>. QED BY <3>1, <3>2
  <2>2. stage' = [stage EXCEPT ![r] = x]
    BY <1>4
  <2>. HIDE DEF x
  <2>. QED BY <1>1, <2>1, <2>2
<1>7. \A s \in Requests : s # r => stage'[s] = stage[s]
  BY <1>1, <1>4
<1>. QED BY <1>1, <1>4, <1>5, <1>6, <1>7 DEF TypeOK

LEMMA Failed ==
  ASSUME TypeOK, UNCHANGED shape, NEW r \in Requests, Fail(r)
  PROVE  /\ stage' \in [Requests -> Stages]
         /\ step' \in [Requests -> {"ask", "incr", "expire"}]
         /\ \A s \in Requests : stage'[s] \in {"user", "upload"} => shape'[s].officer \in Officers
BY DEF TypeOK, Fail, Stages

LEMMA ParkedType ==
  ASSUME TypeOK, UNCHANGED <<shape, stage>>, NEW r \in Requests,
         NEW x \in {"ask", "incr", "expire"}, step' = [step EXCEPT ![r] = x]
  PROVE  /\ stage' \in [Requests -> Stages]
         /\ step' \in [Requests -> {"ask", "incr", "expire"}]
         /\ \A s \in Requests : stage'[s] \in {"user", "upload"} => shape'[s].officer \in Officers
BY DEF TypeOK, Stages

\* A check moves a request as Decide or Fail does, or leaves it where it is.
Moves(r) ==
  /\ stage' \in [Requests -> Stages]
  /\ step' \in [Requests -> {"ask", "incr", "expire"}]
  /\ \A s \in Requests : stage'[s] \in {"user", "upload"} => shape'[s].officer \in Officers

LEMMA TypeStep ==
  ASSUME TypeOK, [Next]_vars
  PROVE  TypeOK'
<1>. USE DEF redis
<1>1. CASE UNCHANGED vars
  BY <1>1 DEF TypeOK, vars
<1>2. ASSUME NEW r \in Requests, CountInMemory(r) PROVE TypeOK'
  <2>. DEFINE c == stage[r]
              k == Key(r, c)
              n == IF stored[k].window = Window THEN stored[k].count + 1 ELSE 1
  <2>1. /\ c \in Checks
        /\ stored' = [stored EXCEPT ![k] = [window |-> Window, count |-> n]]
        /\ ticket' = [ticket EXCEPT ![r][c] = [window |-> Window, number |-> n, late |-> FALSE]]
        /\ Decide(r, c, n)
        /\ UNCHANGED <<backend, now, shape, redis, trail>>
    BY <1>2 DEF CountInMemory
  <2>2. Window \in Windows
    BY WindowType
  <2>3. k \in Keys
    BY <2>1, KeyType
  <2>4. n \in Nat
    BY <2>3 DEF TypeOK
  <2>. HIDE DEF n, k
  <2>5. stored' \in [Keys -> [window : Windows, count : Nat]]
    BY <2>1, <2>2, <2>4 DEF TypeOK
  <2>6. ticket' \in [Requests -> [Checks -> [window : Windows, number : Nat, late : BOOLEAN]]]
    BY <2>1, <2>2, <2>4 DEF TypeOK
  <2>. QED BY <2>1, <2>4, <2>5, <2>6, Decided DEF TypeOK, Stages
<1>3. ASSUME NEW r \in Requests, Ask(r) PROVE TypeOK'
  <2>1. ticket' \in [Requests -> [Checks -> [window : Windows, number : Nat, late : BOOLEAN]]]
    <3>1. stage[r] \in Checks /\ ticket' = [ticket EXCEPT ![r][stage[r]].window = Window]
      BY <1>3 DEF Ask
    <3>2. Window \in Windows
      BY WindowType
    <3>3. ticket \in [Requests -> [Checks -> [window : Windows, number : Nat, late : BOOLEAN]]]
      BY DEF TypeOK
    <3>4. [ticket[r][stage[r]] EXCEPT !.window = Window]
            \in [window : Windows, number : Nat, late : BOOLEAN]
      BY <3>1, <3>2, <3>3
    <3>. QED BY <3>1, <3>3, <3>4
  <2>2. UNCHANGED <<backend, now, shape, stage, stored, count, expires, trail>>
        /\ step' = [step EXCEPT ![r] = "incr"]
    BY <1>3 DEF Ask
  <2>. QED BY <2>1, <2>2, ParkedType DEF TypeOK, Stages
<1>4. ASSUME NEW r \in Requests, Incr(r) PROVE TypeOK'
  <2>. DEFINE c == stage[r]
              k == Key(r, c)
              w == ticket[r][c].window
              n == Current(k, Part(w)) + 1
  <2>1. /\ c \in Checks
        /\ count' = [count EXCEPT ![k][Part(w)] = n]
        /\ expires' = IF n = 1 THEN [expires EXCEPT ![k][Part(w)] = 0] ELSE expires
        /\ ticket' = [ticket EXCEPT ![r][c] =
                        [window |-> w, number |-> n, late |-> now > W * w + W]]
        /\ \/ n = 1 /\ step' = [step EXCEPT ![r] = "expire"] /\ UNCHANGED stage
           \/ n # 1 /\ Decide(r, c, n)
           \/ Fail(r)
        /\ UNCHANGED <<backend, now, shape, stored, trail>>
    BY <1>4 DEF Incr
  <2>2. w \in Windows /\ Part(w) = w
    BY <2>1 DEF TypeOK, Part
  <2>3. k \in Keys
    BY <2>1, KeyType
  <2>4. n \in Nat
    BY <2>2, <2>3 DEF TypeOK, Current
  <2>. HIDE DEF n, k, w
  <2>5. count' \in [Keys -> [Windows -> Nat]] /\ expires' \in [Keys -> [Windows -> Nat]]
    BY <2>1, <2>2, <2>4 DEF TypeOK
  <2>6. (now > W * w + W) \in BOOLEAN
    OBVIOUS
  <2>7. ticket' \in [Requests -> [Checks -> [window : Windows, number : Nat, late : BOOLEAN]]]
    BY <2>1, <2>2, <2>4, <2>6 DEF TypeOK
  <2>8. Moves(r)
    BY <2>1, <2>4, Decided, Failed, ParkedType DEF Moves
  <2>. QED BY <2>1, <2>5, <2>7, <2>8 DEF TypeOK, Stages, Moves
<1>5. ASSUME NEW r \in Requests, Expire(r) PROVE TypeOK'
  <2>. DEFINE k == Key(r, stage[r])
              w == ticket[r][stage[r]].window
  <2>1. /\ stage[r] \in Checks
        /\ expires' = [expires EXCEPT ![k][Part(w)] = now + Life]
        /\ Decide(r, stage[r], 1) \/ Fail(r)
        /\ UNCHANGED <<backend, now, shape, ticket, stored, count, trail>>
    BY <1>5 DEF Expire
  <2>2. now + Life \in Nat
    BY RateAssumption DEF TypeOK, Life
  <2>3. expires' \in [Keys -> [Windows -> Nat]]
    BY <2>1, <2>2 DEF TypeOK
  <2>4. Moves(r)
    BY <2>1, Decided, Failed DEF Moves
  <2>. QED BY <2>1, <2>3, <2>4 DEF TypeOK, Stages, Moves
<1>6. ASSUME NEW r \in Requests, RedisFails(r) PROVE TypeOK'
  <2>1. UNCHANGED <<backend, now, shape, ticket, stored, count, expires, trail>> /\ Fail(r)
    BY <1>6 DEF RedisFails
  <2>. QED BY <2>1, Failed DEF TypeOK, Stages
<1>7. ASSUME NEW r \in Requests, Authenticate(r) PROVE TypeOK'
  <2>1. shape[r].officer \in Officers \cup {None}
    BY RateAssumption DEF TypeOK
  <2>. QED BY <1>7, <2>1 DEF Authenticate, Principal, TypeOK, Checks
<1>8. ASSUME Tick PROVE TypeOK'
  BY <1>8, RateAssumption DEF Tick, TypeOK
<1>. QED BY <1>1, <1>2, <1>3, <1>4, <1>5, <1>6, <1>7, <1>8 DEF Next
-------------------------------------------------------------------------------
(* The two steps that count *)

MemoryNumber(r) ==
  IF stored[Key(r, stage[r])].window = Window THEN stored[Key(r, stage[r])].count + 1 ELSE 1

LEMMA MemoryStep ==
  ASSUME TypeOK, Order, NEW r \in Requests, CountInMemory(r)
  PROVE  /\ stage[r] \in Checks /\ step[r] = "ask" /\ backend = "memory"
         /\ Key(r, stage[r]) \in Keys /\ Window \in Windows /\ MemoryNumber(r) \in Nat \ {0}
         /\ Number(r, Window, MemoryNumber(r), FALSE)
         /\ stored' = [stored EXCEPT ![Key(r, stage[r])] =
                          [window |-> Window, count |-> MemoryNumber(r)]]
         /\ Decide(r, stage[r], MemoryNumber(r))
         /\ UNCHANGED <<backend, now, shape, count, expires>>
<1>1. stage[r] \in Checks /\ backend = "memory"
  BY DEF CountInMemory
<1>2. step[r] = "ask"
  BY <1>1 DEF Order
<1>3. Key(r, stage[r]) \in Keys /\ Window \in Windows
  BY <1>1, KeyType, WindowType
<1>4. MemoryNumber(r) \in Nat \ {0}
  BY <1>3 DEF MemoryNumber, TypeOK
<1>. QED BY <1>1, <1>2, <1>3, <1>4 DEF CountInMemory, MemoryNumber, Number, redis

IncrKey(r)    == Key(r, stage[r])
IncrWindow(r) == ticket[r][stage[r]].window
IncrNumber(r) == Current(IncrKey(r), IncrWindow(r)) + 1

LEMMA IncrStep ==
  ASSUME TypeOK, Order, NEW r \in Requests, Incr(r)
  PROVE  /\ stage[r] \in Checks /\ step[r] = "incr" /\ backend = "redis"
         /\ IncrKey(r) \in Keys /\ IncrWindow(r) \in Windows /\ IncrNumber(r) \in Nat \ {0}
         /\ count' = [count EXCEPT ![IncrKey(r)][IncrWindow(r)] = IncrNumber(r)]
         /\ expires' = IF IncrNumber(r) = 1
                       THEN [expires EXCEPT ![IncrKey(r)][IncrWindow(r)] = 0] ELSE expires
         /\ \/ IncrNumber(r) = 1 /\ step' = [step EXCEPT ![r] = "expire"] /\ UNCHANGED stage
            \/ IncrNumber(r) # 1 /\ Decide(r, stage[r], IncrNumber(r))
            \/ Fail(r)
         /\ UNCHANGED <<backend, now, shape, stored>>
<1>1. stage[r] \in Checks /\ step[r] = "incr"
  BY DEF Incr
<1>2. backend = "redis"
  BY <1>1 DEF Order
<1>3. IncrKey(r) \in Keys /\ IncrWindow(r) \in Windows
  BY <1>1, KeyType DEF TypeOK, IncrKey, IncrWindow
<1>4. IncrNumber(r) \in Nat \ {0}
  BY <1>3 DEF IncrNumber, Current, TypeOK
<1>. DEFINE w == IncrWindow(r)
            n == IncrNumber(r)
<1>5. /\ count' = [count EXCEPT ![IncrKey(r)][w] = n]
      /\ expires' = IF n = 1 THEN [expires EXCEPT ![IncrKey(r)][w] = 0] ELSE expires
      /\ \/ n = 1 /\ step' = [step EXCEPT ![r] = "expire"] /\ UNCHANGED stage
         \/ n # 1 /\ Decide(r, stage[r], n)
         \/ Fail(r)
      /\ UNCHANGED <<backend, now, shape, stored>>
  BY DEF Incr, IncrNumber, IncrKey, IncrWindow, Part
<1>. QED BY <1>1, <1>2, <1>3, <1>4, <1>5

LEMMA IncrTicket ==
  ASSUME NEW r \in Requests, Incr(r)
  PROVE  \/ /\ now > W * IncrWindow(r) + W
            /\ Number(r, IncrWindow(r), IncrNumber(r), TRUE)
         \/ /\ ~(now > W * IncrWindow(r) + W)
            /\ Number(r, IncrWindow(r), IncrNumber(r), FALSE)
<1>. DEFINE w == IncrWindow(r)
            n == IncrNumber(r)
<1>1. ticket' = [ticket EXCEPT ![r][stage[r]] =
                   [window |-> w, number |-> n, late |-> now > W * w + W]]
  BY DEF Incr, IncrNumber, IncrKey, IncrWindow, Part
<1>. HIDE DEF w, n
<1>2. CASE now > W * w + W
  <2>1. (now > W * w + W) = TRUE
    BY <1>2
  <2>2. Number(r, w, n, TRUE)
    BY <1>1, <2>1, Zenon DEF Number
  <2>. QED BY <1>2, <2>2 DEF w, n
<1>3. CASE ~(now > W * w + W)
  <2>1. (now > W * w + W) = FALSE
    BY <1>3
  <2>2. Number(r, w, n, FALSE)
    BY <1>1, <2>1, Zenon DEF Number
  <2>. QED BY <1>3, <2>2 DEF w, n
<1>. QED BY <1>2, <1>3

\* Every other step leaves the counted and the counters alone.
LEMMA QuietStep ==
  ASSUME TypeOK, Order, [Next]_vars,
         \A r \in Requests : ~CountInMemory(r) /\ ~Incr(r)
  PROVE  /\ UNCHANGED <<backend, shape, stored, count>>
         /\ \/ UNCHANGED ticket
            \/ \E r \in Requests : Ask(r)
         /\ now' \in Nat /\ now \in Nat /\ now' >= now
         /\ \/ UNCHANGED expires
            \/ \E r \in Requests : Expire(r)
         /\ \A k \in Keys, w \in Windows :
              /\ Counted(k, w)' = Counted(k, w)
              /\ \A r \in Counted(k, w) : ticket'[r][k.check] = ticket[r][k.check]
<1>. USE DEF redis
<1>1. now \in Nat
  BY DEF TypeOK
<1>2. /\ UNCHANGED <<backend, shape, stored, count>>
      /\ \/ UNCHANGED ticket
         \/ \E r \in Requests : Ask(r)
      /\ now' = now \/ now' = now + 1
      /\ \/ UNCHANGED expires
         \/ \E r \in Requests : Expire(r)
  <2>1. CASE UNCHANGED vars
    BY <2>1 DEF vars
  <2>2. CASE Tick
    BY <2>2 DEF Tick
  <2>3. ASSUME NEW r \in Requests, Ask(r) \/ Expire(r) \/ RedisFails(r) \/ Authenticate(r)
        PROVE  <1>2!1 /\ <1>2!2 /\ <1>2!3 /\ <1>2!4
    BY <2>3 DEF Ask, Expire, RedisFails, Authenticate
  <2>. QED BY <2>1, <2>2, <2>3 DEF Next
<1>. QED BY <1>1, <1>2, CountedSame
-------------------------------------------------------------------------------
(* Clock *)

LEMMA ClockStep ==
  ASSUME RateInv, [Next]_vars
  PROVE  Clock'
<1>. USE DEF RateInv
<1>1. W * Window <= now /\ now \in Nat /\ W * Window \in Nat
  BY WindowType DEF TypeOK
<1>2. ticket \in [Requests -> [Checks -> [window : Windows, number : Nat, late : BOOLEAN]]]
      /\ stored \in [Keys -> [window : Windows, count : Nat]]
  BY DEF TypeOK
<1>3. ASSUME NEW r \in Requests, CountInMemory(r) PROVE Clock'
  <2>1. /\ stage[r] \in Checks /\ now' = now
        /\ ticket' = [ticket EXCEPT ![r][stage[r]] =
                        [window |-> Window, number |-> MemoryNumber(r), late |-> FALSE]]
        /\ stored' = [stored EXCEPT ![Key(r, stage[r])] =
                          [window |-> Window, count |-> MemoryNumber(r)]]
    BY <1>3, MemoryStep DEF Number
  <2>2. \A s \in Requests, c \in Checks :
          ticket'[s][c].window = ticket[s][c].window \/ ticket'[s][c].window = Window
    BY <1>2, <2>1
  <2>3. \A k \in Keys :
          stored'[k].window = stored[k].window \/ stored'[k].window = Window
    BY <1>2, <2>1
  <2>. QED BY <1>1, <2>1, <2>2, <2>3 DEF Clock
<1>4. ASSUME NEW r \in Requests, Incr(r) PROVE Clock'
  <2>. DEFINE w == IncrWindow(r)
  <2>1. /\ stage[r] \in Checks /\ now' = now /\ stored' = stored
    BY <1>4, IncrStep
  <2>0. \E l : Number(r, w, IncrNumber(r), l)
    BY <1>4, IncrTicket, Zenon
  <2>. HIDE DEF w
  <2>2. \A s \in Requests, c \in Checks :
          \/ ticket'[s][c].window = ticket[s][c].window
          \/ s = r /\ c = stage[r] /\ ticket'[s][c].window = w
    BY <1>2, <2>0, <2>1 DEF Number
  <2>3. \A s \in Requests, c \in Checks : ticket'[s][c].window = ticket[s][c].window
    BY <2>2 DEF w, IncrWindow
  <2>. QED BY <2>1, <2>3 DEF Clock
<1>5. ASSUME \A r \in Requests : ~CountInMemory(r) /\ ~Incr(r) PROVE Clock'
  <2>1. /\ stored' = stored /\ now' \in Nat /\ now' >= now
        /\ UNCHANGED ticket \/ \E r \in Requests : Ask(r)
    BY <1>5, QuietStep
  <2>2. \A s \in Requests, c \in Checks :
          ticket'[s][c].window = ticket[s][c].window \/ ticket'[s][c].window = Window
    <3>1. CASE UNCHANGED ticket
      BY <3>1
    <3>2. CASE \E r \in Requests : Ask(r)
      <4>1. PICK q \in Requests : ticket' = [ticket EXCEPT ![q][stage[q]].window = Window]
        BY <3>2 DEF Ask
      <4>. QED BY <1>2, <4>1
    <3>. QED BY <2>1, <3>1, <3>2
  <2>3. \A s \in Requests, c \in Checks :
          W * ticket[s][c].window \in Nat /\ W * ticket[s][c].window <= now
    <3>1. \A s \in Requests, c \in Checks : ticket[s][c].window \in Nat
      BY <1>2, RateAssumption DEF Windows
    <3>. QED BY <3>1, Multiples DEF Clock
  <2>4. \A k \in Keys : W * stored[k].window \in Nat /\ W * stored[k].window <= now
    <3>1. \A k \in Keys : stored[k].window \in Nat
      BY <1>2, RateAssumption DEF Windows
    <3>. QED BY <3>1, Multiples DEF Clock
  <2>5. ASSUME NEW s \in Requests, NEW c \in Checks
        PROVE  W * ticket'[s][c].window <= now'
    BY <1>1, <2>1, <2>2, <2>3
  <2>6. \A k \in Keys : W * stored'[k].window <= now'
    BY <1>1, <2>1, <2>4
  <2>. QED BY <2>5, <2>6 DEF Clock
<1>. QED BY <1>3, <1>4, <1>5

-------------------------------------------------------------------------------
(* Order and Passed *)

\* Where a request stands after a decision on check c.
LEMMA Moved ==
  ASSUME TypeOK, NEW r \in Requests, stage[r] \in Checks, NEW n \in Nat,
         Decide(r, stage[r], n) \/ Fail(r)
  PROVE  /\ \A s \in Requests : s # r => stage'[s] = stage[s] /\ step'[s] = step[s]
         /\ step'[r] = "ask"
         /\ ToCome(stage'[r]) \subseteq ToCome(stage[r])
         /\ stage'[r] \in Checks => stage'[r] \in ToCome(stage[r])
         /\ \/ stage'[r] = "failed"
            \/ stage'[r] = "limited" /\ n > Limit[stage[r]]
            \/ stage'[r] \notin {"limited", "failed"} /\ n <= Limit[stage[r]]
<1>1. stage \in [Requests -> Stages] /\ step \in [Requests -> {"ask", "incr", "expire"}]
  BY DEF TypeOK, Stages
<1>2. CASE Fail(r)
  BY <1>1, <1>2 DEF Fail, ToCome, Checks
<1>3. CASE Decide(r, stage[r], n)
  <2>1. /\ stage' = [stage EXCEPT ![r] = IF n <= Limit[stage[r]] THEN Onward(r, stage[r]) ELSE "limited"]
        /\ step' = [step EXCEPT ![r] = "ask"]
    BY <1>3 DEF Decide
  <2>2. Limit[stage[r]] \in Nat
    BY RateAssumption
  <2>3. /\ Onward(r, stage[r]) \in {"auth", "upload", "called"}
        /\ Onward(r, stage[r]) = "auth" => stage[r] = "ip"
        /\ Onward(r, stage[r]) = "upload" => stage[r] = "user"
    BY DEF Onward
  <2>4. CASE n <= Limit[stage[r]]
    <3>1. stage'[r] = Onward(r, stage[r])
      BY <1>1, <2>1, <2>4
    <3>. QED BY <1>1, <2>1, <2>3, <2>4, <3>1 DEF ToCome, Checks
  <2>5. CASE ~(n <= Limit[stage[r]])
    <3>1. stage'[r] = "limited"
      BY <1>1, <2>1, <2>5
    <3>. QED BY <1>1, <2>1, <2>2, <2>5, <3>1 DEF ToCome, Checks
  <2>. QED BY <2>4, <2>5
<1>. QED BY <1>2, <1>3
SameTickets(s) == \A c \in Checks : ticket'[s][c].number = ticket[s][c].number

LEMMA OrderKept ==
  ASSUME TypeOK, Order, UNCHANGED <<backend, shape>>, NEW r \in Requests,
         \A s \in Requests : s # r => /\ stage'[s] = stage[s] /\ step'[s] = step[s]
                                      /\ SameTickets(s),
         \A c \in Checks : ticket'[r][c].number = ticket[r][c].number \/ c = stage[r],
         step'[r] # "ask" => backend = "redis" /\ stage'[r] \in Checks,
         ToCome(stage'[r]) \subseteq ToCome(stage[r]),
         stage'[r] \in Checks /\ step'[r] # "expire" =>
           \/ stage'[r] \in ToCome(stage[r])
           \/ stage'[r] = stage[r] /\ step[r] # "expire" /\ SameTickets(r)
  PROVE  Order'
<1>1. \A s : ToCome(s) \subseteq Checks /\ s \notin ToCome(s)
  BY DEF ToCome, Checks
<1>2. \A c \in ToCome(stage[r]) : ticket'[r][c].number = 0
  BY <1>1 DEF Order
<1>3. \A s \in Requests, c \in Checks :
        ticket[s][c].number > 0 \/ (s = r /\ c = stage[r]) => Key(s, c)' \in Keys
  <2>1. \A s \in Requests, c \in Checks : Key(s, c)' = Key(s, c)
    BY DEF Key, Who
  <2>. QED BY <2>1, KeyType DEF Order
<1>4. ASSUME NEW s \in Requests
      PROVE  /\ step'[s] # "ask" => backend' = "redis" /\ stage'[s] \in Checks
             /\ \A c \in ToCome(stage'[s]) : ticket'[s][c].number = 0
             /\ stage'[s] \in Checks /\ step'[s] # "expire" => ticket'[s][stage'[s]].number = 0
             /\ \A c \in Checks : ticket'[s][c].number > 0 => Key(s, c)' \in Keys
  <2>1. CASE s = r
    <3>1. stage'[s] \in Checks /\ step'[s] # "expire" => ticket'[s][stage'[s]].number = 0
      BY <1>1, <1>2, <2>1 DEF Order, SameTickets
    <3>2. \A c \in Checks : ticket'[s][c].number > 0 => Key(s, c)' \in Keys
      BY <1>3, <2>1
    <3>. QED BY <1>2, <2>1, <3>1, <3>2
  <2>2. CASE s # r
    BY <1>1, <1>3, <2>2 DEF Order, SameTickets
  <2>. QED BY <2>1, <2>2
<1>. QED BY <1>4 DEF Order

LEMMA PassedKept ==
  ASSUME TypeOK, Passed, NEW r \in Requests,
         \A s \in Requests : s # r => stage'[s] = stage[s] /\ SameTickets(s),
         \/ stage'[r] = "failed"
         \/ stage'[r] = "limited" /\ \E c \in Checks : ticket'[r][c].number > Limit[c]
         \/ /\ {stage[r], stage'[r]} \cap {"limited", "failed"} = {}
            /\ \A c \in Checks : \/ ticket'[r][c].number = ticket[r][c].number
                                 \/ ticket'[r][c].number <= Limit[c]
  PROVE  Passed'
<1>1. ASSUME NEW s \in Requests
      PROVE  /\ stage'[s] \notin {"limited", "failed"}
                   => \A c \in Checks : ticket'[s][c].number <= Limit[c]
             /\ stage'[s] = "limited" => \E c \in Checks : ticket'[s][c].number > Limit[c]
  <2>1. CASE s = r
    BY <2>1 DEF Passed
  <2>2. CASE s # r
    BY <2>2 DEF Passed, SameTickets
  <2>. QED BY <2>1, <2>2
<1>. QED BY <1>1 DEF Passed

\* The numbers a counting step leaves.
LEMMA NumbersOneMore ==
  ASSUME TypeOK, NEW r \in Requests, stage[r] \in Checks, NEW v, NEW n, NEW l,
         Number(r, v, n, l)
  PROVE  /\ ticket'[r][stage[r]].number = n
         /\ \A c \in Checks : c # stage[r] => ticket'[r][c].number = ticket[r][c].number
         /\ \A s \in Requests : s # r => SameTickets(s)
<1>1. ticket \in [Requests -> [Checks -> [window : Windows, number : Nat, late : BOOLEAN]]]
  BY DEF TypeOK
<1>. QED BY <1>1 DEF Number, SameTickets

LEMMA NumbersSame ==
  ASSUME TypeOK, UNCHANGED ticket \/ \E r \in Requests : Ask(r)
  PROVE  \A s \in Requests : SameTickets(s)
<1>1. ticket \in [Requests -> [Checks -> [window : Windows, number : Nat, late : BOOLEAN]]]
  BY DEF TypeOK
<1>2. CASE UNCHANGED ticket
  BY <1>2 DEF SameTickets
<1>3. CASE \E r \in Requests : Ask(r)
  <2>1. PICK q \in Requests : ticket' = [ticket EXCEPT ![q][stage[q]].window = Window]
    BY <1>3 DEF Ask
  <2>. QED BY <1>1, <2>1 DEF SameTickets
<1>. QED BY <1>2, <1>3
LEMMA OrderPassedStep ==
  ASSUME RateInv, [Next]_vars
  PROVE  Order' /\ Passed'
<1>. USE DEF RateInv, redis
<1>0. \A c \in Checks : Limit[c] \in Nat /\ 1 <= Limit[c]
  BY RateAssumption
<1>1. /\ stage \in [Requests -> Stages] /\ step \in [Requests -> {"ask", "incr", "expire"}]
      /\ Checks \cap {"auth", "called", "limited", "unauthorized", "failed"} = {}
  BY DEF TypeOK, Stages, Checks
<1>2. ASSUME NEW r \in Requests, CountInMemory(r) PROVE Order' /\ Passed'
  <2>. DEFINE n == MemoryNumber(r)
  <2>1. /\ stage[r] \in Checks /\ n \in Nat
        /\ Number(r, Window, n, FALSE) /\ Decide(r, stage[r], n)
        /\ UNCHANGED <<backend, shape>>
    BY <1>2, MemoryStep
  <2>. HIDE DEF n
  <2>2. /\ ticket'[r][stage[r]].number = n
        /\ \A c \in Checks : c # stage[r] => ticket'[r][c].number = ticket[r][c].number
        /\ \A s \in Requests : s # r => SameTickets(s)
    BY <2>1, NumbersOneMore
  <2>3. /\ \A s \in Requests : s # r => stage'[s] = stage[s] /\ step'[s] = step[s]
        /\ step'[r] = "ask"
        /\ ToCome(stage'[r]) \subseteq ToCome(stage[r])
        /\ stage'[r] \in Checks => stage'[r] \in ToCome(stage[r])
        /\ \/ stage'[r] = "failed"
           \/ stage'[r] = "limited" /\ n > Limit[stage[r]]
           \/ stage'[r] \notin {"limited", "failed"} /\ n <= Limit[stage[r]]
    BY <2>1, Moved
  <2>4. Order'
    BY <2>1, <2>2, <2>3, OrderKept
  <2>5. Passed'
    BY <1>1, <2>1, <2>2, <2>3, PassedKept
  <2>. QED BY <2>4, <2>5
<1>3. ASSUME NEW r \in Requests, Incr(r) PROVE Order' /\ Passed'
  <2>. DEFINE n == IncrNumber(r)
              w == IncrWindow(r)
  <2>1. /\ stage[r] \in Checks /\ n \in Nat /\ backend = "redis"
        /\ \/ n = 1 /\ step' = [step EXCEPT ![r] = "expire"] /\ UNCHANGED stage
           \/ n # 1 /\ Decide(r, stage[r], n)
           \/ Fail(r)
        /\ UNCHANGED <<backend, shape>>
    BY <1>3, IncrStep
  <2>5. \E l : Number(r, w, n, l)
    BY <1>3, IncrTicket, Zenon
  <2>. HIDE DEF n, w
  <2>2. /\ ticket'[r][stage[r]].number = n
        /\ \A c \in Checks : c # stage[r] => ticket'[r][c].number = ticket[r][c].number
        /\ \A s \in Requests : s # r => SameTickets(s)
    BY <2>1, <2>5, NumbersOneMore
  <2>3. CASE n = 1 /\ step' = [step EXCEPT ![r] = "expire"] /\ UNCHANGED stage
    <3>1. /\ \A s \in Requests : s # r => stage'[s] = stage[s] /\ step'[s] = step[s]
          /\ step'[r] = "expire" /\ stage'[r] = stage[r]
      BY <1>1, <2>3
    <3>2. Order'
      BY <2>1, <2>2, <3>1, OrderKept
    <3>3. Passed'
      BY <1>0, <1>1, <2>1, <2>2, <2>3, <3>1, PassedKept
    <3>. QED BY <3>2, <3>3
  <2>4. CASE Decide(r, stage[r], n) \/ Fail(r)
    <3>1. /\ \A s \in Requests : s # r => stage'[s] = stage[s] /\ step'[s] = step[s]
          /\ step'[r] = "ask"
          /\ ToCome(stage'[r]) \subseteq ToCome(stage[r])
          /\ stage'[r] \in Checks => stage'[r] \in ToCome(stage[r])
          /\ \/ stage'[r] = "failed"
             \/ stage'[r] = "limited" /\ n > Limit[stage[r]]
             \/ stage'[r] \notin {"limited", "failed"} /\ n <= Limit[stage[r]]
      BY <2>1, <2>4, Moved
    <3>2. Order'
      BY <2>1, <2>2, <3>1, OrderKept
    <3>3. Passed'
      BY <1>1, <2>1, <2>2, <3>1, PassedKept
    <3>. QED BY <3>2, <3>3
  <2>. QED BY <2>1, <2>3, <2>4
<1>4. ASSUME \A r \in Requests : ~CountInMemory(r) /\ ~Incr(r) PROVE Order' /\ Passed'
  <2>1. UNCHANGED <<backend, shape>> /\ \A s \in Requests : SameTickets(s)
    BY <1>4, QuietStep, NumbersSame
  <2>2. CASE UNCHANGED <<stage, step>>
    BY <2>1, <2>2 DEF Order, Passed, SameTickets, ToCome, Checks, Key, Who
  <2>3. ASSUME NEW r \in Requests, Ask(r) PROVE Order' /\ Passed'
    <3>1. /\ backend = "redis" /\ stage[r] \in Checks /\ step[r] = "ask"
          /\ UNCHANGED stage /\ step' = [step EXCEPT ![r] = "incr"]
      BY <2>3 DEF Ask
    <3>2. /\ \A s \in Requests : s # r => step'[s] = step[s]
          /\ step'[r] = "incr"
      BY <1>1, <3>1
    <3>3. Order'
      BY <2>1, <3>1, <3>2, OrderKept DEF SameTickets
    <3>4. Passed'
      BY <1>1, <2>1, <3>1, PassedKept DEF SameTickets
    <3>. QED BY <3>3, <3>4
  <2>4. ASSUME NEW r \in Requests, Expire(r) \/ RedisFails(r) PROVE Order' /\ Passed'
    <3>1. stage[r] \in Checks /\ (Decide(r, stage[r], 1) \/ Fail(r))
      BY <2>4 DEF Expire, RedisFails
    <3>2. /\ \A s \in Requests : s # r => stage'[s] = stage[s] /\ step'[s] = step[s]
          /\ step'[r] = "ask"
          /\ ToCome(stage'[r]) \subseteq ToCome(stage[r])
          /\ stage'[r] \in Checks => stage'[r] \in ToCome(stage[r])
          /\ \/ stage'[r] = "failed"
             \/ stage'[r] = "limited" /\ 1 > Limit[stage[r]]
             \/ stage'[r] \notin {"limited", "failed"} /\ 1 <= Limit[stage[r]]
      BY <3>1, Moved
    <3>3. Order'
      BY <2>1, <3>1, <3>2, OrderKept DEF SameTickets
    <3>4. Passed'
      BY <1>0, <1>1, <2>1, <3>1, <3>2, PassedKept DEF SameTickets
    <3>. QED BY <3>3, <3>4
  <2>5. ASSUME NEW r \in Requests, Authenticate(r) PROVE Order' /\ Passed'
    <3>1. /\ stage[r] = "auth" /\ step' = step
          /\ \E x \in {"user", "unauthorized", "failed"} : stage' = [stage EXCEPT ![r] = x]
      BY <2>5 DEF Authenticate
    <3>2. /\ \A s \in Requests : s # r => stage'[s] = stage[s]
          /\ stage'[r] \in {"user", "unauthorized", "failed"}
      BY <1>1, <3>1
    <3>3. step[r] = "ask"
      BY <1>1, <3>1 DEF Order
    <3>4. /\ ToCome(stage'[r]) \subseteq ToCome(stage[r])
          /\ stage'[r] \in Checks => stage'[r] \in ToCome(stage[r])
      BY <3>1, <3>2 DEF ToCome, Checks
    <3>5. Order'
      BY <2>1, <3>1, <3>2, <3>3, <3>4, OrderKept DEF SameTickets
    <3>6. Passed'
      BY <2>1, <3>1, <3>2, PassedKept DEF SameTickets
    <3>. QED BY <3>5, <3>6
  <2>6. CASE UNCHANGED vars \/ Tick
    BY <2>2, <2>6 DEF vars, Tick
  <2>. QED BY <1>4, <2>3, <2>4, <2>5, <2>6 DEF Next
<1>. QED BY <1>2, <1>3, <1>4

-------------------------------------------------------------------------------
(* Received *)

\* Counting one more request with a number one ahead of a counter of its window.
LEMMA ReceivedOneMore ==
  ASSUME TypeOK, Received, NEW r \in Requests,
         NEW K \in Keys, NEW v \in Windows, NEW n \in Nat \ {0},
         r \notin Counted(K, v), ticket'[r][K.check].number = n,
         \A k \in Keys, w \in Windows :
           /\ Counted(k, w)' = IF k = K /\ w = v THEN Counted(k, w) \cup {r} ELSE Counted(k, w)
           /\ \A s \in Counted(k, w) : ticket'[s][k.check] = ticket[s][k.check],
         \/ n = 1
         \/ n = count[K][v] + 1
         \/ stored[K].window = v /\ n = stored[K].count + 1,
         \/ stored' = stored
         \/ stored' = [stored EXCEPT ![K] = [window |-> v, count |-> n]],
         \/ count' = count
         \/ count' = [count EXCEPT ![K][v] = n]
  PROVE  Received'
<1>1. /\ stored \in [Keys -> [window : Windows, count : Nat]]
      /\ count \in [Keys -> [Windows -> Nat]]
  BY DEF TypeOK
<1>2. /\ Counted(K, v)' = Counted(K, v) \cup {r}
      /\ Cardinality(Counted(K, v) \cup {r}) = Cardinality(Counted(K, v)) + 1
      /\ Cardinality(Counted(K, v)) \in Nat
  BY CountedFinite, FS_AddElement
<1>3. n <= Cardinality(Counted(K, v) \cup {r})
  BY <1>1, <1>2 DEF Received
<1>4. ASSUME NEW k \in Keys, NEW w \in Windows
      PROVE  /\ Cardinality(Counted(k, w)) \in Nat /\ Cardinality(Counted(k, w)') \in Nat
             /\ Cardinality(Counted(k, w)) <= Cardinality(Counted(k, w)')
  <2>1. Cardinality(Counted(k, w)) \in Nat
    BY CountedFinite
  <2>2. CASE k = K /\ w = v
    <3>1. Counted(k, w)' = Counted(K, v) \cup {r} /\ Counted(k, w) = Counted(K, v)
      BY <1>2, <2>2
    <3>. QED BY <1>2, <3>1
  <2>3. CASE ~(k = K /\ w = v)
    <3>1. Counted(k, w)' = Counted(k, w)
      BY <2>3
    <3>. QED BY <2>1, <3>1
  <2>. QED BY <2>2, <2>3
<1>5. ASSUME NEW k \in Keys, NEW w \in Windows
      PROVE  count'[k][w] <= Cardinality(Counted(k, w)')
  <2>1. CASE count'[k][w] = count[k][w]
    <3>1. count[k][w] \in Nat /\ count[k][w] <= Cardinality(Counted(k, w))
      BY <1>1 DEF Received
    <3>. QED BY <1>4, <2>1, <3>1
  <2>2. CASE k = K /\ w = v /\ count'[k][w] = n
    <3>1. Counted(k, w)' = Counted(K, v) \cup {r}
      BY <1>2, <2>2
    <3>. QED BY <1>3, <2>2, <3>1
  <2>. QED BY <1>1, <2>1, <2>2
<1>6. ASSUME NEW k \in Keys, NEW w \in Windows, NEW s \in Counted(k, w)'
      PROVE  ticket'[s][k.check].number <= Cardinality(Counted(k, w)')
  <2>1. CASE s \in Counted(k, w)
    <3>1. ticket'[s][k.check].number <= Cardinality(Counted(k, w))
      BY <2>1 DEF Received
    <3>2. ticket'[s][k.check].number \in Nat
      BY <2>1, CountedFinite DEF TypeOK, Keys
    <3>. QED BY <1>4, <3>1, <3>2
  <2>2. CASE s \notin Counted(k, w)
    <3>1. k = K /\ w = v /\ s = r /\ Counted(k, w)' = Counted(K, v) \cup {r}
      BY <1>2, <2>2
    <3>. QED BY <1>3, <3>1
  <2>. QED BY <2>1, <2>2
<1>7. ASSUME NEW k \in Keys, NEW w \in Windows, stored'[k].window = w
      PROVE  stored'[k].count <= Cardinality(Counted(k, w)')
  <2>1. CASE stored'[k] = stored[k]
    <3>1. stored[k].count \in Nat /\ stored[k].count <= Cardinality(Counted(k, w))
      BY <1>1, <1>7, <2>1 DEF Received
    <3>. QED BY <1>4, <2>1, <3>1
  <2>2. CASE k = K /\ stored'[k] = [window |-> v, count |-> n]
    <3>1. stored'[k].count = n /\ Counted(k, w)' = Counted(K, v) \cup {r}
      BY <1>2, <1>7, <2>2
    <3>. QED BY <1>3, <3>1
  <2>. QED BY <1>1, <2>1, <2>2
<1>. QED BY <1>5, <1>6, <1>7 DEF Received

LEMMA ReceivedStep ==
  ASSUME RateInv, [Next]_vars
  PROVE  Received'
<1>. USE DEF RateInv
<1>1. /\ stored \in [Keys -> [window : Windows, count : Nat]]
      /\ count \in [Keys -> [Windows -> Nat]]
      /\ Windows \subseteq Nat
  BY RateAssumption DEF TypeOK, Windows
<1>2. ASSUME NEW r \in Requests, CountInMemory(r) PROVE Received'
  <2>. DEFINE n == MemoryNumber(r)
              K == Key(r, stage[r])
              v == Window
  <2>1. /\ stage[r] \in Checks /\ step[r] # "expire" /\ K \in Keys /\ v \in Windows /\ n \in Nat \ {0}
        /\ Number(r, v, n, FALSE)
        /\ stored' = [stored EXCEPT ![K] = [window |-> v, count |-> n]]
        /\ UNCHANGED <<shape, count>>
    BY <1>2, MemoryStep
  <2>2. n = 1 \/ (stored[K].window = v /\ n = stored[K].count + 1)
    BY <2>1 DEF MemoryNumber
  <2>. HIDE DEF n, K, v
  <2>3. /\ r \notin Counted(K, v)
        /\ ticket'[r][stage[r]] = [window |-> v, number |-> n, late |-> FALSE]
        /\ \A k \in Keys, w \in Windows :
             /\ Counted(k, w)' = IF k = K /\ w = v THEN Counted(k, w) \cup {r} ELSE Counted(k, w)
             /\ \A s \in Counted(k, w) : ticket'[s][k.check] = ticket[s][k.check]
    BY <2>1, CountedOneMore DEF K
  <2>4. K.check = stage[r]
    BY DEF K, Key
  <2>5. ticket'[r][K.check].number = n
    BY <2>3, <2>4
  <2>. QED BY <2>1, <2>2, <2>3, <2>5, ReceivedOneMore
<1>3. ASSUME NEW r \in Requests, Incr(r) PROVE Received'
  <2>. DEFINE n == IncrNumber(r)
              K == IncrKey(r)
              v == IncrWindow(r)
  <2>1. /\ stage[r] \in Checks /\ step[r] # "expire" /\ K \in Keys /\ v \in Windows /\ n \in Nat \ {0}
        /\ n = Current(K, v) + 1
        /\ count' = [count EXCEPT ![K][v] = n]
        /\ UNCHANGED <<shape, stored>>
    BY <1>3, IncrStep DEF IncrNumber
  <2>2. n = 1 \/ n = count[K][v] + 1
    <3>1. Current(K, v) = 0 \/ Current(K, v) = count[K][v]
      BY DEF Current
    <3>. QED BY <2>1, <3>1
  <2>3. PICK l \in BOOLEAN : Number(r, v, n, l)
    BY <1>3, IncrTicket, Zenon
  <2>. HIDE DEF n, K, v
  <2>4. /\ r \notin Counted(K, v)
        /\ ticket'[r][stage[r]] = [window |-> v, number |-> n, late |-> l]
        /\ \A k \in Keys, w \in Windows :
             /\ Counted(k, w)' = IF k = K /\ w = v THEN Counted(k, w) \cup {r} ELSE Counted(k, w)
             /\ \A s \in Counted(k, w) : ticket'[s][k.check] = ticket[s][k.check]
    BY <2>1, <2>3, CountedOneMore DEF K, IncrKey
  <2>5. K.check = stage[r]
    BY DEF K, IncrKey, Key
  <2>6. ticket'[r][K.check].number = n
    BY <2>4, <2>5
  <2>. QED BY <2>1, <2>2, <2>4, <2>6, ReceivedOneMore
<1>4. ASSUME \A r \in Requests : ~CountInMemory(r) /\ ~Incr(r) PROVE Received'
  <2>1. /\ UNCHANGED <<stored, count>>
        /\ \A k \in Keys, w \in Windows :
              /\ Counted(k, w)' = Counted(k, w)
              /\ \A r \in Counted(k, w) : ticket'[r][k.check] = ticket[r][k.check]
    BY <1>4, QuietStep
  <2>. QED BY <2>1 DEF Received
<1>. QED BY <1>2, <1>3, <1>4
-------------------------------------------------------------------------------
(* Recent and Distinct *)

\* In the process the stored count is that of the latest window.
LEMMA MemoryAhead ==
  ASSUME RateInv, NEW r \in Requests, CountInMemory(r), NEW K, K = Key(r, stage[r])
  PROVE  /\ stored[K].window \in Nat /\ Window \in Nat /\ stored[K].window <= Window
         /\ MemoryNumber(r) \in Nat /\ stored[K].count \in Nat
         /\ \A s \in Counted(K, Window) :
              /\ Window = stored[K].window
              /\ MemoryNumber(r) = stored[K].count + 1
              /\ ticket[s][K.check].number <= stored[K].count
<1>. USE DEF RateInv
<1>1. K \in Keys /\ Window \in Windows /\ backend = "memory" /\ MemoryNumber(r) \in Nat
  BY MemoryStep
<1>2. stored[K] \in [window : Windows, count : Nat] /\ Windows \subseteq Nat
  BY <1>1, RateAssumption DEF TypeOK, Windows
<1>3. stored[K].window <= Window
  <2>. DEFINE a == stored[K].window
              b == Window
  <2>1. W * a <= now /\ now < W * b + W
    BY <1>1, WindowType DEF Clock
  <2>2. a \in Nat /\ b \in Nat /\ now \in Nat
    <3>1. now \in Nat
      BY RateAssumption DEF TypeOK
    <3>2. a \in Nat
      BY <1>2
    <3>3. b \in Nat
      BY <1>1, <1>2
    <3>. QED BY <3>1, <3>2, <3>3
  <2>. HIDE DEF a, b
  <2>3. W * a \in Nat /\ W * b \in Nat /\ W \in Nat
    BY <2>2, Multiples, RateAssumption
  <2>4. W * a < W * b + W
    BY <2>1, <2>2, <2>3
  <2>5. a <= b
    BY <2>2, <2>4, Multiples
  <2>. QED BY <2>5 DEF a, b
<1>4. ASSUME NEW s \in Counted(K, Window)
      PROVE  /\ Window = stored[K].window
             /\ MemoryNumber(r) = stored[K].count + 1
             /\ ticket[s][K.check].number <= stored[K].count
  <2>1. Window <= stored[K].window
    BY <1>1 DEF Recent
  <2>2. Window = stored[K].window
    <3>. DEFINE a == stored[K].window
                b == Window
    <3>1. a \in Nat /\ b \in Nat /\ a <= b /\ b <= a
      BY <1>1, <1>2, <1>3, <2>1
    <3>. HIDE DEF a, b
    <3>2. b = a
      BY <3>1
    <3>. QED BY <3>2 DEF a, b
  <2>3. ticket[s][K.check].number <= stored[K].count
    BY <1>1, <2>2 DEF Recent
  <2>. QED BY <2>2, <2>3, <1>4 DEF MemoryNumber
<1>. QED BY <1>1, <1>2, <1>3, <1>4

\* In Redis a counter that is asked in time is still there.
LEMMA IncrAhead ==
  ASSUME RateInv, NEW r \in Requests, Incr(r), NEW K, K = IncrKey(r), NEW v, v = IncrWindow(r),
         now <= W * v + W
  PROVE  /\ IncrNumber(r) = count[K][v] + 1 /\ count[K][v] \in Nat
         /\ \A s \in Counted(K, v) : ticket[s][K.check].number <= count[K][v]
<1>. USE DEF RateInv
<1>1. K \in Keys /\ v \in Windows /\ backend = "redis"
  BY IncrStep
<1>2. count[K][v] \in Nat /\ expires[K][v] \in Nat /\ now \in Nat
  BY <1>1 DEF TypeOK
<1>3. /\ expires[K][v] = 0 \/ expires[K][v] > W * v + W
      /\ \A s \in Counted(K, v) : ticket[s][K.check].number <= count[K][v]
  BY <1>1 DEF Recent
<1>4. W * v + W \in Nat
  BY <1>1, Multiples, RateAssumption DEF Windows
<1>5. ~(expires[K][v] # 0 /\ expires[K][v] <= now)
  BY <1>2, <1>3, <1>4
<1>. QED BY <1>2, <1>3, <1>5 DEF IncrNumber, Current

LEMMA RecentStep ==
  ASSUME RateInv, [Next]_vars
  PROVE  Recent'
<1>. USE DEF RateInv
<1>1. ASSUME NEW r \in Requests, CountInMemory(r) PROVE Recent'
  <2>. DEFINE n == MemoryNumber(r)
              K == Key(r, stage[r])
              v == Window
  <2>1. /\ stage[r] \in Checks /\ step[r] # "expire" /\ K \in Keys /\ v \in Windows
        /\ n \in Nat \ {0} /\ backend' = "memory" /\ backend = "memory"
        /\ Number(r, v, n, FALSE)
        /\ stored' = [stored EXCEPT ![K] = [window |-> v, count |-> n]]
        /\ UNCHANGED shape
    BY <1>1, MemoryStep
  <2>2. /\ stored[K].window \in Nat /\ v \in Nat /\ stored[K].window <= v
        /\ n \in Nat /\ stored[K].count \in Nat
        /\ \A s \in Counted(K, v) :
              /\ v = stored[K].window
              /\ n = stored[K].count + 1
              /\ ticket[s][K.check].number <= stored[K].count
    BY <1>1, MemoryAhead
  <2>. HIDE DEF n, K, v
  <2>3. /\ ticket'[r][stage[r]] = [window |-> v, number |-> n, late |-> FALSE]
        /\ \A k \in Keys, w \in Windows :
             /\ Counted(k, w)' = IF k = K /\ w = v THEN Counted(k, w) \cup {r} ELSE Counted(k, w)
             /\ \A s \in Counted(k, w) : ticket'[s][k.check] = ticket[s][k.check]
    BY <2>1, CountedOneMore DEF K
  <2>4. K.check = stage[r]
    BY DEF K, Key
  <2>5. stored'[K] = [window |-> v, count |-> n]
        /\ \A k \in Keys : k # K => stored'[k] = stored[k]
    BY <2>1 DEF TypeOK
  <2>6. ASSUME NEW k \in Keys, NEW w \in Windows, NEW s \in Counted(k, w)'
        PROVE  /\ w <= stored'[k].window
               /\ w = stored'[k].window => ticket'[s][k.check].number <= stored'[k].count
    <3>1. CASE s \in Counted(k, w) /\ k # K
      <4>1. stored'[k] = stored[k] /\ ticket'[s][k.check] = ticket[s][k.check]
        BY <2>3, <2>5, <3>1
      <4>. QED BY <2>1, <3>1, <4>1 DEF Recent
    <3>2. CASE s \in Counted(k, w) /\ k = K
      <4>1. w <= stored[K].window /\ w \in Nat
        BY <2>1, <3>2, RateAssumption DEF Recent, Windows
      <4>2. w <= v
        BY <2>2, <4>1
      <4>3. ASSUME w = v PROVE ticket'[s][k.check].number <= n
        <5>1. n = stored[K].count + 1 /\ ticket[s][K.check].number <= stored[K].count
          BY <2>2, <3>2, <4>3
        <5>2. ticket[s][K.check].number \in Nat
          BY <3>2, CountedFinite DEF TypeOK, Keys
        <5>3. ticket'[s][k.check] = ticket[s][K.check]
          BY <2>3, <3>2
        <5>. QED BY <2>2, <5>1, <5>2, <5>3
      <4>. QED BY <2>5, <3>2, <4>2, <4>3
    <3>3. CASE s \notin Counted(k, w)
      <4>1. k = K /\ w = v /\ s = r
        BY <2>3, <3>3
      <4>. QED BY <2>2, <2>3, <2>4, <2>5, <4>1
    <3>. QED BY <3>1, <3>2, <3>3
  <2>. QED BY <2>1, <2>6 DEF Recent
<1>2. ASSUME NEW r \in Requests, Incr(r) PROVE Recent'
  <2>. DEFINE n == IncrNumber(r)
              K == IncrKey(r)
              v == IncrWindow(r)
  <2>1. /\ stage[r] \in Checks /\ step[r] # "expire" /\ K \in Keys /\ v \in Windows
        /\ n \in Nat \ {0} /\ backend' = "redis" /\ backend = "redis"
        /\ count' = [count EXCEPT ![K][v] = n]
        /\ expires' = IF n = 1 THEN [expires EXCEPT ![K][v] = 0] ELSE expires
        /\ UNCHANGED <<now, shape>>
    BY <1>2, IncrStep
  <2>2. now <= W * v + W =>
          /\ n = count[K][v] + 1 /\ count[K][v] \in Nat
          /\ \A s \in Counted(K, v) : ticket[s][K.check].number <= count[K][v]
    BY <1>2, IncrAhead
  <2>3. PICK l \in BOOLEAN : Number(r, v, n, l)
    BY <1>2, IncrTicket, Zenon
  <2>. HIDE DEF n, K, v
  <2>4. /\ ticket'[r][stage[r]] = [window |-> v, number |-> n, late |-> l]
        /\ \A k \in Keys, w \in Windows :
             /\ Counted(k, w)' = IF k = K /\ w = v THEN Counted(k, w) \cup {r} ELSE Counted(k, w)
             /\ \A s \in Counted(k, w) : ticket'[s][k.check] = ticket[s][k.check]
    BY <2>1, <2>3, CountedOneMore DEF K, IncrKey
  <2>5. K.check = stage[r]
    BY DEF K, IncrKey, Key
  <2>6. /\ count'[K][v] = n
        /\ \A k \in Keys, w \in Windows :
             /\ ~(k = K /\ w = v) => count'[k][w] = count[k][w]
             /\ expires'[k][w] = expires[k][w] \/ expires'[k][w] = 0
    BY <2>1 DEF TypeOK
  <2>7. ASSUME NEW k \in Keys, NEW w \in Windows, now <= W * w + W
        PROVE  /\ expires'[k][w] = 0 \/ expires'[k][w] > W * w + W
               /\ \A s \in Counted(k, w)' : ticket'[s][k.check].number <= count'[k][w]
    <3>1. expires'[k][w] = 0 \/ expires'[k][w] > W * w + W
      BY <2>1, <2>6, <2>7 DEF Recent
    <3>2. ASSUME NEW s \in Counted(k, w)'
          PROVE ticket'[s][k.check].number <= count'[k][w]
      <4>1. CASE ~(k = K /\ w = v)
        <5>1. s \in Counted(k, w) /\ ticket'[s][k.check] = ticket[s][k.check]
          BY <2>4, <4>1
        <5>. QED BY <2>1, <2>6, <2>7, <4>1, <5>1 DEF Recent
      <4>2. CASE k = K /\ w = v /\ s \in Counted(k, w)
        <5>1. ticket'[s][k.check] = ticket[s][K.check] /\ ticket[s][K.check].number \in Nat
          BY <2>4, <4>2, CountedFinite DEF TypeOK, Keys
        <5>2. n = count[K][v] + 1 /\ count[K][v] \in Nat
              /\ ticket[s][K.check].number <= count[K][v]
          BY <2>2, <2>7, <4>2
        <5>. QED BY <2>6, <4>2, <5>1, <5>2
      <4>3. CASE s \notin Counted(k, w)
        <5>1. k = K /\ w = v /\ s = r
          BY <2>4, <4>3
        <5>. QED BY <2>1, <2>4, <2>5, <2>6, <5>1
      <4>. QED BY <4>1, <4>2, <4>3
    <3>. QED BY <3>1, <3>2
  <2>. QED BY <2>1, <2>7 DEF Recent
<1>3. ASSUME \A r \in Requests : ~CountInMemory(r) /\ ~Incr(r) PROVE Recent'
  <2>1. /\ UNCHANGED <<backend, shape, stored, count>>
        /\ now' \in Nat /\ now \in Nat /\ now' >= now
        /\ UNCHANGED expires \/ \E r \in Requests : Expire(r)
        /\ \A k \in Keys, w \in Windows :
              /\ Counted(k, w)' = Counted(k, w)
              /\ \A r \in Counted(k, w) : ticket'[r][k.check] = ticket[r][k.check]
    BY <1>3, QuietStep
  <2>2. ASSUME NEW k \in Keys, NEW w \in Windows,
               expires[k][w] = 0 \/ expires[k][w] > W * w + W
        PROVE  expires'[k][w] = 0 \/ expires'[k][w] > W * w + W
    <3>1. CASE UNCHANGED expires
      BY <2>2, <3>1
    <3>2. ASSUME NEW r \in Requests, Expire(r)
          PROVE expires'[k][w] = 0 \/ expires'[k][w] > W * w + W
      <4>. DEFINE v == ticket[r][stage[r]].window
      <4>1. stage[r] \in Checks
            /\ expires' = [expires EXCEPT ![Key(r, stage[r])][v] = now + (W + 1)]
        BY <3>2 DEF Expire, Part, Life
      <4>2. v \in Windows /\ W * v <= now
        BY <4>1 DEF TypeOK, Clock
      <4>. HIDE DEF v
      <4>3. expires'[k][w] = expires[k][w] \/ (w = v /\ expires'[k][w] = now + (W + 1))
        BY <4>1 DEF TypeOK
      <4>4. W * w \in Nat /\ W \in Nat
        BY Multiples, RateAssumption DEF Windows
      <4>. QED BY <2>1, <2>2, <4>2, <4>3, <4>4
    <3>. QED BY <2>1, <3>1, <3>2
  <2>3. ASSUME NEW k \in Keys, NEW w \in Windows
        PROVE  /\ backend' = "memory" =>
                    \A r \in Counted(k, w)' :
                      /\ w <= stored'[k].window
                      /\ w = stored'[k].window => ticket'[r][k.check].number <= stored'[k].count
               /\ backend' = "redis" /\ now' <= W * w + W =>
                    /\ expires'[k][w] = 0 \/ expires'[k][w] > W * w + W
                    /\ \A r \in Counted(k, w)' : ticket'[r][k.check].number <= count'[k][w]
    <3>1. W * w + W \in Nat
      BY Multiples, RateAssumption DEF Windows
    <3>2. CASE backend = "memory"
      BY <2>1, <3>2 DEF Recent
    <3>3. CASE backend = "redis" /\ now' <= W * w + W
      <4>1. now <= W * w + W
        BY <2>1, <3>1, <3>3
      <4>2. /\ expires[k][w] = 0 \/ expires[k][w] > W * w + W
            /\ \A r \in Counted(k, w) : ticket[r][k.check].number <= count[k][w]
        BY <3>3, <4>1 DEF Recent
      <4>. QED BY <2>1, <2>2, <3>3, <4>2
    <3>. QED BY <2>1, <3>2, <3>3
  <2>. QED BY <2>3 DEF Recent
<1>. QED BY <1>1, <1>2, <1>3
\* A new number that is late, or ahead of the others of its window.
LEMMA DistinctOneMore ==
  ASSUME TypeOK, Distinct, NEW r \in Requests,
         NEW K \in Keys, NEW v \in Windows, NEW n \in Nat,
         ticket'[r][K.check].number = n,
         \/ ticket'[r][K.check].late
         \/ \A s \in Counted(K, v) : ticket[s][K.check].number < n,
         \A k \in Keys, w \in Windows :
           /\ Counted(k, w)' = IF k = K /\ w = v THEN Counted(k, w) \cup {r} ELSE Counted(k, w)
           /\ \A s \in Counted(k, w) : ticket'[s][k.check] = ticket[s][k.check]
  PROVE  Distinct'
<1>1. ASSUME NEW k \in Keys, NEW w \in Windows, NEW s \in Counted(k, w)', NEW t \in Counted(k, w)',
             ~ticket'[s][k.check].late, ~ticket'[t][k.check].late,
             ticket'[s][k.check].number = ticket'[t][k.check].number
      PROVE  s = t
  <2>1. CASE s \in Counted(k, w) /\ t \in Counted(k, w)
    <3>1. ticket'[s][k.check] = ticket[s][k.check] /\ ticket'[t][k.check] = ticket[t][k.check]
      BY <2>1
    <3>. QED BY <1>1, <2>1, <3>1 DEF Distinct
  <2>2. ASSUME NEW x \in Counted(k, w), k = K, w = v, ~ticket'[r][K.check].late
        PROVE  ticket'[x][k.check].number # n
    <3>1. ticket[x][K.check].number < n /\ ticket'[x][k.check] = ticket[x][K.check]
      BY <2>2
    <3>2. ticket[x][K.check].number \in Nat
      BY <2>2, CountedFinite DEF TypeOK, Keys
    <3>. QED BY <3>1, <3>2
  <2>3. CASE s \notin Counted(k, w) /\ t \in Counted(k, w)
    <3>1. k = K /\ w = v /\ s = r
      BY <2>3
    <3>. QED BY <1>1, <2>2, <2>3, <3>1
  <2>4. CASE s \in Counted(k, w) /\ t \notin Counted(k, w)
    <3>1. k = K /\ w = v /\ t = r
      BY <2>4
    <3>. QED BY <1>1, <2>2, <2>4, <3>1
  <2>5. CASE s \notin Counted(k, w) /\ t \notin Counted(k, w)
    BY <2>5
  <2>. QED BY <2>1, <2>3, <2>4, <2>5
<1>. QED BY <1>1 DEF Distinct

LEMMA DistinctStep ==
  ASSUME RateInv, [Next]_vars
  PROVE  Distinct'
<1>. USE DEF RateInv
<1>1. ASSUME NEW r \in Requests, CountInMemory(r) PROVE Distinct'
  <2>. DEFINE n == MemoryNumber(r)
              K == Key(r, stage[r])
              v == Window
  <2>1. /\ stage[r] \in Checks /\ step[r] # "expire" /\ K \in Keys /\ v \in Windows
        /\ n \in Nat \ {0} /\ Number(r, v, n, FALSE) /\ UNCHANGED shape
    BY <1>1, MemoryStep
  <2>2. /\ stored[K].count \in Nat
        /\ \A s \in Counted(K, v) :
              n = stored[K].count + 1 /\ ticket[s][K.check].number <= stored[K].count
    BY <1>1, MemoryAhead
  <2>. HIDE DEF n, K, v
  <2>3. /\ ticket'[r][stage[r]] = [window |-> v, number |-> n, late |-> FALSE]
        /\ \A k \in Keys, w \in Windows :
             /\ Counted(k, w)' = IF k = K /\ w = v THEN Counted(k, w) \cup {r} ELSE Counted(k, w)
             /\ \A s \in Counted(k, w) : ticket'[s][k.check] = ticket[s][k.check]
    BY <2>1, CountedOneMore DEF K
  <2>4. ticket'[r][K.check].number = n
    BY <2>3 DEF K, Key
  <2>5. \A s \in Counted(K, v) : ticket[s][K.check].number < n
    <3>1. \A s \in Counted(K, v) : ticket[s][K.check].number \in Nat
      BY <2>1, CountedFinite DEF TypeOK, Keys
    <3>. QED BY <2>2, <3>1
  <2>. QED BY <2>1, <2>3, <2>4, <2>5, DistinctOneMore
<1>2. ASSUME NEW r \in Requests, Incr(r) PROVE Distinct'
  <2>. DEFINE n == IncrNumber(r)
              K == IncrKey(r)
              v == IncrWindow(r)
  <2>1. /\ stage[r] \in Checks /\ step[r] # "expire" /\ K \in Keys /\ v \in Windows
        /\ n \in Nat \ {0} /\ UNCHANGED shape
    BY <1>2, IncrStep
  <2>2. now <= W * v + W =>
          /\ n = count[K][v] + 1 /\ count[K][v] \in Nat
          /\ \A s \in Counted(K, v) : ticket[s][K.check].number <= count[K][v]
    BY <1>2, IncrAhead
  <2>3. \/ now > W * v + W /\ Number(r, v, n, TRUE)
        \/ ~(now > W * v + W) /\ Number(r, v, n, FALSE)
    BY <1>2, IncrTicket
  <2>4. K.check = stage[r]
    BY DEF K, IncrKey, Key
  <2>. HIDE DEF n, K, v
  <2>6. now \in Nat /\ W * v + W \in Nat
    BY <2>1, Multiples, RateAssumption DEF TypeOK, Windows
  <2>7. CASE Number(r, v, n, TRUE)
    <3>1. /\ ticket'[r][stage[r]] = [window |-> v, number |-> n, late |-> TRUE]
          /\ \A k \in Keys, w \in Windows :
               /\ Counted(k, w)' = IF k = K /\ w = v THEN Counted(k, w) \cup {r} ELSE Counted(k, w)
               /\ \A s \in Counted(k, w) : ticket'[s][k.check] = ticket[s][k.check]
      BY <2>1, <2>7, CountedOneMore DEF K, IncrKey
    <3>2. ticket'[r][K.check].number = n /\ ticket'[r][K.check].late
      BY <2>4, <3>1
    <3>. QED BY <2>1, <3>1, <3>2, DistinctOneMore
  <2>8. CASE ~(now > W * v + W) /\ Number(r, v, n, FALSE)
    <3>1. /\ ticket'[r][stage[r]] = [window |-> v, number |-> n, late |-> FALSE]
          /\ \A k \in Keys, w \in Windows :
               /\ Counted(k, w)' = IF k = K /\ w = v THEN Counted(k, w) \cup {r} ELSE Counted(k, w)
               /\ \A s \in Counted(k, w) : ticket'[s][k.check] = ticket[s][k.check]
      BY <2>1, <2>8, CountedOneMore DEF K, IncrKey
    <3>2. ticket'[r][K.check].number = n
      BY <2>4, <3>1
    <3>3. \A s \in Counted(K, v) : ticket[s][K.check].number < n
      <4>1. \A s \in Counted(K, v) : ticket[s][K.check].number \in Nat
        BY <2>1, CountedFinite DEF TypeOK, Keys
      <4>. QED BY <2>2, <2>6, <2>8, <4>1
    <3>. QED BY <2>1, <3>1, <3>2, <3>3, DistinctOneMore
  <2>. QED BY <2>3, <2>7, <2>8
<1>3. ASSUME \A r \in Requests : ~CountInMemory(r) /\ ~Incr(r) PROVE Distinct'
  <2>1. \A k \in Keys, w \in Windows :
              /\ Counted(k, w)' = Counted(k, w)
              /\ \A r \in Counted(k, w) : ticket'[r][k.check] = ticket[r][k.check]
    BY <1>3, QuietStep
  <2>. QED BY <2>1 DEF Distinct
<1>. QED BY <1>1, <1>2, <1>3

-------------------------------------------------------------------------------
(* Theorems *)

LEMMA RateInit ==
  ASSUME Init
  PROVE  RateInv
<1>1. \A k \in Keys, w \in Windows : Counted(k, w) = {}
  BY DEF Counted, Init, Keys
<1>2. 0 \in Windows /\ W * 0 = 0
  BY RateAssumption DEF Windows
<1>3. TypeOK
  BY <1>2, RateAssumption DEF Init, TypeOK, Checks
<1>4. Clock
  BY <1>2 DEF Init, Clock
<1>5. Order
  BY DEF Init, Order, ToCome, Checks
<1>6. Passed
  BY RateAssumption DEF Init, Passed
<1>7. Received
  BY <1>1, CountedFinite, FS_EmptySet DEF Init, Received
<1>8. Recent
  BY <1>1 DEF Init, Recent
<1>9. Distinct
  BY <1>1 DEF Distinct
<1>. QED BY <1>3, <1>4, <1>5, <1>6, <1>7, <1>8, <1>9 DEF RateInv

\* Numbers given out in a window's grace are distinct, counters are not ahead of the
\* requests they counted, and each request is counted once per check: what the
\* limiter's two promises rest on.
THEOREM RateInvariance == Spec => []RateInv
<1>1. RateInv /\ [Next]_vars => RateInv'
  <2>1. RateInv /\ [Next]_vars => TypeOK'
    BY TypeStep DEF RateInv
  <2>. QED BY <2>1, ClockStep, OrderPassedStep, ReceivedStep, RecentStep, DistinctStep DEF RateInv
<1>. QED BY <1>1, RateInit, PTL DEF Spec

\* The middleware is at one of its steps with every request, and checks the limits of
\* officers only for officers.
THEOREM MiddlewareTypeCorrect == Spec => []TypeOK
<1>1. RateInv => TypeOK
  BY DEF RateInv
<1>. QED BY <1>1, RateInvariance, PTL

\* No window serves more requests of one key than the limit (rate_limit.py:37), for
\* any number of requests, any limits, windows and interleaving.
THEOREM LimitsAreKept == Spec => []ServedWithinLimits
<1>1. RateInv => ServedWithinLimits
  <2>. SUFFICES ASSUME RateInv, NEW k \in Keys, NEW w \in Windows
                PROVE  Cardinality({r \in Counted(k, w) :
                                      stage[r] = "called" /\ ~ticket[r][k.check].late})
                         <= Limit[k.check]
    BY DEF ServedWithinLimits
  <2>. USE DEF RateInv
  <2>. DEFINE S == {r \in Counted(k, w) : stage[r] = "called" /\ ~ticket[r][k.check].late}
              L == Limit[k.check]
              f == [r \in S |-> ticket[r][k.check].number]
  <2>1. k.check \in Checks /\ L \in Nat
    BY RateAssumption DEF Keys
  <2>2. IsFiniteSet(S) /\ Cardinality(S) \in Nat /\ S \subseteq Requests
    BY CountedFinite, FS_Subset, FS_CardinalityType
  <2>3. f \in [S -> 1..L]
    <3>1. ASSUME NEW r \in S PROVE ticket[r][k.check].number \in 1..L
      <4>1. r \in Requests /\ stage[r] = "called" /\ ticket[r][k.check].number > 0
        BY DEF Counted
      <4>2. ticket[r][k.check].number \in Nat /\ ticket[r][k.check].number <= L
        <5>1. ticket[r][k.check].number <= Limit[k.check]
          BY <2>1, <4>1 DEF Passed
        <5>2. ticket[r][k.check].number \in Nat
          BY <2>1, <4>1 DEF TypeOK
        <5>. QED BY <5>1, <5>2
      <4>. QED BY <2>1, <4>1, <4>2
    <3>. QED BY <3>1
  <2>4. \A r, s \in S : f[r] = f[s] => r = s
    BY DEF Distinct
  <2>. HIDE DEF S, L, f
  <2>5. IsFiniteSet(1..L) /\ Cardinality(1..L) = L
    <3>1. IsFiniteSet(1..L) /\ Cardinality(1..L) = IF 1 > L THEN 0 ELSE L - 1 + 1
      BY <2>1, FS_Interval
    <3>. QED BY <2>1, <3>1
  <2>6. ~(L < Cardinality(S))
    <3>. SUFFICES ASSUME L < Cardinality(S) PROVE FALSE
      OBVIOUS
    <3>1. Cardinality(1..L) < Cardinality(S)
      BY <2>5
    <3>2. \E r, s \in S : r # s /\ f[r] = f[s]
      BY <2>2, <2>3, <2>5, <3>1, FS_PigeonHole
    <3>. QED BY <2>4, <3>2
  <2>7. Cardinality(S) <= L
    BY <2>1, <2>2, <2>6
  <2>. QED BY <2>7 DEF S, L
<1>. QED BY <1>1, RateInvariance, PTL

\* Whoever is refused shares the window with as many others as the limit allows
\* (rate_limit.py:36): an earlier window's counter refuses nobody.
THEOREM RefusalsAreDue == Spec => []RefusedOnlyOverLimit
<1>1. RateInv => RefusedOnlyOverLimit
  <2>. SUFFICES ASSUME RateInv, NEW r \in Requests, stage[r] = "limited"
                PROVE  \E c \in Checks :
                         Cardinality(Counted(Key(r, c), ticket[r][c].window) \ {r}) >= Limit[c]
    BY DEF RefusedOnlyOverLimit
  <2>. USE DEF RateInv
  <2>1. PICK c \in Checks : ticket[r][c].number > Limit[c]
    BY DEF Passed
  <2>. DEFINE k == Key(r, c)
              w == ticket[r][c].window
              n == ticket[r][c].number
              L == Limit[c]
  <2>2. w \in Windows /\ n \in Nat /\ L \in Nat /\ n > L /\ n > 0
    BY <2>1, RateAssumption DEF TypeOK
  <2>3. k \in Keys
    BY <2>2 DEF Order
  <2>4. r \in Counted(k, w) /\ k.check = c
    BY <2>2 DEF Counted, Key
  <2>. HIDE DEF k, w
  <2>5. n <= Cardinality(Counted(k, w))
    BY <2>2, <2>3, <2>4 DEF Received
  <2>. HIDE DEF n, L
  <2>6. /\ Cardinality(Counted(k, w)) \in Nat
        /\ Cardinality(Counted(k, w) \ {r}) = Cardinality(Counted(k, w)) - 1
    BY <2>4, CountedFinite, FS_RemoveElement
  <2>7. Cardinality(Counted(k, w) \ {r}) >= L
    BY <2>2, <2>5, <2>6
  <2>. QED BY <2>7 DEF k, w, L
<1>. QED BY <1>1, RateInvariance, PTL
===============================================================================
