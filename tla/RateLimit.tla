------------------------------- MODULE RateLimit -------------------------------
(***************************************************************************)
(* The middleware every request passes (main.py): a limit per client       *)
(* address, authentication, a limit per officer and one for uploads, then  *)
(* the handler.  Limits count in fixed windows (rate_limit.py), either in  *)
(* the process or in Redis, where counting takes two commands and other    *)
(* requests, time and failures come in between.                            *)
(*                                                                         *)
(* Time is in seconds and never goes back; a counter in Redis is gone at   *)
(* the second it expires.                                                  *)
(***************************************************************************)
EXTENDS Integers, FiniteSets

CONSTANTS
  Requests,
  None,      \* no officer: authentication or the role check fails
  Clients,   \* client addresses
  Officers,
  Shapes,    \* what a request can be: [client, officer, target]
  W,         \* window_seconds
  Limit,     \* the limit of each check
  Horizon    \* bound: the clock stops here

Checks  == {"ip", "user", "upload"}
Targets == {"open", "protected", "upload"}

ASSUME RateAssumption ==
  /\ IsFiniteSet(Requests)
  /\ None \notin Officers
  /\ Shapes \subseteq [client : Clients, officer : Officers \cup {None}, target : Targets]
  /\ Shapes # {}
  /\ W \in Nat \ {0}
  /\ Limit \in [Checks -> Nat \ {0}]
  /\ Horizon \in Nat

Keys    == [check : Checks, who : Clients \cup Officers]
Windows == 0..Horizon

VARIABLES
  backend,  \* "memory" or "redis"
  now,
  shape,    \* what each request is
  stage,    \* where in the middleware it is, "ip" at first, or how it ended
  step,     \* which command of a check in Redis is next
  ticket,   \* per request and check: the window, the number received (0: none
            \* yet), and whether the window had long ended then
  stored,   \* memory: the window and count of each key
  count,    \* Redis: counters, 0 where there is none
  expires,  \* Redis: when a counter expires, 0 for never
  trail     \* requests with an AUTH_FAILURE event

vars == <<backend, now, shape, stage, step, ticket, stored, count, expires, trail>>

redis == <<count, expires>>

Init ==
  /\ backend \in {"memory", "redis"}
  /\ now = 0
  /\ shape \in [Requests -> Shapes]
  /\ stage = [r \in Requests |-> "ip"]
  /\ step = [r \in Requests |-> "ask"]
  /\ ticket = [r \in Requests |-> [c \in Checks |-> [window |-> 0, number |-> 0, late |-> FALSE]]]
  /\ stored = [k \in Keys |-> [window |-> 0, count |-> 0]]
  /\ count = [k \in Keys |-> [w \in Windows |-> 0]]
  /\ expires = [k \in Keys |-> [w \in Windows |-> 0]]
  /\ trail = {}

Who(r, c) == IF c = "ip" THEN shape[r].client ELSE shape[r].officer
Key(r, c) == [check |-> c, who |-> Who(r, c)]

\* Mutant: the bearer is not asked for.
UserUnasked(r, c) == IF c = "ip" THEN "user" ELSE "called"

\* Where a request goes that is within the limit of check c.
Onward(r, c) ==
  IF c = "ip" /\ shape[r].target # "open" THEN "auth"
  ELSE IF c = "user" /\ shape[r].target = "upload" THEN "upload"
  ELSE "called"

Decide(r, c, n) ==
  /\ stage' = [stage EXCEPT ![r] = IF n <= Limit[c] THEN Onward(r, c) ELSE "limited"]
  /\ step' = [step EXCEPT ![r] = "ask"]

Fail(r) ==
  /\ stage' = [stage EXCEPT ![r] = "failed"]
  /\ step' = [step EXCEPT ![r] = "ask"]

-------------------------------------------------------------------------------
(* The limiter in the process: allow does not await. *)

Window == now \div W

CountInMemory(r) ==
  LET c == stage[r]
      k == Key(r, c)
      n == IF stored[k].window = Window THEN stored[k].count + 1 ELSE 1
  IN  /\ backend = "memory"
      /\ c \in Checks
      /\ stored' = [stored EXCEPT ![k] = [window |-> Window, count |-> n]]
      /\ ticket' = [ticket EXCEPT ![r][c] = [window |-> Window, number |-> n, late |-> FALSE]]
      /\ Decide(r, c, n)
      /\ UNCHANGED <<backend, now, shape, redis, trail>>

-------------------------------------------------------------------------------
(* The limiter in Redis *)

\* Mutant: the window is not part of the key.
AnyWindow(w) == 0

\* The window's part of the key.
Part(w) == w

Current(k, w) ==
  IF expires[k][w] # 0 /\ expires[k][w] <= now THEN 0 ELSE count[k][w]

Ask(r) ==
  /\ backend = "redis"
  /\ stage[r] \in Checks
  /\ step[r] = "ask"
  /\ ticket' = [ticket EXCEPT ![r][stage[r]].window = Window]
  /\ step' = [step EXCEPT ![r] = "incr"]
  /\ UNCHANGED <<backend, now, shape, stage, stored, redis, trail>>

\* INCR keeps the expiry of a counter that exists.  Its answer may be lost.
Incr(r) ==
  LET c == stage[r]
      k == Key(r, c)
      w == ticket[r][c].window
      n == Current(k, Part(w)) + 1
  IN  /\ step[r] = "incr" /\ c \in Checks
      /\ count' = [count EXCEPT ![k][Part(w)] = n]
      /\ expires' = IF n = 1 THEN [expires EXCEPT ![k][Part(w)] = 0] ELSE expires
      /\ ticket' = [ticket EXCEPT ![r][c] =
                      [window |-> w, number |-> n, late |-> now > W * w + W]]
      /\ \/ n = 1 /\ step' = [step EXCEPT ![r] = "expire"] /\ UNCHANGED stage
         \/ n # 1 /\ Decide(r, c, n)
         \/ Fail(r)
      /\ UNCHANGED <<backend, now, shape, stored, trail>>

\* Mutant: a counter lives for its window only.
WindowOnly == W

Life == W + 1

Expire(r) ==
  LET c == stage[r]
      k == Key(r, c)
      w == ticket[r][c].window
  IN  /\ step[r] = "expire" /\ c \in Checks
      /\ expires' = [expires EXCEPT ![k][Part(w)] = now + Life]
      /\ Decide(r, c, 1) \/ Fail(r)
      /\ UNCHANGED <<backend, now, shape, ticket, stored, count, trail>>

\* A command does not get to Redis: the request is answered with an error.
RedisFails(r) ==
  /\ stage[r] \in Checks
  /\ step[r] \in {"incr", "expire"}
  /\ Fail(r)
  /\ UNCHANGED <<backend, now, shape, ticket, stored, redis, trail>>

-------------------------------------------------------------------------------

\* authenticate and require_viewer: None where they refuse.
Principal(r) == shape[r].officer

\* A refusal is audited before it is answered.
Authenticate(r) ==
  /\ stage[r] = "auth"
  /\ \/ /\ Principal(r) # None
        /\ stage' = [stage EXCEPT ![r] = "user"]
        /\ UNCHANGED trail
     \/ /\ Principal(r) = None
        /\ stage' = [stage EXCEPT ![r] = "unauthorized"]
        /\ trail' = trail \cup {r}
     \/ /\ Principal(r) = None
        /\ stage' = [stage EXCEPT ![r] = "failed"]
        /\ UNCHANGED trail
  /\ UNCHANGED <<backend, now, shape, step, ticket, stored, redis>>

Tick ==
  /\ now < Horizon
  /\ now' = now + 1
  /\ UNCHANGED <<backend, shape, stage, step, ticket, stored, redis, trail>>

Next ==
  \/ \E r \in Requests :
       \/ CountInMemory(r) \/ Ask(r) \/ Incr(r) \/ Expire(r) \/ RedisFails(r)
       \/ Authenticate(r)
  \/ Tick

Spec == Init /\ [][Next]_vars

-------------------------------------------------------------------------------
(* Properties *)

\* The middleware's state; only an officer gets to the checks of officers, and only
\* a refusal of authentication is in the trail.
TypeOK ==
  /\ backend \in {"memory", "redis"}
  /\ now \in 0..Horizon
  /\ shape \in [Requests -> Shapes]
  /\ stage \in [Requests -> Checks \cup {"auth", "called", "limited", "unauthorized", "failed"}]
  /\ step \in [Requests -> {"ask", "incr", "expire"}]
  /\ ticket \in [Requests -> [Checks -> [window : Windows, number : Nat, late : BOOLEAN]]]
  /\ stored \in [Keys -> [window : Windows, count : Nat]]
  /\ count \in [Keys -> [Windows -> Nat]]
  /\ expires \in [Keys -> [Windows -> Nat]]
  /\ trail \subseteq {r \in Requests : shape[r].officer = None}
  /\ \A r \in Requests : stage[r] \in {"user", "upload"} => shape[r].officer \in Officers

\* Requests that were counted under a key in a window.
Counted(k, w) ==
  {r \in Requests : /\ ticket[r][k.check].number > 0
                    /\ ticket[r][k.check].window = w
                    /\ Who(r, k.check) = k.who}

\* Of the requests of one window that were counted before it had been over for a
\* second, at most as many as the limit get to their handler (rate_limit.py:37),
\* whatever is counted, expires, fails or arrives meanwhile.
ServedWithinLimits ==
  \A k \in Keys, w \in Windows :
    Cardinality({r \in Counted(k, w) : stage[r] = "called" /\ ~ticket[r][k.check].late})
      <= Limit[k.check]

\* A request is refused only where the limit was used up by others in the same
\* window (rate_limit.py:36): not by a counter of an earlier window that was left
\* without expiry.
RefusedOnlyOverLimit ==
  \A r \in Requests : stage[r] = "limited" =>
    \E c \in Checks :
      Cardinality(Counted(Key(r, c), ticket[r][c].window) \ {r}) >= Limit[c]
===============================================================================
