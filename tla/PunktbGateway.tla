---------------------------- MODULE PunktbGateway ----------------------------
(***************************************************************************)
(* punkt-b-admin-mcp: one MCP request from verify_token (auth.py) through  *)
(* invoke (server.py) and AdapterDispatcher.execute (adapters.py), with    *)
(* the RateLimiter and IdempotencyGuard of security.py.                    *)
(*                                                                         *)
(* The gateway is one asyncio loop; what runs between two awaits is one    *)
(* action.  Blocking work goes to the threads of the default executor,     *)
(* which asyncio.to_thread shares between token checks and adapters: a     *)
(* timed-out adapter leaves its thread at work.                            *)
(***************************************************************************)
EXTENDS Integers, Sequences, FiniteSets

CONSTANTS
  Call,        \* MCP requests
  Actor,       \* users behind the tokens
  Tool,        \* tools of the capability registry
  Key,         \* idempotency keys
  Writes,      \* tools of a write, publish or destructive risk
  Enabled,     \* tools whose effect flag is on
  Configured,  \* tools whose adapter is in AdapterDispatcher._adapters
  Threaded,    \* tools whose adapter runs in asyncio.to_thread
  Bounded,     \* those of them whose every read has a timeout
  Limit,       \* rate_limit_per_minute
  Window,      \* the minute of RateLimiter, in ticks of the clock
  Workers,     \* threads of the default executor
  Asks,        \* what the calls may ask for
  MaxTime,     \* bound on the clock
  MaxLives     \* bound on the lives of the process

ASSUME ToolAssumption == /\ Writes \subseteq Tool /\ Enabled \subseteq Tool
                         /\ Configured \subseteq Tool /\ Threaded \subseteq Tool
                         /\ Bounded \subseteq Threaded
ASSUME NumberAssumption == /\ Limit \in Nat \ {0} /\ Window \in Nat \ {0}
                           /\ Workers \in Nat \ {0}
                           /\ MaxTime \in Nat /\ MaxLives \in Nat

\* What one call asks for.
Ask == [actor : Actor, tool : Tool, key : Key]

ASSUME AskAssumption == Asks \subseteq [Call -> Ask]

VARIABLES
  now,       \* time.monotonic()
  life,      \* which start of the process this is
  granted,   \* backend: granted[a], the user has users:manage
  pc,        \* pc[c]: what call c awaits
  job,       \* job[c]: its work in the executor, or as a coroutine ("inline")
  ask,       \* ask[c]: the actor, tool and key of the call
  code,      \* code[c]: the result code of the response
  events,    \* RateLimiter._events
  reserved,  \* IdempotencyGuard._reservations
  effects,   \* history: calls whose adapter had its effect in this life
  admitted,  \* history: admitted[c], when the limiter let c pass in this life
  seen       \* history: seen[c], the user had users:manage during the call

vars == <<now, life, granted, pc, job, ask, code, events, reserved, effects,
          admitted, seen>>

\* What IdempotencyGuard reserves for call c.
Id(c) == <<ask[c].tool, ask[c].key>>

Code == {"none", "OK", "UNAUTHORIZED", "RATE_LIMITED", "REFUSED", "EFFECT_DISABLED",
         "DUPLICATE_IDEMPOTENCY_KEY", "ADAPTER_NOT_CONFIGURED", "ADAPTER_TIMEOUT",
         "FAILED"}
Job  == {"none", "queued", "running", "inline", "orphan"}
Never == MaxTime + 1

Init ==
  /\ now = 0
  /\ life = 1
  /\ granted = [a \in Actor |-> TRUE]
  /\ pc = [c \in Call |-> "new"]
  /\ job = [c \in Call |-> "none"]
  /\ ask \in Asks
  /\ code = [c \in Call |-> "none"]
  /\ events = [s \in Actor \X Tool |-> <<>>]
  /\ reserved = {}
  /\ effects = {}
  /\ admitted = [c \in Call |-> Never]
  /\ seen = [c \in Call |-> FALSE]

\* Call c ends with code r.
Respond(c, r) ==
  /\ pc' = [pc EXCEPT ![c] = "done"]
  /\ code' = [code EXCEPT ![c] = r]

-----------------------------------------------------------------------------
(* verify_token: two reads in threads, on every request *)

Receive(c) ==
  /\ pc[c] = "new"
  /\ pc' = [pc EXCEPT ![c] = "user"]
  /\ job' = [job EXCEPT ![c] = "queued"]
  /\ seen' = [seen EXCEPT ![c] = granted[ask[c].actor]]
  /\ UNCHANGED <<now, life, granted, ask, code, events, reserved, effects, admitted>>

\* Mutant: the pool has one worker less.
WorkStarts_OneShort(c) ==
  /\ job[c] = "queued"
  /\ Cardinality({d \in Call : job[d] \in {"running", "orphan"}}) + 1 < Workers
  /\ job' = [job EXCEPT ![c] = "running"]
  /\ UNCHANGED <<now, life, granted, pc, ask, code, events, reserved, effects, admitted, seen>>

\* A free worker takes the work.
WorkStarts(c) ==
  /\ job[c] = "queued"
  /\ Cardinality({d \in Call : job[d] \in {"running", "orphan"}}) < Workers
  /\ job' = [job EXCEPT ![c] = "running"]
  /\ UNCHANGED <<now, life, granted, pc, ask, code, events, reserved, effects, admitted, seen>>

\* Mutant: the permission is not asked for.
UserKnown_NoRecheck(c) ==
  /\ pc[c] = "user"
  /\ job[c] = "running"
  /\ pc' = [pc EXCEPT ![c] = "invoke"]
  /\ job' = [job EXCEPT ![c] = "none"]
  /\ UNCHANGED <<now, life, granted, ask, code, events, reserved, effects, admitted, seen>>

\* /auth/v1/user knows the user: ask for the permission next.
UserKnown(c) ==
  /\ pc[c] = "user"
  /\ job[c] = "running"
  /\ pc' = [pc EXCEPT ![c] = "perm"]
  /\ job' = [job EXCEPT ![c] = "queued"]
  /\ UNCHANGED <<now, life, granted, ask, code, events, reserved, effects, admitted, seen>>

\* current_user_has_perm answers true.
PermGranted(c) ==
  /\ pc[c] = "perm"
  /\ job[c] = "running"
  /\ granted[ask[c].actor]
  /\ pc' = [pc EXCEPT ![c] = "invoke"]
  /\ job' = [job EXCEPT ![c] = "none"]
  /\ UNCHANGED <<now, life, granted, ask, code, events, reserved, effects, admitted, seen>>

\* The token is refused, the permission is missing or a read failed.
Unauthorized(c) ==
  /\ pc[c] \in {"user", "perm"}
  /\ job[c] = "running"
  /\ Respond(c, "UNAUTHORIZED")
  /\ job' = [job EXCEPT ![c] = "none"]
  /\ UNCHANGED <<now, life, granted, ask, events, reserved, effects, admitted, seen>>

-----------------------------------------------------------------------------
(* invoke and execute up to the adapter: no await in between *)

\* check drops timestamps from the front while they are a minute old.
Old(t) == t <= now - Window
IsFirst(n, s) == (\A m \in 1 .. n - 1 : Old(s[m])) /\ (n <= Len(s) => ~Old(s[n]))
First(s) == CHOOSE n \in 1 .. Len(s) + 1 : IsFirst(n, s)
Recent(s) == SubSeq(s, First(s), Len(s))

\* Mutant: one call too many.
Passes_OneMore(s) == Len(s) <= Limit

Passes(s) == Len(s) < Limit

\* Mutant: the key is reserved before the effect flag is looked at.
Outcome_ReserveFirst(c) ==
  IF ask[c].tool \in Writes /\ Id(c) \in reserved
  THEN [code |-> "DUPLICATE_IDEMPOTENCY_KEY", reserves |-> FALSE]
  ELSE IF ask[c].tool \in Writes \ Enabled
  THEN [code |-> "EFFECT_DISABLED", reserves |-> TRUE]
  ELSE [code |-> IF ask[c].tool \in Configured THEN "none" ELSE "ADAPTER_NOT_CONFIGURED",
        reserves |-> ask[c].tool \in Writes]

\* What execute decides about a valid payload before it awaits the adapter:
\* the code to respond with, or "none", and whether the key is reserved.
Outcome(c) ==
  IF ask[c].tool \in Writes \ Enabled
  THEN [code |-> "EFFECT_DISABLED", reserves |-> FALSE]
  ELSE IF ask[c].tool \in Writes /\ Id(c) \in reserved
  THEN [code |-> "DUPLICATE_IDEMPOTENCY_KEY", reserves |-> FALSE]
  ELSE [code |-> IF ask[c].tool \in Configured THEN "none" ELSE "ADAPTER_NOT_CONFIGURED",
        reserves |-> ask[c].tool \in Writes]

RateLimited(c) ==
  LET s == <<ask[c].actor, ask[c].tool>> IN
  /\ pc[c] = "invoke"
  /\ ~Passes(Recent(events[s]))
  /\ events' = [events EXCEPT ![s] = Recent(@)]
  /\ Respond(c, "RATE_LIMITED")
  /\ UNCHANGED <<now, life, granted, job, ask, reserved, effects, admitted, seen>>

\* Every call that is not rate limited counts, whatever becomes of it.
Admitted(c) ==
  LET s == <<ask[c].actor, ask[c].tool>> IN
  /\ pc[c] = "invoke"
  /\ Passes(Recent(events[s]))
  /\ events' = [events EXCEPT ![s] = Append(Recent(@), now)]
  /\ admitted' = [admitted EXCEPT ![c] = now]

\* The schema or the write gates refuse the payload.
Refuse(c) ==
  /\ Admitted(c)
  /\ Respond(c, "REFUSED")
  /\ UNCHANGED <<now, life, granted, job, ask, reserved, effects, seen>>

Execute(c) ==
  LET o == Outcome(c) IN
  /\ Admitted(c)
  /\ reserved' = IF o.reserves THEN reserved \cup {Id(c)} ELSE reserved
  /\ IF o.code = "none"
     THEN /\ pc' = [pc EXCEPT ![c] = "adapter"]
          /\ job' = [job EXCEPT ![c] = IF ask[c].tool \in Threaded THEN "queued" ELSE "inline"]
          /\ UNCHANGED code
     ELSE Respond(c, o.code) /\ UNCHANGED job
  /\ UNCHANGED <<now, life, granted, ask, effects, seen>>

-----------------------------------------------------------------------------
(* The adapter, under asyncio.wait_for *)

AtWork(c) == pc[c] = "adapter" /\ job[c] \in {"running", "inline"}

\* The service acts on the request of the adapter, in time or not.
Effect(c) ==
  /\ AtWork(c) \/ job[c] = "orphan"
  /\ c \notin effects
  /\ effects' = effects \cup {c}
  /\ UNCHANGED <<now, life, granted, pc, job, ask, code, events, reserved, admitted, seen>>

\* The adapter returns what the output schema accepts.
AdapterReturns(c) ==
  /\ AtWork(c)
  /\ c \in effects
  /\ Respond(c, "OK")
  /\ job' = [job EXCEPT ![c] = "none"]
  /\ UNCHANGED <<now, life, granted, ask, events, reserved, effects, admitted, seen>>

\* It raises, before or after its effect, or returns something else.
AdapterFails(c) ==
  /\ AtWork(c)
  /\ Respond(c, "FAILED")
  /\ job' = [job EXCEPT ![c] = "none"]
  /\ UNCHANGED <<now, life, granted, ask, events, reserved, effects, admitted, seen>>

\* Mutant: a timeout, which is reported as retryable, gives the key back.
TimeOut_Releases(c) ==
  /\ pc[c] = "adapter"
  /\ Respond(c, "ADAPTER_TIMEOUT")
  /\ job' = [job EXCEPT ![c] = IF @ = "running" THEN "orphan" ELSE "none"]
  /\ reserved' = reserved \ {Id(c)}
  /\ UNCHANGED <<now, life, granted, ask, events, effects, admitted, seen>>

\* wait_for cancels the adapter: queued work and coroutines stop, a thread
\* goes on.
TimeOut(c) ==
  /\ pc[c] = "adapter"
  /\ Respond(c, "ADAPTER_TIMEOUT")
  /\ job' = [job EXCEPT ![c] = IF @ = "running" THEN "orphan" ELSE "none"]
  /\ UNCHANGED <<now, life, granted, ask, events, reserved, effects, admitted, seen>>

OrphanEnds(c) ==
  /\ job[c] = "orphan"
  /\ job' = [job EXCEPT ![c] = "none"]
  /\ UNCHANGED <<now, life, granted, pc, ask, code, events, reserved, effects, admitted, seen>>

-----------------------------------------------------------------------------
\* The backend gives or takes users:manage.
ChangeGrant(a) ==
  /\ granted' = [granted EXCEPT ![a] = ~@]
  /\ seen' = [c \in Call |->
                seen[c] \/ (granted'[ask[c].actor] /\ pc[c] \notin {"new", "done"})]
  /\ UNCHANGED <<now, life, pc, job, ask, code, events, reserved, effects, admitted>>

Tick ==
  /\ now < MaxTime
  /\ now' = now + 1
  /\ UNCHANGED <<life, granted, pc, job, ask, code, events, reserved, effects, admitted, seen>>

\* The process is restarted: what it held in memory is gone.
Restart ==
  /\ life < MaxLives
  /\ life' = life + 1
  /\ pc' = [c \in Call |-> IF pc[c] = "new" THEN "new" ELSE "done"]
  /\ job' = [c \in Call |-> "none"]
  /\ events' = [s \in Actor \X Tool |-> <<>>]
  /\ reserved' = {}
  /\ effects' = {}
  /\ admitted' = [c \in Call |-> Never]
  /\ UNCHANGED <<now, granted, ask, code, seen>>

Progress(c) ==
  \/ WorkStarts(c) \/ UserKnown(c) \/ PermGranted(c) \/ Unauthorized(c)
  \/ RateLimited(c) \/ Refuse(c) \/ Execute(c)
  \/ AdapterReturns(c) \/ AdapterFails(c) \/ TimeOut(c)

Next ==
  \/ \E c \in Call : Receive(c) \/ Progress(c) \/ Effect(c) \/ OrphanEnds(c)
  \/ \E a \in Actor : ChangeGrant(a)
  \/ Tick
  \/ Restart

Spec == Init /\ [][Next]_vars

\* The loop and the executor run what is ready, and a thread ends when all its
\* reads have a timeout.  An adapter under wait_for ends by its timeout at the
\* latest; the thread of an unbounded adapter may go on for ever.
FairSpec ==
  /\ Spec
  /\ \A c \in Call : WF_vars(Progress(c))
  /\ \A c \in Call : WF_vars(ask[c].tool \in Bounded /\ OrphanEnds(c))

-----------------------------------------------------------------------------
TypeOK ==
  /\ now \in 0 .. MaxTime
  /\ life \in Nat
  /\ granted \in [Actor -> BOOLEAN]
  /\ pc \in [Call -> {"new", "user", "perm", "invoke", "adapter", "done"}]
  /\ job \in [Call -> Job]
  /\ ask \in [Call -> Ask]
  /\ code \in [Call -> Code]
  /\ events \in [Actor \X Tool -> Seq(0 .. MaxTime)]
  /\ reserved \subseteq Tool \X Key
  /\ effects \subseteq Call
  /\ admitted \in [Call -> 0 .. Never]
  /\ seen \in [Call -> BOOLEAN]

\* In one life of the process a write under one key happens at most once,
\* however calls overlap, time out or are repeated (IdempotencyGuard: "Reject
\* repeated write keys before a service adapter can run").
AtMostOnce ==
  \A c, d \in effects : ask[c].tool \in Writes /\ Id(c) = Id(d) => c = d

\* In no window of a minute does the limiter let more calls of one actor to
\* one tool pass than the registry allows.
RateWindow ==
  \A a \in Actor, t \in Tool, end \in 0 .. MaxTime :
    Cardinality({c \in Call : /\ ask[c].actor = a /\ ask[c].tool = t
                              /\ admitted[c] \in (end - Window + 1) .. end}) <= Limit

\* No call reaches its adapter unless the user had users:manage at some time
\* since the call came in: a revoked permission is not remembered from an
\* earlier call (README: "rechecks the current effective users:manage
\* permission on every MCP request").
FreshAuthority ==
  \A c \in Call : pc[c] = "adapter" \/ c \in effects => seen[c]

\* A key is only ever held by a call that passed every gate: what the schema,
\* the write gates or the effect flag refused can be sent again.
KeyHolder ==
  \A id \in reserved : \E c \in Call :
    /\ Id(c) = id
    /\ admitted[c] # Never
    /\ code[c] \notin {"REFUSED", "EFFECT_DISABLED", "DUPLICATE_IDEMPOTENCY_KEY"}

\* An idempotency key lets one effect through and is not spent on a refusal.
KeysSound == AtMostOnce /\ KeyHolder

\* Every request is answered as long as fewer calls than the executor has
\* workers read from a service without a timeout (the mailbox): timed-out
\* adapters keep their worker, and the token checks need one.
CallsEnd ==
  LET unbounded == {c \in Call : ask[c].tool \in Threaded \ Bounded} IN
  Cardinality(unbounded) < Workers => \A c \in Call : pc[c] = "user" ~> pc[c] = "done"

-----------------------------------------------------------------------------
\* For the runs: what three calls of one user with one key may ask for, up to
\* a permutation of the calls.
Three(t, u, v) == [c \in 1 .. 3 |-> [actor |-> "user", tool |-> <<t, u, v>>[c], key |-> "key"]]

Mixes == {Three("send", "send", "send"), Three("send", "send", "mail"), Three("send", "draft", "list")}
=============================================================================
