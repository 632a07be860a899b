------------------------------ MODULE AmoClient ------------------------------
(***************************************************************************)
(* amocrm-mcp: the OAuth token custody of AuthManager (auth.py) under the  *)
(* request loops of AmoClient (client.py) and UmnicoClient                 *)
(* (umnico_client.py).                                                     *)
(*                                                                         *)
(* A server process is one asyncio loop: between two awaits a coroutine    *)
(* runs alone, so an action is the code from one await to the next.  Calls *)
(* of one process share its AuthManager, processes share the token file.   *)
(* A token pair (access, refresh) is the number of the generation it was   *)
(* issued in: generation 0 is the environment seed, and a token file that  *)
(* does not exist loads as generation 0.                                   *)
(***************************************************************************)
EXTENDS Integers, FiniteSets, TLC

CONSTANTS
  Proc,           \* server processes that use one token file
  Task,           \* concurrent tool calls
  MaxRetries,     \* MAX_429_RETRIES
  UmnicoRetries,  \* retries of UmnicoClient.request
  MaxGen,         \* bound on the generations the token endpoint issues
  Kinds,          \* the request loops that calls use
  Faults          \* the faults that may happen

AllKinds  == {"private", "bearer", "hmac", "umnico"}
AllFaults == {"crash", "persist", "timeout", "expire"}

ASSUME RetryAssumption == /\ MaxRetries \in Nat \ {0}
                          /\ UmnicoRetries \in Nat
ASSUME GenAssumption   == MaxGen \in Nat
ASSUME KindAssumption  == Kinds \subseteq AllKinds /\ Faults \subseteq AllFaults

VARIABLES
  cur,         \* token endpoint: newest generation issued
  refreshable, \* token endpoint: the newest refresh token is still honoured
  live,        \* API: generations whose access token is accepted
  disk,        \* generation in the token file
  up,          \* up[p]: process p runs
  mem,         \* mem[p]: generation in the AuthManager of p
  pc,          \* pc[t]: where call t awaits
  tok,         \* tok[t]: generation in the refresh request or its reply
  req,         \* req[t]: locals of the request loop of call t
  replyLost,   \* history: a granted pair never reached its process, or died there
  unsaved      \* history: a granted pair was not written to the file

tokenVars == <<cur, refreshable, live>>
vars == <<cur, refreshable, live, disk, up, mem, pc, tok, req, replyLost, unsaved>>

Gen     == 0 .. MaxGen
Waiting == {"send", "resp", "post", "granted", "denied", "rejected"}
PC      == {"idle", "done"} \cup Waiting
Code    == {"none", "200", "401", "429", "error"}
Result  == {"none", "ok", "api_error", "unauthorized", "rate_limited",
            "reauth", "auth_error", "fault"}

Retries(k) == IF k = "umnico" THEN UmnicoRetries ELSE MaxRetries

\* Bound of the history counter `sends`: one more than any call may send.
MaxSends == MaxRetries + UmnicoRetries + 3

Request == [home      : Proc,         \* the process that runs the call
            kind      : AllKinds,
            hdr       : Gen,          \* generation in the Authorization header
            attempt   : Nat,          \* 429 attempts used
            refreshed : BOOLEAN,
            sends     : 0 .. MaxSends,
            code      : Code,
            result    : Result]

NewRequest(p, k, g) == [home |-> p, kind |-> k, hdr |-> g, attempt |-> 0,
                        refreshed |-> FALSE, sends |-> 0, code |-> "none",
                        result |-> "none"]

Init ==
  /\ cur = 0
  /\ refreshable = TRUE
  /\ live = {0}
  /\ disk = 0
  /\ up = [p \in Proc |-> TRUE]
  /\ mem = [p \in Proc |-> 0]
  /\ pc = [t \in Task |-> "idle"]
  /\ tok = [t \in Task |-> 0]
  /\ req \in [Task -> {NewRequest(p, "private", 0) : p \in Proc}]
  /\ replyLost = FALSE
  /\ unsaved = FALSE

-----------------------------------------------------------------------------
(* The request loops *)

\* The process that runs call t.
Home(t) == req[t].home

\* The call ends with result r.
Finish(t, r) ==
  /\ pc' = [pc EXCEPT ![t] = "done"]
  /\ req' = [req EXCEPT ![t].result = r]

\* A tool call builds its header from the tokens in memory, then waits for
\* the rate limiter and the transport.
StartCall(t, k) ==
  /\ up[Home(t)]
  /\ pc[t] \in {"idle", "done"}
  /\ pc' = [pc EXCEPT ![t] = "send"]
  /\ req' = [req EXCEPT ![t] = NewRequest(Home(t), k, mem[Home(t)])]
  /\ UNCHANGED <<tokenVars, disk, up, mem, tok, replyLost, unsaved>>

\* The status codes the API may answer: a bearer token that is no longer live
\* is refused, a signed or Umnico request is judged on its own secret.
Answers(t) ==
  LET bearer == req[t].kind \in {"private", "bearer"} IN
  {"429", "error"}
    \cup (IF bearer => req[t].hdr \in live THEN {"200"} ELSE {})
    \cup (IF bearer => req[t].hdr \notin live THEN {"401"} ELSE {})

ApiAnswer(t) ==
  /\ pc[t] = "send"
  /\ \E c \in Answers(t) :
       req' = [req EXCEPT ![t].code = c,
                          ![t].sends = IF @ < MaxSends THEN @ + 1 ELSE @]
  /\ pc' = [pc EXCEPT ![t] = "resp"]
  /\ UNCHANGED <<tokenVars, disk, up, mem, tok, replyLost, unsaved>>

\* Mutant: only the private loop handles a 401.
MayRefresh_PrivateOnly(t) ==
  req[t].kind = "private" /\ ~req[t].refreshed /\ req[t].attempt = 0

\* Both bearer loops refresh once, on a 401 that is their first answer.
MayRefresh(t) ==
  /\ req[t].kind \in {"private", "bearer"}
  /\ ~req[t].refreshed
  /\ req[t].attempt = 0

\* 401: refresh_token() reads the refresh token and awaits the token endpoint.
BeginRefresh(t) ==
  /\ pc[t] = "resp"
  /\ req[t].code = "401"
  /\ MayRefresh(t)
  /\ pc' = [pc EXCEPT ![t] = "post"]
  /\ tok' = [tok EXCEPT ![t] = mem[Home(t)]]
  /\ UNCHANGED <<tokenVars, disk, up, mem, req, replyLost, unsaved>>

\* Mutant: a retry is not counted.
Backoff_NotCounted(t) ==
  /\ pc[t] = "resp"
  /\ req[t].code = "429"
  /\ req[t].attempt < Retries(req[t].kind)
  /\ pc' = [pc EXCEPT ![t] = "send"]
  /\ UNCHANGED <<tokenVars, disk, up, mem, tok, req, replyLost, unsaved>>

\* 429 with budget left: sleep, then send again with the same headers.
Backoff(t) ==
  /\ pc[t] = "resp"
  /\ req[t].code = "429"
  /\ req[t].attempt < Retries(req[t].kind)
  /\ pc' = [pc EXCEPT ![t] = "send"]
  /\ req' = [req EXCEPT ![t].attempt = @ + 1]
  /\ UNCHANGED <<tokenVars, disk, up, mem, tok, replyLost, unsaved>>

\* Every other answer is returned to the caller.
Return(t) ==
  /\ pc[t] = "resp"
  /\ \/ req[t].code = "200" /\ Finish(t, "ok")
     \/ req[t].code = "error" /\ Finish(t, "api_error")
     \/ req[t].code = "401" /\ ~MayRefresh(t) /\ Finish(t, "unauthorized")
     \/ /\ req[t].code = "429"
        /\ req[t].attempt >= Retries(req[t].kind)
        /\ Finish(t, "rate_limited")
  /\ UNCHANGED <<tokenVars, disk, up, mem, tok, replyLost, unsaved>>

-----------------------------------------------------------------------------
(* The token endpoint: a refresh token is honoured once *)

TokenGrant(t) ==
  /\ pc[t] = "post"
  /\ tok[t] = cur
  /\ refreshable
  /\ cur < MaxGen
  /\ cur' = cur + 1
  /\ live' = live \cup {cur + 1}
  /\ pc' = [pc EXCEPT ![t] = "granted"]
  /\ tok' = [tok EXCEPT ![t] = cur + 1]
  /\ UNCHANGED <<refreshable, disk, up, mem, req, replyLost, unsaved>>

\* 400 invalid_grant for a token that was used before or has expired.
TokenDeny(t) ==
  /\ pc[t] = "post"
  /\ ~(tok[t] = cur /\ refreshable)
  /\ pc' = [pc EXCEPT ![t] = "denied"]
  /\ UNCHANGED <<tokenVars, disk, up, mem, tok, req, replyLost, unsaved>>

\* Any other failure of the endpoint.
TokenReject(t) ==
  /\ pc[t] = "post"
  /\ pc' = [pc EXCEPT ![t] = "rejected"]
  /\ UNCHANGED <<tokenVars, disk, up, mem, tok, req, replyLost, unsaved>>

-----------------------------------------------------------------------------
(* The rest of refresh_token(), after its await *)

\* Mutants: the new refresh token is not kept in memory; the pair is not
\* written.
StoreTokens_OldRefresh(t) ==
  /\ pc[t] = "granted"
  /\ disk' = tok[t]
  /\ pc' = [pc EXCEPT ![t] = "send"]
  /\ req' = [req EXCEPT ![t].hdr = tok[t], ![t].refreshed = TRUE]
  /\ UNCHANGED <<tokenVars, up, mem, tok, replyLost, unsaved>>

StoreTokens_NotWritten(t) ==
  /\ pc[t] = "granted"
  /\ mem' = [mem EXCEPT ![Home(t)] = tok[t]]
  /\ pc' = [pc EXCEPT ![t] = "send"]
  /\ req' = [req EXCEPT ![t].hdr = tok[t], ![t].refreshed = TRUE]
  /\ UNCHANGED <<tokenVars, disk, up, tok, replyLost, unsaved>>

\* In one step of the loop: the pair enters memory, is written to the file and
\* the request goes out again with the new token.  The public loop counts the
\* refused send as one of its attempts.
StoreTokens(t) ==
  /\ pc[t] = "granted"
  /\ mem' = [mem EXCEPT ![Home(t)] = tok[t]]
  /\ disk' = tok[t]
  /\ pc' = [pc EXCEPT ![t] = "send"]
  /\ req' = [req EXCEPT ![t].hdr = tok[t],
                        ![t].refreshed = TRUE,
                        ![t].attempt = IF req[t].kind = "bearer" THEN @ + 1 ELSE @]
  /\ UNCHANGED <<tokenVars, up, tok, replyLost, unsaved>>

\* Mutant: the pair is written before it enters memory.
StoreFails_WriteFirst(t) ==
  /\ "persist" \in Faults
  /\ pc[t] = "granted"
  /\ unsaved' = TRUE
  /\ Finish(t, "fault")
  /\ UNCHANGED <<tokenVars, disk, up, mem, tok, replyLost>>

\* The write fails: memory already holds the new pair, the call ends with the
\* OSError.
StoreFails(t) ==
  /\ "persist" \in Faults
  /\ pc[t] = "granted"
  /\ mem' = [mem EXCEPT ![Home(t)] = tok[t]]
  /\ unsaved' = TRUE
  /\ Finish(t, "fault")
  /\ UNCHANGED <<tokenVars, disk, up, tok, replyLost>>

\* Mutant: invalid_grant discards the file, so that the seed is used again.
RefreshExpired_Forgets(t) ==
  /\ pc[t] = "denied"
  /\ Finish(t, "reauth")
  /\ disk' = 0
  /\ UNCHANGED <<tokenVars, up, mem, tok, replyLost, unsaved>>

\* RefreshTokenExpiredError.
RefreshExpired(t) ==
  /\ pc[t] = "denied"
  /\ Finish(t, "reauth")
  /\ UNCHANGED <<tokenVars, disk, up, mem, tok, replyLost, unsaved>>

\* AuthError.
RefreshFailed(t) ==
  /\ pc[t] = "rejected"
  /\ Finish(t, "auth_error")
  /\ UNCHANGED <<tokenVars, disk, up, mem, tok, replyLost, unsaved>>

-----------------------------------------------------------------------------
(* Faults *)

\* A 30 s transport timeout or a cancelled call, wherever the call awaits the
\* network.
Timeout(t) ==
  /\ "timeout" \in Faults
  /\ pc[t] \in Waiting \ {"resp"}
  /\ replyLost' = (replyLost \/ pc[t] = "granted")
  /\ Finish(t, "fault")
  /\ UNCHANGED <<tokenVars, disk, up, mem, tok, unsaved>>

\* The process dies with every call it runs.
Crash(p) ==
  /\ "crash" \in Faults
  /\ up[p]
  /\ up' = [up EXCEPT ![p] = FALSE]
  /\ replyLost' = \/ replyLost
                  \/ \E t \in Task : Home(t) = p /\ pc[t] = "granted"
                  \/ mem[p] > disk
  /\ pc' = [t \in Task |-> IF Home(t) = p THEN "idle" ELSE pc[t]]
  /\ UNCHANGED <<tokenVars, disk, mem, tok, req, unsaved>>

\* AuthManager.__init__: the token file takes precedence over the seed.
Restart(p) ==
  /\ ~up[p]
  /\ up' = [up EXCEPT ![p] = TRUE]
  /\ mem' = [mem EXCEPT ![p] = disk]
  /\ UNCHANGED <<tokenVars, disk, pc, tok, req, replyLost, unsaved>>

ExpireAccess ==
  /\ "expire" \in Faults
  /\ \E g \in live : live' = live \ {g}
  /\ UNCHANGED <<cur, refreshable, disk, up, mem, pc, tok, req, replyLost, unsaved>>

ExpireRefresh ==
  /\ "expire" \in Faults
  /\ refreshable
  /\ refreshable' = FALSE
  /\ UNCHANGED <<cur, live, disk, up, mem, pc, tok, req, replyLost, unsaved>>

-----------------------------------------------------------------------------
Progress(t) ==
  \/ ApiAnswer(t) \/ BeginRefresh(t) \/ Backoff(t) \/ Return(t)
  \/ TokenGrant(t) \/ TokenDeny(t) \/ TokenReject(t)
  \/ StoreTokens(t) \/ RefreshExpired(t) \/ RefreshFailed(t)

Next ==
  \/ \E t \in Task : \/ \E k \in Kinds : StartCall(t, k)
                     \/ Progress(t)
                     \/ StoreFails(t)
                     \/ Timeout(t)
  \/ \E p \in Proc : Crash(p) \/ Restart(p)
  \/ ExpireAccess
  \/ ExpireRefresh

Spec == Init /\ [][Next]_vars

\* The event loop runs every ready coroutine and every transport wait ends
\* within its 30 s timeout.
FairSpec == Spec /\ \A t \in Task : WF_vars(Progress(t))

-----------------------------------------------------------------------------
TypeOK ==
  /\ cur \in Gen
  /\ refreshable \in BOOLEAN
  /\ live \subseteq Gen
  /\ disk \in Gen
  /\ up \in [Proc -> BOOLEAN]
  /\ mem \in [Proc -> Gen]
  /\ pc \in [Task -> PC]
  /\ tok \in [Task -> Gen]
  /\ req \in [Task -> Request]
  /\ replyLost \in BOOLEAN
  /\ unsaved \in BOOLEAN

\* The pair that the endpoint last issued is on its way to call t.
Carries(t) == pc[t] = "granted" /\ tok[t] = cur

\* The file can always bring a restarted process back: the only pair the
\* endpoint still honours is in the token file or in a reply on its way,
\* unless a reply was lost or a write failed (_persist_tokens follows the
\* assignments of refresh_token without an await).
DurableCustody ==
  ~replyLost /\ ~unsaved => disk = cur \/ \E t \in Task : Carries(t)

\* A failed write, a concurrent refresh or a restart does not lose the newest
\* pair: it is in memory, in the file or in a reply on its way, unless the
\* process that had the only copy died (refresh_token assigns both fields
\* before it writes).
Custody ==
  \/ replyLost
  \/ disk = cur
  \/ \E t \in Task : Carries(t)
  \/ \E p \in Proc : mem[p] = cur

\* The only pair that the endpoint still honours is never lost but by a crash, a
\* lost reply or a write that failed: in the file, and in memory meanwhile.
PairKept == DurableCustody /\ Custody

\* A late or concurrent refresh never overwrites the file with an older pair.
DiskMonotone == [][disk' >= disk]_vars

\* A call gives up with 429 exactly when its retry budget is spent, and no
\* call sends more than its budget plus the one resend that a refresh earns
\* in the private loop (_send_request; the public loop counts it).
RetryBudget ==
  \A t \in Task :
    LET r == req[t]
        budget == Retries(r.kind) + 1
                    + (IF r.kind = "private" /\ r.refreshed THEN 1 ELSE 0)
    IN  /\ r.sends <= budget
        /\ pc[t] = "done" /\ r.result = "rate_limited" => r.sends = budget

\* The caller of a bearer request sees 401 only after one refresh, or when the
\* 401 came after a 429 (_handle_429 and attempts above 0 do not refresh).
UnauthorizedExplained ==
  \A t \in Task :
    /\ pc[t] = "done"
    /\ req[t].result = "unauthorized"
    /\ req[t].kind \in {"private", "bearer"}
    => req[t].refreshed \/ req[t].attempt > 0

\* auth.py: RefreshTokenExpiredError is raised when the refresh token is
\* expired.  With one call at a time it is, unless the newest pair was lost.
ReauthOnlyWhenExpired ==
  \A t \in Task :
    pc[t] = "done" /\ req[t].result = "reauth"
      => ~refreshable \/ replyLost \/ unsaved

\* Who calls is told what is so: the tokens are out of date only if they are.
TokensServe == ReauthOnlyWhenExpired /\ UnauthorizedExplained

\* Every call ends: the retries are bounded whatever the servers answer.
CallsTerminate ==
  \A t \in Task : pc[t] \in Waiting ~> pc[t] \in {"idle", "done"}
-----------------------------------------------------------------------------
\* For model checking: calls are interchangeable, and so are the processes they
\* may run in.
CallsAndProcesses == Permutations(Task) \cup Permutations(Proc)
=============================================================================
