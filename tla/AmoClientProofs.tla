-------------------------- MODULE AmoClientProofs --------------------------
(***************************************************************************)
(* Theorems about AmoClient, for every set of processes and calls.         *)
(*                                                                         *)
(* The token endpoint honours a refresh token once, so a granted reply on  *)
(* its way is the only one, carries the newest generation, and no process, *)
(* no file and no other request holds that generation yet (OneReply).      *)
(* Custody of the newest pair and monotonicity of the file follow from it. *)
(***************************************************************************)
EXTENDS AmoClient, TLAPS

\* No copy of a pair is newer than the endpoint's newest generation.
Bounded ==
  /\ disk <= cur
  /\ \A p \in Proc : mem[p] <= cur
  /\ \A t \in Task : pc[t] = "post" => tok[t] <= cur

\* A granted reply on its way is the only copy of the newest pair.
OneReply ==
  \A t \in Task :
    pc[t] = "granted" =>
      /\ tok[t] = cur
      /\ disk < cur
      /\ \A p \in Proc : mem[p] < cur
      /\ \A u \in Task \ {t} : pc[u] # "granted"
      /\ \A u \in Task : pc[u] = "post" => tok[u] < cur

\* A process that is down took nothing with it that the history does not say.
DownKeepsNothing == \A p \in Proc : ~up[p] => replyLost \/ mem[p] <= disk

\* A call that awaits anything does so in a process that runs.
RunsWhereUp == \A t \in Task : pc[t] \in Waiting => up[Home(t)]

TokenInv == TypeOK /\ Bounded /\ OneReply /\ DownKeepsNothing /\ RunsWhereUp

USE RetryAssumption, GenAssumption, KindAssumption

-----------------------------------------------------------------------------
LEMMA MaxSendsNat == MaxSends \in Nat
BY DEF MaxSends

\* A new request is well typed.
LEMMA NewRequestType ==
  ASSUME NEW p \in Proc, NEW k \in AllKinds, NEW g \in Gen
  PROVE  NewRequest(p, k, g) \in Request
BY MaxSendsNat DEF NewRequest, Request, Code, Result

LEMMA InitTypeOK == Init => TypeOK
<1>1. 0 \in Gen
  BY DEF Gen
<1>2. \A p \in Proc : NewRequest(p, "private", 0) \in Request
  BY <1>1, NewRequestType DEF AllKinds
<1>3. ASSUME Init PROVE req \in [Task -> Request]
  BY <1>2, <1>3 DEF Init
<1>4. ASSUME Init PROVE pc \in [Task -> PC]
  BY <1>4 DEF Init, PC
<1>5. ASSUME Init
      PROVE  /\ cur \in Gen /\ refreshable \in BOOLEAN /\ live \subseteq Gen
             /\ disk \in Gen /\ up \in [Proc -> BOOLEAN] /\ mem \in [Proc -> Gen]
             /\ tok \in [Task -> Gen] /\ replyLost \in BOOLEAN /\ unsaved \in BOOLEAN
  BY <1>1, <1>5 DEF Init
<1>6. QED
  BY <1>3, <1>4, <1>5, Zenon DEF TypeOK

\* One call finishing keeps the types of pc and req.
LEMMA FinishType ==
  ASSUME TypeOK, NEW t \in Task, NEW r \in Result, Finish(t, r)
  PROVE  pc' \in [Task -> PC] /\ req' \in [Task -> Request]
BY DEF Finish, TypeOK, PC, Request

LEMMA NextTypeOK == TypeOK /\ [Next]_vars => TypeOK'
<1> SUFFICES ASSUME TypeOK, [Next]_vars PROVE TypeOK'
  OBVIOUS
<1> USE DEF TypeOK
<1>1. ASSUME NEW t \in Task, NEW k \in Kinds, StartCall(t, k) PROVE TypeOK'
  <2>1. NewRequest(Home(t), k, mem[Home(t)]) \in Request
    <3>1. k \in AllKinds
      OBVIOUS
    <3>2. Home(t) \in Proc /\ mem[Home(t)] \in Gen
      BY DEF Home, Request
    <3>3. QED
      BY <3>1, <3>2, NewRequestType
  <2>2. QED
    BY <1>1, <2>1 DEF StartCall, PC, Waiting, tokenVars
<1>2. ASSUME NEW t \in Task, ApiAnswer(t) PROVE TypeOK'
  <2>1. \A c \in Answers(t) : c \in Code
    BY DEF Answers, Code
  <2>2. req' \in [Task -> Request]
    <3>1. PICK c \in Answers(t) :
            req' = [req EXCEPT ![t].code = c,
                               ![t].sends = IF @ < MaxSends THEN @ + 1 ELSE @]
      BY <1>2 DEF ApiAnswer
    <3>2. c \in Code
      BY <2>1
    <3>3. req[t] \in Request
      OBVIOUS
    <3>4. (IF req[t].sends < MaxSends THEN req[t].sends + 1 ELSE req[t].sends)
            \in 0 .. MaxSends
      BY <3>3, MaxSendsNat DEF Request
    <3>5. QED
      BY <3>1, <3>2, <3>3, <3>4 DEF Request
  <2>3. QED
    BY <1>2, <2>2 DEF ApiAnswer, PC, Waiting, tokenVars
<1>3. ASSUME NEW t \in Task, BeginRefresh(t) PROVE TypeOK'
  <2>1. Home(t) \in Proc
    BY DEF Home, Request
  <2>2. QED
    BY <1>3, <2>1 DEF BeginRefresh, PC, Waiting, tokenVars
<1>4. ASSUME NEW t \in Task, Backoff(t) PROVE TypeOK'
  <2>1. req' \in [Task -> Request]
    <3>1. req[t] \in Request /\ req[t].attempt + 1 \in Nat
      BY DEF Request
    <3>2. QED
      BY <1>4, <3>1 DEF Backoff, Request
  <2>2. QED
    BY <1>4, <2>1 DEF Backoff, PC, Waiting, tokenVars
<1>5. ASSUME NEW t \in Task, Return(t) PROVE TypeOK'
  <2>1. \E r \in Result : Finish(t, r)
    BY <1>5 DEF Return, Result
  <2>2. QED
    BY <1>5, <2>1, FinishType DEF Return, tokenVars
<1>6. ASSUME NEW t \in Task, TokenGrant(t) PROVE TypeOK'
  BY <1>6 DEF TokenGrant, PC, Waiting, Gen
<1>7. ASSUME NEW t \in Task, TokenDeny(t) \/ TokenReject(t) PROVE TypeOK'
  BY <1>7 DEF TokenDeny, TokenReject, PC, Waiting, tokenVars
<1>8. ASSUME NEW t \in Task, StoreTokens(t) PROVE TypeOK'
  <2>1. req' \in [Task -> Request]
    <3>1. req[t] \in Request /\ tok[t] \in Gen
      OBVIOUS
    <3>2. (IF req[t].kind = "bearer" THEN req[t].attempt + 1 ELSE req[t].attempt) \in Nat
      BY <3>1 DEF Request
    <3>3. QED
      BY <1>8, <3>1, <3>2 DEF StoreTokens, Request
  <2>2. QED
    BY <1>8, <2>1 DEF StoreTokens, PC, Waiting, tokenVars
<1>9. ASSUME NEW t \in Task, StoreFails(t) PROVE TypeOK'
  <2>1. pc' \in [Task -> PC] /\ req' \in [Task -> Request]
    BY <1>9, FinishType DEF StoreFails, Result
  <2>2. QED
    BY <1>9, <2>1 DEF StoreFails, tokenVars
<1>10. ASSUME NEW t \in Task, RefreshExpired(t) \/ RefreshFailed(t) PROVE TypeOK'
  <2>1. pc' \in [Task -> PC] /\ req' \in [Task -> Request]
    BY <1>10, FinishType DEF RefreshExpired, RefreshFailed, Result
  <2>2. QED
    BY <1>10, <2>1 DEF RefreshExpired, RefreshFailed, tokenVars
<1>11. ASSUME NEW t \in Task, Timeout(t) PROVE TypeOK'
  <2>1. pc' \in [Task -> PC] /\ req' \in [Task -> Request]
    BY <1>11, FinishType DEF Timeout, Result
  <2>2. replyLost' \in BOOLEAN
    BY <1>11 DEF Timeout
  <2>3. QED
    BY <1>11, <2>1, <2>2 DEF Timeout, tokenVars
<1>12. ASSUME NEW p \in Proc, Crash(p) PROVE TypeOK'
  <2>1. replyLost' \in BOOLEAN
    BY <1>12 DEF Crash
  <2>2. pc' \in [Task -> PC]
    BY <1>12 DEF Crash, PC
  <2>3. QED
    BY <1>12, <2>1, <2>2 DEF Crash, tokenVars
<1>13. ASSUME NEW p \in Proc, Restart(p) PROVE TypeOK'
  BY <1>13 DEF Restart, tokenVars
<1>14. CASE ExpireAccess \/ ExpireRefresh
  BY <1>14 DEF ExpireAccess, ExpireRefresh
<1>15. CASE UNCHANGED vars
  BY <1>15 DEF vars
<1>16. QED
  BY <1>1, <1>2, <1>3, <1>4, <1>5, <1>6, <1>7, <1>8, <1>9, <1>10, <1>11, <1>12,
     <1>13, <1>14, <1>15 DEF Next, Progress

\* Every reachable state is well typed, whatever the faults.
THEOREM TypeCorrect == Spec => []TypeOK
<1>1. QED
  BY InitTypeOK, NextTypeOK, PTL DEF Spec

-----------------------------------------------------------------------------
(* The inductive invariant of the tokens *)

LEMMA InitTokenInv == Init => TokenInv
<1>1. Init => Bounded /\ OneReply /\ DownKeepsNothing /\ RunsWhereUp
  BY DEF Init, Bounded, OneReply, DownKeepsNothing, RunsWhereUp, Waiting
<1>2. QED
  BY <1>1, InitTypeOK DEF TokenInv

\* A step that moves no token, and puts no call into "post" or "granted".
LEMMA TokensKept ==
  ASSUME TokenInv, TypeOK',
         UNCHANGED <<cur, disk, mem, tok>>,
         \A t \in Task : pc'[t] \in {"post", "granted"} => pc'[t] = pc[t]
  PROVE  Bounded' /\ OneReply'
BY DEF TokenInv, TypeOK, Bounded, OneReply

\* A call that stays where it is, or goes on in a process that runs.
LEMMA StaysHome ==
  ASSUME TypeOK, RunsWhereUp, NEW t \in Task,
         up' = up,
         \A u \in Task : req'[u].home = req[u].home,
         \A u \in Task \ {t} : pc'[u] = pc[u],
         pc[t] \in Waiting \/ pc'[t] \notin Waiting \/ up[Home(t)]
  PROVE  RunsWhereUp'
BY DEF TypeOK, RunsWhereUp, Home

LEMMA DownKept ==
  ASSUME TypeOK, TypeOK', Bounded, OneReply, DownKeepsNothing, RunsWhereUp, [Next]_vars
  PROVE  DownKeepsNothing' /\ RunsWhereUp'
<1>0. TypeOK /\ TypeOK'
  OBVIOUS
<1>1. ASSUME NEW t \in Task,
             \/ \E k \in Kinds : StartCall(t, k)
             \/ Progress(t) \/ StoreFails(t) \/ Timeout(t)
      PROVE  DownKeepsNothing' /\ RunsWhereUp'
  <2>1. up' = up
    BY <1>1 DEF Progress, StartCall, ApiAnswer, BeginRefresh, Backoff, Return, TokenGrant,
       TokenDeny, TokenReject, StoreTokens, StoreFails, RefreshExpired, RefreshFailed,
       Timeout
  <2>2. \A u \in Task : req'[u].home = req[u].home
    <3>1. \A u \in Task : req[u] \in Request
      BY DEF TypeOK
    <3>2. CASE \E k \in Kinds : StartCall(t, k)
      BY <3>1, <3>2 DEF TypeOK, StartCall, NewRequest, Home
    <3>3. ASSUME NEW r, Finish(t, r) PROVE \A u \in Task : req'[u].home = req[u].home
      BY <3>1, <3>3 DEF TypeOK, Finish, Request
    <3>4. CASE Return(t) \/ RefreshExpired(t) \/ RefreshFailed(t) \/ StoreFails(t)
               \/ Timeout(t)
      BY <3>3, <3>4, Zenon DEF Return, RefreshExpired, RefreshFailed, StoreFails, Timeout
    <3>5. CASE BeginRefresh(t) \/ TokenGrant(t) \/ TokenDeny(t) \/ TokenReject(t)
      BY <3>5 DEF BeginRefresh, TokenGrant, TokenDeny, TokenReject
    <3>6. CASE ApiAnswer(t)
      <4>1. PICK c : req' = [req EXCEPT ![t].code = c,
                               ![t].sends = IF @ < MaxSends THEN @ + 1 ELSE @]
        BY <3>6, Zenon DEF ApiAnswer
      <4>2. QED
        BY <3>1, <4>1 DEF TypeOK, Request
    <3>7. CASE Backoff(t)
      BY <3>1, <3>7 DEF TypeOK, Backoff, Request
    <3>8. CASE StoreTokens(t)
      BY <3>1, <3>8 DEF TypeOK, StoreTokens, Request
    <3>9. QED
      BY <1>1, <3>2, <3>4, <3>5, <3>6, <3>7, <3>8, Zenon DEF Progress
  <2>3. /\ \A u \in Task \ {t} : pc'[u] = pc[u]
        /\ pc[t] \in Waiting \/ up[Home(t)]
    BY <1>0, <1>1 DEF TypeOK, Waiting, Progress, StartCall, ApiAnswer, BeginRefresh,
       Backoff, Return, TokenGrant, TokenDeny, TokenReject, StoreTokens, StoreFails,
       RefreshExpired, RefreshFailed, Timeout, Finish
  <2>4. RunsWhereUp'
    BY <2>1, <2>2, <2>3, StaysHome
  <2>5. DownKeepsNothing'
    <3>1. CASE StoreTokens(t) \/ StoreFails(t)
      <4>1. pc[t] = "granted" /\ up[Home(t)] /\ Home(t) \in Proc
        BY <1>0, <3>1 DEF TypeOK, Request, Home, RunsWhereUp, Waiting, StoreTokens, StoreFails
      <4>2. /\ mem' = [mem EXCEPT ![Home(t)] = tok[t]]
            /\ disk' = disk \/ disk' = tok[t]
            /\ replyLost' = replyLost
        BY <3>1, Zenon DEF StoreTokens, StoreFails, tokenVars
      <4>3. disk' \in Int /\ disk' >= disk /\ disk \in Int /\ mem \in [Proc -> Int]
        BY <1>0, <4>1, <4>2 DEF TypeOK, OneReply, Gen
      <4>4. QED
        BY <2>1, <4>1, <4>2, <4>3 DEF DownKeepsNothing
    <3>2. CASE ~(StoreTokens(t) \/ StoreFails(t))
      <4>1. UNCHANGED <<disk, mem>> /\ (replyLost => replyLost')
        <5>1. CASE Timeout(t)
          BY <5>1 DEF Timeout
        <5>2. CASE \E k \in Kinds : StartCall(t, k)
          BY <5>2 DEF StartCall
        <5>3. CASE Progress(t)
          BY <3>2, <5>3 DEF Progress, ApiAnswer, BeginRefresh, Backoff, Return, TokenGrant,
             TokenDeny, TokenReject, RefreshExpired, RefreshFailed
        <5>4. QED
          BY <1>1, <3>2, <5>1, <5>2, <5>3
      <4>2. QED
        BY <2>1, <4>1 DEF DownKeepsNothing
    <3>3. QED
      BY <3>1, <3>2
  <2>6. QED
    BY <2>4, <2>5
<1>2. ASSUME NEW p \in Proc, Crash(p) PROVE DownKeepsNothing' /\ RunsWhereUp'
  <2>1. disk \in Int /\ mem \in [Proc -> Int]
    BY DEF TypeOK, Gen
  <2>2. DownKeepsNothing'
    BY <1>0, <1>2, <2>1 DEF TypeOK, Crash, DownKeepsNothing
  <2>3. \A t \in Task : Home(t)' = Home(t)
    BY <1>2 DEF Crash, Home
  <2>4. RunsWhereUp'
    BY <1>0, <1>2, <2>3 DEF TypeOK, Crash, RunsWhereUp, Waiting
  <2>5. QED
    BY <2>2, <2>4
<1>3. ASSUME NEW p \in Proc, Restart(p) PROVE DownKeepsNothing' /\ RunsWhereUp'
  <2>1. DownKeepsNothing'
    BY <1>0, <1>3 DEF TypeOK, Restart, DownKeepsNothing
  <2>2. \A t \in Task : Home(t)' = Home(t)
    BY <1>3 DEF Restart, Home
  <2>3. RunsWhereUp'
    BY <1>0, <1>3, <2>2 DEF TypeOK, Request, Restart, RunsWhereUp, Home
  <2>4. QED
    BY <2>1, <2>3
<1>4. CASE ExpireAccess \/ ExpireRefresh \/ UNCHANGED vars
  BY <1>4 DEF ExpireAccess, ExpireRefresh, vars, DownKeepsNothing, RunsWhereUp, Home
<1>5. QED
  BY <1>1, <1>2, <1>3, <1>4 DEF Next

LEMMA NextTokenInv == TokenInv /\ [Next]_vars => TokenInv'
<1> SUFFICES ASSUME TokenInv, [Next]_vars PROVE TokenInv'
  OBVIOUS
<1>0. TypeOK /\ TypeOK'
  BY NextTypeOK DEF TokenInv
<1>a. DownKeepsNothing' /\ RunsWhereUp'
  BY <1>0, DownKept DEF TokenInv
<1> SUFFICES Bounded' /\ OneReply'
  BY <1>0, <1>a DEF TokenInv
<1>1. ASSUME NEW t \in Task,
             \/ \E k \in Kinds : StartCall(t, k)
             \/ ApiAnswer(t) \/ Backoff(t) \/ Return(t)
             \/ TokenDeny(t) \/ TokenReject(t)
             \/ RefreshExpired(t) \/ RefreshFailed(t) \/ Timeout(t)
      PROVE  Bounded' /\ OneReply'
  <2>1. UNCHANGED <<cur, disk, mem, tok>>
    BY <1>1 DEF StartCall, ApiAnswer, Backoff, Return, TokenDeny, TokenReject,
       RefreshExpired, RefreshFailed, Timeout, tokenVars
  <2>2. \A u \in Task : pc'[u] \in {"post", "granted"} => pc'[u] = pc[u]
    BY <1>0, <1>1 DEF TypeOK, StartCall, ApiAnswer, Backoff, Return, TokenDeny,
       TokenReject, RefreshExpired, RefreshFailed, Timeout, Finish
  <2>3. QED
    BY <1>0, <2>1, <2>2, TokensKept
<1>2. ASSUME NEW t \in Task, BeginRefresh(t) PROVE Bounded' /\ OneReply'
  <2>1. Home(t) \in Proc
    BY <1>0 DEF TypeOK, Request, Home
  <2>2. QED
    BY <1>0, <1>2, <2>1 DEF BeginRefresh, TokenInv, TypeOK, Bounded, OneReply, Gen,
       tokenVars
<1>3. ASSUME NEW t \in Task, TokenGrant(t) PROVE Bounded' /\ OneReply'
  <2>1. \A u \in Task : pc[u] # "granted"
    BY <1>0, <1>3 DEF TokenGrant, TokenInv, TypeOK, OneReply, Gen
  <2>2. Bounded'
    BY <1>0, <1>3 DEF TokenGrant, TokenInv, TypeOK, Bounded, Gen
  <2>3. OneReply'
    BY <1>0, <1>3, <2>1 DEF TokenGrant, TokenInv, TypeOK, Bounded, OneReply, Gen
  <2>4. QED
    BY <2>2, <2>3
<1>4. ASSUME NEW t \in Task, StoreTokens(t) \/ StoreFails(t)
      PROVE  Bounded' /\ OneReply'
  <2>1. \A u \in Task : pc'[u] # "granted"
    BY <1>0, <1>4 DEF StoreTokens, StoreFails, Finish, TokenInv, TypeOK, OneReply
  <2>2. Bounded'
    BY <1>0, <1>4 DEF StoreTokens, StoreFails, Finish, TokenInv, TypeOK, Bounded,
       OneReply, Gen, tokenVars
  <2>3. QED
    BY <2>1, <2>2 DEF OneReply
<1>5. ASSUME NEW p \in Proc, Crash(p) PROVE Bounded' /\ OneReply'
  <2>1. UNCHANGED <<cur, disk, mem, tok>>
    BY <1>5 DEF Crash, tokenVars
  <2>2. \A u \in Task : pc'[u] \in {"post", "granted"} => pc'[u] = pc[u]
    BY <1>0, <1>5 DEF TypeOK, Crash
  <2>3. QED
    BY <1>0, <2>1, <2>2, TokensKept
<1>6. ASSUME NEW p \in Proc, Restart(p) PROVE Bounded' /\ OneReply'
  BY <1>0, <1>6 DEF Restart, TokenInv, TypeOK, Bounded, OneReply, Gen, tokenVars
<1>7. CASE ExpireAccess \/ ExpireRefresh \/ UNCHANGED vars
  BY <1>0, <1>7, TokensKept DEF ExpireAccess, ExpireRefresh, vars
<1>8. QED
  BY <1>1, <1>2, <1>3, <1>4, <1>5, <1>6, <1>7 DEF Next, Progress

LEMMA TokenInvariant == Spec => []TokenInv
<1>1. QED
  BY InitTokenInv, NextTokenInv, PTL DEF Spec

-----------------------------------------------------------------------------
(* What a process can rely on *)

\* A step takes the newest pair out of the file or the reply only into the other.
LEMMA NextDurable == TokenInv /\ TokenInv' /\ DurableCustody /\ [Next]_vars => DurableCustody'
<1> SUFFICES ASSUME TokenInv, TokenInv', DurableCustody, [Next]_vars
             PROVE  DurableCustody'
  OBVIOUS
<1>0. TypeOK /\ TypeOK'
  BY DEF TokenInv
<1>1. ASSUME NEW t \in Task,
             \/ \E k \in Kinds : StartCall(t, k)
             \/ ApiAnswer(t) \/ Backoff(t) \/ Return(t) \/ BeginRefresh(t)
             \/ TokenDeny(t) \/ TokenReject(t)
             \/ RefreshExpired(t) \/ RefreshFailed(t)
      PROVE  DurableCustody'
  <2>1. UNCHANGED <<cur, disk, replyLost, unsaved>>
    BY <1>1 DEF StartCall, ApiAnswer, Backoff, Return, BeginRefresh, TokenDeny,
       TokenReject, RefreshExpired, RefreshFailed, tokenVars
  <2>2. \A u \in Task : Carries(u) => Carries(u)'
    BY <1>0, <1>1 DEF TypeOK, Carries, StartCall, ApiAnswer, Backoff, Return,
       BeginRefresh, TokenDeny, TokenReject, RefreshExpired, RefreshFailed, Finish,
       tokenVars
  <2>3. QED
    BY <2>1, <2>2 DEF DurableCustody
<1>2. ASSUME NEW t \in Task, TokenGrant(t) PROVE DurableCustody'
  <2>1. Carries(t)'
    BY <1>0, <1>2 DEF TokenGrant, TypeOK, Carries
  <2>2. QED
    BY <2>1 DEF DurableCustody
<1>3. ASSUME NEW t \in Task, StoreTokens(t) \/ StoreFails(t)
      PROVE  DurableCustody'
  BY <1>0, <1>3 DEF StoreTokens, StoreFails, TokenInv, OneReply, DurableCustody,
     tokenVars
<1>4. ASSUME NEW t \in Task, Timeout(t) PROVE DurableCustody'
  <2>1. \A u \in Task : Carries(u) => Carries(u)' \/ replyLost'
    BY <1>0, <1>4 DEF TypeOK, Carries, Timeout, Finish, tokenVars
  <2>2. QED
    BY <1>4, <2>1 DEF Timeout, DurableCustody, tokenVars
<1>5. ASSUME NEW p \in Proc, Crash(p) PROVE DurableCustody'
  <2>1. \A u \in Task : Carries(u) => Carries(u)' \/ replyLost'
    BY <1>0, <1>5 DEF TypeOK, Carries, Crash, tokenVars
  <2>2. QED
    BY <1>5, <2>1 DEF Crash, DurableCustody, tokenVars
<1>6. ASSUME NEW p \in Proc, Restart(p) PROVE DurableCustody'
  BY <1>6 DEF Restart, DurableCustody, Carries, tokenVars
<1>7. CASE ExpireAccess \/ ExpireRefresh \/ UNCHANGED vars
  BY <1>7 DEF ExpireAccess, ExpireRefresh, vars, DurableCustody, Carries
<1>8. QED
  BY <1>1, <1>2, <1>3, <1>4, <1>5, <1>6, <1>7 DEF Next, Progress

\* Unless a granted reply was lost or a write failed, the token file or the
\* one reply on its way holds the only pair the endpoint still honours.
THEOREM DurablyHeld == Spec => []DurableCustody
<1>1. Init => DurableCustody
  BY DEF Init, DurableCustody
<1>2. QED
  BY <1>1, NextDurable, TokenInvariant, PTL DEF Spec

\* The token file never goes back to an older pair, with any number of
\* processes and concurrent refreshes.
THEOREM FileMonotone == Spec => DiskMonotone
<1>1. TokenInv /\ [Next]_vars => [disk' >= disk]_vars
  <2> SUFFICES ASSUME TokenInv, [Next]_vars PROVE disk' >= disk
    OBVIOUS
  <2>0. disk \in Int
    BY DEF TokenInv, TypeOK, Gen
  <2>1. CASE \E t \in Task : StoreTokens(t)
    BY <2>0, <2>1 DEF StoreTokens, TokenInv, TypeOK, OneReply, Gen
  <2>2. CASE ~\E t \in Task : StoreTokens(t)
    <3>1. disk' = disk
      BY <2>2 DEF Next, Progress, vars, tokenVars, StartCall, ApiAnswer, BeginRefresh,
         Backoff, Return, TokenGrant, TokenDeny, TokenReject, StoreFails,
         RefreshExpired, RefreshFailed, Timeout, Crash, Restart, ExpireAccess,
         ExpireRefresh
    <3>2. QED
      BY <2>0, <3>1
  <2>3. QED
    BY <2>1, <2>2
<1>2. QED
  BY <1>1, TokenInvariant, PTL DEF Spec, DiskMonotone

\* A failed write leaves the newest pair in memory: it is never lost unless a
\* granted reply was, or the process with the only copy died.
THEOREM Held == Spec => []Custody
<1>1. Init => Custody
  BY DEF Init, Custody
<1>2. TokenInv /\ TokenInv' /\ Custody /\ [Next]_vars => Custody'
  <2> SUFFICES ASSUME TokenInv, TokenInv', Custody, [Next]_vars
               PROVE  Custody'
    OBVIOUS
  <2>0. TypeOK /\ TypeOK'
    BY DEF TokenInv
  <2>1. ASSUME NEW t \in Task,
               \/ \E k \in Kinds : StartCall(t, k)
               \/ ApiAnswer(t) \/ Backoff(t) \/ Return(t) \/ BeginRefresh(t)
               \/ TokenDeny(t) \/ TokenReject(t)
               \/ RefreshExpired(t) \/ RefreshFailed(t)
        PROVE  Custody'
    <3>1. UNCHANGED <<cur, disk, mem, replyLost>>
      BY <2>1 DEF StartCall, ApiAnswer, Backoff, Return, BeginRefresh, TokenDeny,
         TokenReject, RefreshExpired, RefreshFailed, tokenVars
    <3>2. \A u \in Task : Carries(u) => Carries(u)'
      BY <2>0, <2>1 DEF TypeOK, Carries, StartCall, ApiAnswer, Backoff, Return,
         BeginRefresh, TokenDeny, TokenReject, RefreshExpired, RefreshFailed, Finish,
         tokenVars
    <3>3. QED
      BY <3>1, <3>2 DEF Custody
  <2>2. ASSUME NEW t \in Task, TokenGrant(t) PROVE Custody'
    <3>1. Carries(t)'
      BY <2>0, <2>2 DEF TokenGrant, TypeOK, Carries
    <3>2. QED
      BY <3>1 DEF Custody
  <2>3. ASSUME NEW t \in Task, StoreTokens(t) \/ StoreFails(t) PROVE Custody'
    <3>0. Home(t) \in Proc
      BY <2>0 DEF TypeOK, Request, Home
    <3>1. mem'[Home(t)] = cur' /\ Home(t) \in Proc
      BY <2>0, <2>3, <3>0 DEF StoreTokens, StoreFails, TokenInv, TypeOK, OneReply, tokenVars
    <3>2. QED
      BY <3>1 DEF Custody
  <2>4. ASSUME NEW t \in Task, Timeout(t) PROVE Custody'
    <3>1. \A u \in Task : Carries(u) => Carries(u)' \/ replyLost'
      BY <2>0, <2>4 DEF TypeOK, Carries, Timeout, Finish, tokenVars
    <3>2. QED
      BY <2>4, <3>1 DEF Timeout, Custody, tokenVars
  <2>5. ASSUME NEW p \in Proc, Crash(p) PROVE Custody'
    <3>1. \A u \in Task : Carries(u) => Carries(u)' \/ replyLost'
      BY <2>0, <2>5 DEF TypeOK, Carries, Crash, tokenVars
    <3>2. QED
      BY <2>5, <3>1 DEF Crash, Custody, tokenVars
  <2>8. ASSUME NEW p \in Proc, Restart(p) PROVE Custody'
    <3>1. \A q \in Proc : mem[q] = cur => mem'[q] = cur \/ replyLost \/ disk = cur
      <4>1. disk \in Int /\ cur \in Int /\ mem \in [Proc -> Int]
        BY <2>0 DEF TypeOK, Gen
      <4>2. \A q \in Proc : q # p => mem'[q] = mem[q]
        BY <2>0, <2>8 DEF TypeOK, Restart
      <4>3. mem[p] = cur => replyLost \/ disk = cur
        BY <2>8, <4>1 DEF Restart, TokenInv, Bounded, DownKeepsNothing
      <4>4. QED
        BY <4>2, <4>3
    <3>2. UNCHANGED <<cur, disk, pc, tok, replyLost>>
      BY <2>8 DEF Restart, tokenVars
    <3>3. QED
      BY <3>1, <3>2 DEF Custody, Carries
  <2>6. CASE ExpireAccess \/ ExpireRefresh \/ UNCHANGED vars
    BY <2>6 DEF ExpireAccess, ExpireRefresh, vars, Custody, Carries
  <2>7. QED
    BY <2>1, <2>2, <2>3, <2>4, <2>5, <2>6, <2>8 DEF Next, Progress
<1>3. QED
  BY <1>1, <1>2, TokenInvariant, PTL DEF Spec

-----------------------------------------------------------------------------
(* The retry budget *)

\* The resend that a refresh earns in the private loop.
Resend(r) == IF r.kind = "private" /\ r.refreshed THEN 1 ELSE 0

\* How many times a call has sent, by where it awaits.
Counted(r, c) ==
  /\ r.attempt <= Retries(r.kind)
  /\ r.sends <= r.attempt + Resend(r) + 1
  /\ c = "send" => r.sends = r.attempt + Resend(r)
  /\ c \in {"resp", "post", "granted"} => r.sends = r.attempt + Resend(r) + 1
  /\ c \in {"post", "granted"} =>
       r.kind \in {"private", "bearer"} /\ ~r.refreshed /\ r.attempt = 0
  /\ c = "done" /\ r.result = "rate_limited" =>
       r.attempt = Retries(r.kind) /\ r.sends = r.attempt + Resend(r) + 1

BudgetInv == \A t \in Task : Counted(req[t], pc[t])

LEMMA RetriesNat == \A k \in AllKinds : Retries(k) \in Nat /\ Retries(k) + 3 <= MaxSends
BY DEF Retries, MaxSends

\* A call that does not change keeps its count.
LEMMA NextBudgetInv == TypeOK /\ TypeOK' /\ BudgetInv /\ [Next]_vars => BudgetInv'
<1> SUFFICES ASSUME TypeOK, TypeOK', BudgetInv, [Next]_vars,
                    NEW u \in Task
             PROVE  Counted(req'[u], pc'[u])
  BY DEF BudgetInv
<1>0. Counted(req[u], pc[u]) /\ req[u] \in Request /\ Retries(req[u].kind) \in Nat
      /\ Retries(req[u].kind) + 3 <= MaxSends
  BY RetriesNat DEF BudgetInv, TypeOK, Request
<1>1. CASE req'[u] = req[u] /\ (pc'[u] = pc[u] \/ pc'[u] \in {"idle", "denied", "rejected"})
  BY <1>0, <1>1 DEF Counted
<1>2. ASSUME NEW k \in Kinds, StartCall(u, k) PROVE Counted(req'[u], pc'[u])
  <2>1. req'[u] = NewRequest(Home(u), k, mem[Home(u)]) /\ pc'[u] = "send"
    BY <1>2 DEF StartCall, TypeOK
  <2>2. Retries(k) \in Nat
    BY RetriesNat
  <2>3. QED
    BY <2>1, <2>2 DEF NewRequest, Counted, Resend
<1>3. CASE ApiAnswer(u)
  <2>0. req[u].sends < MaxSends
    BY <1>0, <1>3, MaxSendsNat DEF ApiAnswer, Counted, Resend, Request
  <2>1. PICK c : req'[u] = [req[u] EXCEPT !.code = c, !.sends = req[u].sends + 1]
    BY <1>3, <2>0 DEF ApiAnswer, TypeOK
  <2>2. pc[u] = "send" /\ pc'[u] = "resp"
    BY <1>3 DEF ApiAnswer, TypeOK
  <2>3. QED
    BY <1>0, <2>1, <2>2 DEF Counted, Resend, Request
<1>4. CASE BeginRefresh(u)
  BY <1>0, <1>4 DEF BeginRefresh, MayRefresh, TypeOK, Counted, Resend, Request
<1>5. CASE Backoff(u)
  <2>1. req'[u] = [req[u] EXCEPT !.attempt = req[u].attempt + 1] /\ pc'[u] = "send"
        /\ pc[u] = "resp" /\ req[u].attempt < Retries(req[u].kind)
    BY <1>5 DEF Backoff, TypeOK
  <2>2. QED
    BY <1>0, <2>1 DEF Counted, Resend, Request
<1>6. CASE Return(u)
  <2>1. PICK r : /\ req'[u] = [req[u] EXCEPT !.result = r] /\ pc'[u] = "done"
                 /\ pc[u] = "resp"
                 /\ r = "rate_limited" => req[u].attempt >= Retries(req[u].kind)
    <3>1. PICK r : /\ Finish(u, r)
                   /\ r = "rate_limited" => req[u].attempt >= Retries(req[u].kind)
      <4>1. CASE req[u].code = "200" /\ Finish(u, "ok")
        BY <4>1
      <4>2. CASE req[u].code = "error" /\ Finish(u, "api_error")
        BY <4>2
      <4>3. CASE Finish(u, "unauthorized")
        BY <4>3
      <4>4. CASE req[u].attempt >= Retries(req[u].kind) /\ Finish(u, "rate_limited")
        BY <4>4
      <4>5. QED
        BY <1>6, <4>1, <4>2, <4>3, <4>4, Zenon DEF Return
    <3>2. pc[u] = "resp"
      BY <1>6 DEF Return
    <3>3. QED
      BY <3>1, <3>2 DEF Finish, TypeOK
  <2>2. /\ req'[u].kind = req[u].kind /\ req'[u].refreshed = req[u].refreshed
        /\ req'[u].sends = req[u].sends /\ req'[u].attempt = req[u].attempt
        /\ req'[u].result = r
    BY <1>0, <2>1 DEF Request
  <2>3. req[u].attempt \in Nat /\ req[u].sends \in Nat
    BY <1>0, MaxSendsNat DEF Request
  <2>4. QED
    BY <1>0, <2>1, <2>2, <2>3 DEF Counted, Resend
<1>7. CASE StoreTokens(u)
  <2>1. /\ req'[u].kind = req[u].kind
        /\ req'[u].refreshed = TRUE
        /\ req'[u].sends = req[u].sends
        /\ req'[u].attempt = IF req[u].kind = "bearer" THEN req[u].attempt + 1
                                                     ELSE req[u].attempt
        /\ pc'[u] = "send" /\ pc[u] = "granted"
    BY <1>0, <1>7 DEF StoreTokens, TypeOK, Request
  <2>2. req[u].kind = "bearer" => Retries(req[u].kind) >= 1
    BY DEF Retries
  <2>3. QED
    BY <1>0, <2>1, <2>2 DEF Counted, Resend, Request
<1>8. CASE StoreFails(u) \/ RefreshExpired(u) \/ RefreshFailed(u) \/ Timeout(u)
  <2>1. PICK r : /\ req'[u] = [req[u] EXCEPT !.result = r] /\ pc'[u] = "done"
                 /\ r # "rate_limited"
    BY <1>8 DEF StoreFails, RefreshExpired, RefreshFailed, Timeout, Finish, TypeOK
  <2>2. QED
    BY <1>0, <2>1 DEF Counted, Resend, Request
<1>9. ASSUME NEW t \in Task,
             \/ \E k \in Kinds : StartCall(t, k)
             \/ Progress(t) \/ StoreFails(t) \/ Timeout(t),
             t # u \/ TokenGrant(t) \/ TokenDeny(t) \/ TokenReject(t)
      PROVE  Counted(req'[u], pc'[u])
  <2>1. CASE t # u
    <3>1. req'[u] = req[u] /\ pc'[u] = pc[u]
      BY <1>9, <2>1 DEF TypeOK, Progress, StartCall, ApiAnswer, BeginRefresh, Backoff,
         Return, TokenGrant, TokenDeny, TokenReject, StoreTokens, StoreFails,
         RefreshExpired, RefreshFailed, Timeout, Finish
    <3>2. QED
      BY <1>1, <3>1
  <2>2. CASE t = u /\ TokenGrant(t)
    BY <1>0, <2>2 DEF TokenGrant, TypeOK, Counted
  <2>3. CASE t = u /\ (TokenDeny(t) \/ TokenReject(t))
    BY <1>1, <2>3 DEF TokenDeny, TokenReject, TypeOK
  <2>4. QED
    BY <1>9, <2>1, <2>2, <2>3
<1>10. CASE \E p \in Proc : Crash(p) \/ Restart(p)
  BY <1>1, <1>10 DEF Crash, Restart, TypeOK
<1>11. CASE ExpireAccess \/ ExpireRefresh \/ UNCHANGED vars
  BY <1>1, <1>11 DEF ExpireAccess, ExpireRefresh, vars
<1>12. QED
  BY <1>2, <1>3, <1>4, <1>5, <1>6, <1>7, <1>8, <1>9, <1>10, <1>11 DEF Next, Progress

\* Whatever the servers answer, and for every retry limit, a call gives up
\* with 429 exactly when its budget is spent and never sends more than it.
THEOREM RetriesBounded == Spec => []RetryBudget
<1>1. Init => BudgetInv
  BY RetriesNat DEF Init, BudgetInv, Counted, Resend, NewRequest, AllKinds
<1>2. TypeOK /\ BudgetInv => RetryBudget
  <2> SUFFICES ASSUME TypeOK, BudgetInv, NEW t \in Task
               PROVE  LET r == req[t]
                          budget == Retries(r.kind) + 1 + Resend(r)
                      IN  /\ r.sends <= budget
                          /\ pc[t] = "done" /\ r.result = "rate_limited" => r.sends = budget
    BY DEF RetryBudget, Resend
  <2>1. req[t] \in Request /\ Retries(req[t].kind) \in Nat
    BY RetriesNat DEF TypeOK, Request
  <2>2. QED
    BY <2>1 DEF BudgetInv, Counted, Resend, Request
<1>3. QED
  BY <1>1, <1>2, NextBudgetInv, TypeCorrect, PTL DEF Spec
-----------------------------------------------------------------------------
\* refresh_token and _persist_tokens keep the newest pair, in the file and in
\* memory, for any number of processes and calls.
THEOREM PairIsKept == Spec => []PairKept
<1>1. DurableCustody /\ Custody => PairKept
  BY DEF PairKept
<1> QED
  BY <1>1, DurablyHeld, Held, PTL

-----------------------------------------------------------------------------
(* What a call is told *)

\* A step that changes no call but t, and t as Finish does, with another result
\* than those that are looked at here.
LEMMA ToldOtherwise ==
  ASSUME TypeOK, NEW t \in Task, NEW r, Finish(t, r)
  PROVE  /\ pc'[t] = "done" /\ req'[t].result = r
         /\ req'[t].kind = req[t].kind /\ req'[t].refreshed = req[t].refreshed
         /\ req'[t].attempt = req[t].attempt /\ req'[t].code = req[t].code
         /\ \A u \in Task \ {t} : pc'[u] = pc[u] /\ req'[u] = req[u]
BY DEF TypeOK, Finish, Request

\* A call that ends has been told something else, or is told by Return that its
\* token is refused, after a refresh or a 429.
LEMMA NextUnauthorized == TypeOK /\ UnauthorizedExplained /\ [Next]_vars => UnauthorizedExplained'
<1> SUFFICES ASSUME TypeOK, UnauthorizedExplained, [Next]_vars, NEW u \in Task,
                    pc'[u] = "done", req'[u].result = "unauthorized", req'[u].kind \in {"private", "bearer"}
             PROVE  req'[u].refreshed \/ req'[u].attempt > 0
  BY DEF UnauthorizedExplained
<1>0. req[u] \in Request /\ req[u].attempt \in Nat
  BY DEF TypeOK, Request
<1>1. CASE pc'[u] = pc[u] /\ req'[u] = req[u]
  BY <1>1 DEF UnauthorizedExplained
<1>2. CASE Return(u)
  <2>1. req[u].code = "401" /\ ~MayRefresh(u) /\ Finish(u, "unauthorized")
    <3>1. ASSUME NEW r \in {"ok", "api_error", "rate_limited"}, Finish(u, r) PROVE FALSE
      BY <3>1, ToldOtherwise
    <3> QED BY <1>2, <3>1, Zenon DEF Return
  <2>2. req'[u].kind = req[u].kind /\ req'[u].refreshed = req[u].refreshed /\ req'[u].attempt = req[u].attempt
    BY <2>1, ToldOtherwise
  <2> QED BY <1>0, <2>1, <2>2 DEF MayRefresh
<1>3. CASE StoreFails(u) \/ RefreshExpired(u) \/ RefreshFailed(u) \/ Timeout(u)
  <2>1. \E r : Finish(u, r) /\ r # "unauthorized"
    BY <1>3 DEF StoreFails, RefreshExpired, RefreshFailed, Timeout
  <2> QED BY <2>1, ToldOtherwise
<1>4. CASE \/ \E k \in Kinds : StartCall(u, k)
           \/ ApiAnswer(u) \/ BeginRefresh(u) \/ Backoff(u) \/ TokenGrant(u) \/ TokenDeny(u) \/ TokenReject(u)
           \/ StoreTokens(u)
  BY <1>4 DEF TypeOK, StartCall, ApiAnswer, BeginRefresh, Backoff, TokenGrant, TokenDeny, TokenReject, StoreTokens
<1>5. ASSUME NEW t \in Task \ {u},
             (\E k \in Kinds : StartCall(t, k)) \/ Progress(t) \/ StoreFails(t) \/ Timeout(t)
      PROVE  pc'[u] = pc[u] /\ req'[u] = req[u]
  BY <1>5 DEF TypeOK, Progress, StartCall, ApiAnswer, BeginRefresh, Backoff, Return, TokenGrant, TokenDeny,
     TokenReject, StoreTokens, StoreFails, RefreshExpired, RefreshFailed, Timeout, Finish
<1>6. CASE (\E p \in Proc : Crash(p) \/ Restart(p)) \/ ExpireAccess \/ ExpireRefresh \/ UNCHANGED vars
  <2>1. req'[u] = req[u] /\ (pc'[u] = pc[u] \/ pc'[u] = "idle")
    BY <1>6 DEF TypeOK, Crash, Restart, ExpireAccess, ExpireRefresh, vars
  <2> QED BY <1>1, <2>1
<1> QED BY <1>1, <1>2, <1>3, <1>4, <1>5, <1>6 DEF Next, Progress

\* For any number of calls and processes, a caller sees a 401 of the bearer
\* token only after a refresh or a 429 (_send_request, _handle_429).
THEOREM UnauthorizedOnlyAfter == Spec => []UnauthorizedExplained
<1>1. Init => UnauthorizedExplained
  BY DEF Init, UnauthorizedExplained
<1> QED BY <1>1, NextUnauthorized, TypeCorrect, PTL DEF Spec

\* With one call at a time, memory and file hold one pair until a write fails;
\* a refresh sends it, and is denied only if that is of no use any more.
Useless == ~refreshable \/ replyLost \/ unsaved

OneCall(t) ==
  /\ ~unsaved => \A p \in Proc : mem[p] = disk
  /\ pc[t] = "post" => unsaved \/ tok[t] = disk
  /\ pc[t] = "denied" \/ (pc[t] = "done" /\ req[t].result = "reauth") => Useless

LEMMA NextOneCall ==
  ASSUME NEW p, Proc = {p}, NEW t, Task = {t}, TypeOK, DurableCustody, OneCall(t), [Next]_vars
  PROVE  OneCall(t)'
<1>0. t \in Task /\ Home(t) = p /\ req[t] \in Request
  BY DEF TypeOK, Request, Home
<1>1. CASE StoreTokens(t)
  <2>1. disk' = tok[t] /\ mem' = [mem EXCEPT ![p] = tok[t]] /\ pc'[t] = "send"
    BY <1>0, <1>1 DEF StoreTokens, TypeOK
  <2>2. mem'[p] = disk'
    BY <2>1 DEF TypeOK
  <2> QED BY <2>1, <2>2 DEF OneCall
<1>2. CASE StoreFails(t) \/ Timeout(t) \/ RefreshFailed(t)
  <2>1. PICK r \in {"fault", "auth_error"} : Finish(t, r)
    BY <1>2 DEF StoreFails, Timeout, RefreshFailed
  <2>2. pc'[t] = "done" /\ req'[t].result # "reauth"
    BY <1>0, <2>1, ToldOtherwise
  <2>3. unsaved' \/ (unsaved' = unsaved /\ mem' = mem /\ disk' = disk)
    BY <1>2 DEF StoreFails, Timeout, RefreshFailed
  <2> QED BY <2>2, <2>3 DEF OneCall
<1>3. CASE RefreshExpired(t)
  <2>1. Useless /\ Useless' /\ UNCHANGED <<mem, disk, unsaved>>
    BY <1>3 DEF RefreshExpired, OneCall, Useless, tokenVars
  <2>2. pc'[t] = "done"
    BY <1>0, <1>3, ToldOtherwise DEF RefreshExpired
  <2> QED BY <2>1, <2>2 DEF OneCall
<1>4. CASE TokenDeny(t)
  <2>1. pc[t] = "post" /\ ~(tok[t] = cur /\ refreshable) /\ UNCHANGED <<refreshable, replyLost, unsaved, mem, disk>>
        /\ pc'[t] = "denied"
    BY <1>0, <1>4 DEF TokenDeny, TypeOK, tokenVars
  <2>2. Useless
    BY <2>1 DEF OneCall, DurableCustody, Carries, Useless
  <2> QED BY <2>1, <2>2 DEF OneCall, Useless
<1>5. CASE BeginRefresh(t)
  <2>1. pc'[t] = "post" /\ tok'[t] = mem[p] /\ UNCHANGED <<unsaved, mem, disk>>
    BY <1>0, <1>5 DEF BeginRefresh, TypeOK
  <2> QED BY <2>1 DEF OneCall
<1>6. CASE Return(t)
  <2>1. PICK r \in {"ok", "api_error", "unauthorized", "rate_limited"} : Finish(t, r)
    BY <1>6, Zenon DEF Return
  <2>2. pc'[t] = "done" /\ req'[t].result # "reauth"
    BY <1>0, <2>1, ToldOtherwise
  <2> QED BY <1>6, <2>2 DEF Return, OneCall
<1>7. CASE (\E k \in Kinds : StartCall(t, k)) \/ ApiAnswer(t) \/ Backoff(t) \/ TokenGrant(t) \/ TokenReject(t)
  <2>1. pc'[t] \in {"send", "resp", "granted", "rejected"} /\ UNCHANGED <<unsaved, mem, disk>>
    BY <1>0, <1>7 DEF TypeOK, StartCall, ApiAnswer, Backoff, TokenGrant, TokenReject
  <2> QED BY <2>1 DEF OneCall
<1>8. CASE \E q \in Proc : Crash(q)
  <2>1. pc'[t] \in {pc[t], "idle"} /\ (replyLost => replyLost')
        /\ UNCHANGED <<refreshable, unsaved, mem, disk, tok, req>>
    BY <1>0, <1>8 DEF Crash, TypeOK, tokenVars
  <2> QED BY <2>1 DEF OneCall, Useless
<1>9. CASE \E q \in Proc : Restart(q)
  <2>1. mem'[p] = disk /\ UNCHANGED <<refreshable, replyLost, unsaved, disk, tok, pc, req>>
    BY <1>9 DEF Restart, TypeOK, tokenVars
  <2> QED BY <2>1 DEF OneCall, Useless
<1>10. CASE ExpireAccess \/ ExpireRefresh \/ UNCHANGED vars
  <2>1. UNCHANGED <<replyLost, unsaved, mem, disk, tok, pc, req>> /\ (refreshable' => refreshable)
    BY <1>10 DEF ExpireAccess, ExpireRefresh, vars
  <2> QED BY <2>1 DEF OneCall, Useless
<1> QED BY <1>1, <1>2, <1>3, <1>4, <1>5, <1>6, <1>7, <1>8, <1>9, <1>10 DEF Next, Progress

\* One call of one process.
OneAtATime == (\E p : Proc = {p}) /\ \E t : Task = {t}

\* With one call at a time, whatever fails, the caller is told to authorize anew
\* only if the refresh token is of no use any more; with more it is not so (the
\* run AmoDocReauth).  And it sees a 401 only after a refresh or a 429
\* (refresh_token, _send_request).
THEOREM OneCallServed == Spec => [](OneAtATime => TokensServe)
<1> DEFINE Inv == OneAtATime => \A t \in Task : OneCall(t)
<1>1. Init => Inv
  BY DEF Init, OneCall
<1>2. TypeOK /\ DurableCustody /\ Inv /\ [Next]_vars => Inv'
  BY NextOneCall DEF OneAtATime
<1>3. Inv /\ UnauthorizedExplained => (OneAtATime => TokensServe)
  BY DEF OneCall, Useless, ReauthOnlyWhenExpired, TokensServe
<1> QED BY <1>1, <1>2, <1>3, TypeCorrect, DurablyHeld, UnauthorizedOnlyAfter, PTL DEF Spec
=============================================================================
