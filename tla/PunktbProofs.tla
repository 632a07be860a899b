------------------------------ MODULE PunktbProofs ------------------------------
(***************************************************************************)
(* Theorems about what PunktB runs: PunktbGateway, for any sets of calls,  *)
(* actors, tools and keys, any limit, window and number of workers, any    *)
(* clock and any number of restarts, and DevRefresh, for any number of     *)
(* rows, mails and runs.                                                   *)
(***************************************************************************)
EXTENDS PunktbGateway, DevRefresh, TLAPS, WellFoundedInduction, SequenceTheorems, FiniteSetTheorems

\* A nonempty set of naturals has a least element.
LEMMA LeastNat ==
  ASSUME NEW T \in SUBSET Nat, T # {}
  PROVE  \E x \in T : \A y \in T : x <= y
<1>1. PICK x \in T : \A y \in T : ~ (<<y, x>> \in OpToRel(<, Nat))
  BY NatLessThanWellFounded, WFMin, Zenon
<1>2. \A y \in T : ~ (y < x)
  BY <1>1 DEF OpToRel
<1> QED
  BY <1>2

\* The front of a deque that check drops is well defined.
LEMMA FirstExists ==
  ASSUME NEW s \in Seq(0 .. MaxTime), now \in 0 .. MaxTime
  PROVE  First(s) \in 1 .. Len(s) + 1 /\ IsFirst(First(s), s)
<1> DEFINE stay == {n \in 1 .. Len(s) + 1 : n <= Len(s) => ~Old(s[n])}
<1>1. Len(s) \in Nat /\ Len(s) + 1 \in stay /\ stay \in SUBSET Nat
  OBVIOUS
<1>2. PICK n \in stay : \A k \in stay : n <= k
  BY <1>1, LeastNat
<1>3. n \in 1 .. Len(s) + 1 /\ IsFirst(n, s)
  BY <1>1, <1>2 DEF IsFirst
<1> QED
  BY <1>3, Zenon DEF First

\* What the limiter keeps of a deque is a deque, and so is what it appends.
LEMMA RecentTyped ==
  ASSUME NEW s \in Seq(0 .. MaxTime), now \in 0 .. MaxTime
  PROVE  /\ Recent(s) \in Seq(0 .. MaxTime)
         /\ Append(Recent(s), now) \in Seq(0 .. MaxTime)
<1> DEFINE T == 0 .. MaxTime
<1>1. First(s) \in 1 .. Len(s) + 1
  BY FirstExists
<1>2. ASSUME NEW n \in 1 .. Len(s) + 1 PROVE SubSeq(s, n, Len(s)) \in Seq(T)
  <2>1. n \in Int /\ Len(s) \in Int
    OBVIOUS
  <2>2. ASSUME NEW i \in n .. Len(s) PROVE s[i] \in T
    <3>1. i \in 1 .. Len(s)
      BY <2>1
    <3> QED
      BY <3>1, ElementOfSeq
  <2> HIDE DEF T
  <2> QED
    BY <2>1, <2>2, SubSeqProperties, Zenon
<1>3. Recent(s) \in Seq(T)
  BY <1>1, <1>2, Zenon DEF Recent
<1> QED
  BY <1>3

LEMMA NeverTyped == /\ MaxTime \in Nat
                    /\ Never \in 0 .. Never
                    /\ \A t \in 0 .. MaxTime : t \in 0 .. Never /\ t # Never
BY NumberAssumption DEF Never

LEMMA InitTyped == Init => TypeOK
<1> SUFFICES ASSUME Init PROVE TypeOK
  OBVIOUS
<1>1. events \in [Actor \X Tool -> Seq(0 .. MaxTime)]
  BY DEF Init
<1>2. admitted \in [Call -> 0 .. Never] /\ now \in 0 .. MaxTime
  BY NeverTyped DEF Init
<1> QED
  BY <1>1, <1>2, AskAssumption DEF Init, TypeOK, Job, Code

-----------------------------------------------------------------------------
(* One lemma for each kind of step *)

\* A call that passes the limiter keeps the types of the limiter's state.
LEMMA AdmittedTyped ==
  ASSUME TypeOK, NEW c \in Call, Admitted(c)
  PROVE  /\ events' \in [Actor \X Tool -> Seq(0 .. MaxTime)]
         /\ admitted' \in [Call -> 0 .. Never]
         /\ admitted'[c] # Never
<1> DEFINE s == <<ask[c].actor, ask[c].tool>>
<1>1. s \in Actor \X Tool /\ events[s] \in Seq(0 .. MaxTime)
  BY DEF TypeOK, Ask
<1>2. Append(Recent(events[s]), now) \in Seq(0 .. MaxTime)
  BY <1>1, RecentTyped DEF TypeOK
<1> HIDE DEF s
<1>3. events' = [events EXCEPT ![s] = Append(Recent(events[s]), now)]
  BY DEF Admitted, s
<1>4. events' \in [Actor \X Tool -> Seq(0 .. MaxTime)]
  BY <1>1, <1>2, <1>3 DEF TypeOK
<1>5. admitted' \in [Call -> 0 .. Never] /\ admitted'[c] # Never
  BY NeverTyped DEF TypeOK, Admitted
<1> QED
  BY <1>4, <1>5

LEMMA OutcomeTyped ==
  ASSUME NEW c \in Call
  PROVE  Outcome(c).code \in Code
BY DEF Outcome, Code

LEMMA StepTyped == TypeOK /\ [Next]_vars => TypeOK'
<1> SUFFICES ASSUME TypeOK, [Next]_vars PROVE TypeOK'
  OBVIOUS
<1> USE DEF TypeOK
<1>1. ASSUME NEW c \in Call, Receive(c) PROVE TypeOK'
  BY <1>1 DEF Receive, Job, Ask
<1>2. ASSUME NEW c \in Call, WorkStarts(c) PROVE TypeOK'
  BY <1>2 DEF WorkStarts, Job
<1>3. ASSUME NEW c \in Call, UserKnown(c) PROVE TypeOK'
  BY <1>3 DEF UserKnown, Job
<1>4. ASSUME NEW c \in Call, PermGranted(c) PROVE TypeOK'
  BY <1>4 DEF PermGranted, Job
<1>5. ASSUME NEW c \in Call, Unauthorized(c) PROVE TypeOK'
  BY <1>5 DEF Unauthorized, Respond, Job, Code
<1>6. ASSUME NEW c \in Call, RateLimited(c) PROVE TypeOK'
  <2> DEFINE s == <<ask[c].actor, ask[c].tool>>
  <2>1. s \in Actor \X Tool
    BY DEF Ask
  <2>2. Recent(events[s]) \in Seq(0 .. MaxTime)
    BY <2>1, RecentTyped
  <2> HIDE DEF s
  <2>3. events' = [events EXCEPT ![s] = Recent(events[s])]
    BY <1>6 DEF RateLimited, s
  <2>4. events' \in [Actor \X Tool -> Seq(0 .. MaxTime)]
    BY <2>1, <2>2, <2>3
  <2> QED
    BY <1>6, <2>4 DEF RateLimited, Respond, Code
<1>7. ASSUME NEW c \in Call, Refuse(c) PROVE TypeOK'
  <2>1. Admitted(c)
    BY <1>7 DEF Refuse
  <2> QED
    BY <1>7, <2>1, AdmittedTyped DEF Refuse, Respond, Code
<1>8. ASSUME NEW c \in Call, Execute(c) PROVE TypeOK'
  <2>1. Admitted(c)
    BY <1>8 DEF Execute
  <2>2. Id(c) \in Tool \X Key
    BY DEF Id, Ask
  <2>3. reserved' \subseteq Tool \X Key
    BY <1>8, <2>2 DEF Execute
  <2>4. /\ pc' \in [Call -> {"new", "user", "perm", "invoke", "adapter", "done"}]
        /\ job' \in [Call -> Job]
        /\ code' \in [Call -> Code]
    BY <1>8, OutcomeTyped DEF Execute, Respond, Job
  <2> QED
    BY <1>8, <2>1, <2>3, <2>4, AdmittedTyped DEF Execute
<1>9. ASSUME NEW c \in Call, Effect(c) PROVE TypeOK'
  BY <1>9 DEF Effect
<1>10. ASSUME NEW c \in Call, AdapterReturns(c) PROVE TypeOK'
  BY <1>10 DEF AdapterReturns, Respond, Job, Code
<1>11. ASSUME NEW c \in Call, AdapterFails(c) PROVE TypeOK'
  BY <1>11 DEF AdapterFails, Respond, Job, Code
<1>12. ASSUME NEW c \in Call, TimeOut(c) PROVE TypeOK'
  BY <1>12 DEF TimeOut, Respond, Job, Code
<1>13. ASSUME NEW c \in Call, OrphanEnds(c) PROVE TypeOK'
  BY <1>13 DEF OrphanEnds, Job
<1>14. ASSUME NEW a \in Actor, ChangeGrant(a) PROVE TypeOK'
  <2>1. granted' \in [Actor -> BOOLEAN]
    BY <1>14, Zenon DEF ChangeGrant
  <2>2. seen' \in [Call -> BOOLEAN]
    BY <1>14, <2>1 DEF ChangeGrant, Ask
  <2> QED
    BY <1>14, <2>1, <2>2 DEF ChangeGrant
<1>15. CASE Tick
  BY <1>15, NumberAssumption DEF Tick
<1>16. CASE Restart
  <2>1. events' \in [Actor \X Tool -> Seq(0 .. MaxTime)]
    BY <1>16 DEF Restart
  <2>2. admitted' \in [Call -> 0 .. Never]
    BY <1>16, NeverTyped DEF Restart
  <2> QED
    BY <1>16, <2>1, <2>2 DEF Restart, Job
<1>17. CASE UNCHANGED vars
  BY <1>17 DEF vars
<1> QED
  BY <1>1, <1>2, <1>3, <1>4, <1>5, <1>6, <1>7, <1>8, <1>9, <1>10, <1>11,
     <1>12, <1>13, <1>14, <1>15, <1>16, <1>17 DEF Next, Progress

(***************************************************************************)
(* Type correctness: whatever calls, restarts and revocations happen, the  *)
(* state keeps its types (of the limiter, whose deques hold past times).   *)
(***************************************************************************)
THEOREM TypeCorrect == Spec => []TypeOK
BY InitTyped, StepTyped, PTL DEF Spec

-----------------------------------------------------------------------------
\* The codes of a call that a gate turned away.
Gated == {"REFUSED", "EFFECT_DISABLED", "DUPLICATE_IDEMPOTENCY_KEY"}

\* The adapter of c was started in this life of the process.
Started(c) == pc[c] = "adapter" \/ job[c] = "orphan" \/ c \in effects

\* Call c passed every gate in this life and will never be taken for one that
\* did not.
Passed(c) ==
  /\ pc[c] \in {"adapter", "done"}
  /\ admitted[c] # Never
  /\ code[c] \notin Gated

CallInv(c) ==
  /\ pc[c] # "done" => code[c] = "none"
  /\ pc[c] \in {"user", "perm"} /\ granted[ask[c].actor] => seen[c]
  /\ pc[c] = "invoke" => seen[c]
  /\ Started(c) => Passed(c) /\ seen[c]
  /\ Started(c) /\ ask[c].tool \in Writes => Id(c) \in reserved

\* No two started writes share a key.
OneWriter ==
  \A c, d \in Call :
    Started(c) /\ Started(d) /\ ask[c].tool \in Writes /\ Id(c) = Id(d) => c = d

KeysPassed == \A id \in reserved : \E c \in Call : Id(c) = id /\ Passed(c)

IInv == TypeOK /\ (\A c \in Call : CallInv(c)) /\ OneWriter /\ KeysPassed

LEMMA InitInv == Init => IInv
<1> SUFFICES ASSUME Init PROVE IInv
  OBVIOUS
<1>1. \A c \in Call : ~Started(c)
  BY DEF Init, Started
<1>2. \A c \in Call : CallInv(c)
  BY <1>1 DEF Init, CallInv
<1> QED
  BY <1>1, <1>2, InitTyped DEF IInv, OneWriter, KeysPassed, Init

\* A step that starts no adapter, reserves no key, and ends or advances calls
\* keeps the keys and their holders.
LEMMA QuietStep ==
  ASSUME IInv, TypeOK', ask' = ask, reserved' = reserved,
         \A c \in Call : Started(c)' => Started(c),
         \A c \in Call : Passed(c) => Passed(c)'
  PROVE  /\ OneWriter' /\ KeysPassed'
         /\ \A c \in Call : Started(c)' /\ ask'[c].tool \in Writes => (Id(c) \in reserved)'
         /\ \A c \in Call : Started(c)' => Passed(c)' /\ seen[c]
<1>1. \A c \in Call : Id(c)' = Id(c)
  BY DEF Id
<1>2. OneWriter'
  BY <1>1 DEF IInv, OneWriter
<1>3. KeysPassed'
  BY <1>1 DEF IInv, KeysPassed
<1>4. \A c \in Call : Started(c)' => Passed(c)' /\ seen[c]
  BY DEF IInv, CallInv
<1>5. \A c \in Call : Started(c)' /\ ask'[c].tool \in Writes => (Id(c) \in reserved)'
  BY <1>1 DEF IInv, CallInv
<1> QED
  BY <1>2, <1>3, <1>4, <1>5

\* The steps of one call other than Execute: what they do to it.
LEMMA CallStep ==
  ASSUME IInv, TypeOK', NEW c \in Call,
         \/ Receive(c) \/ WorkStarts(c) \/ UserKnown(c) \/ PermGranted(c)
         \/ Unauthorized(c) \/ RateLimited(c) \/ Refuse(c) \/ Effect(c)
         \/ AdapterReturns(c) \/ AdapterFails(c) \/ TimeOut(c) \/ OrphanEnds(c)
  PROVE  IInv'
<1> USE DEF TypeOK
<1>0. CallInv(c) /\ TypeOK
  BY DEF IInv
<1>1. ask' = ask /\ reserved' = reserved /\ granted' = granted
  BY DEF Receive, WorkStarts, UserKnown, PermGranted, Unauthorized, RateLimited, Refuse,
         Effect, AdapterReturns, AdapterFails, TimeOut, OrphanEnds
<1>2. ASSUME NEW d \in Call, d # c
      PROVE  /\ pc'[d] = pc[d] /\ job'[d] = job[d] /\ code'[d] = code[d]
             /\ seen'[d] = seen[d] /\ (d \in effects' <=> d \in effects)
             /\ admitted'[d] = admitted[d]
  BY <1>0, <1>2
  DEF Receive, WorkStarts, UserKnown, PermGranted, Unauthorized, RateLimited, Refuse,
      Effect, AdapterReturns, AdapterFails, TimeOut, OrphanEnds, Respond, Admitted
<1>3. Started(c)' => Started(c)
  BY <1>0
  DEF Receive, WorkStarts, UserKnown, PermGranted, Unauthorized, RateLimited, Refuse, Started,
      Effect, AdapterReturns, AdapterFails, TimeOut, OrphanEnds, Respond, Admitted, AtWork
<1>4. Passed(c) => Passed(c)'
  BY <1>0
  DEF Receive, WorkStarts, UserKnown, PermGranted, Unauthorized, RateLimited, Refuse, Passed,
      Effect, AdapterReturns, AdapterFails, TimeOut, OrphanEnds, Respond, Admitted, Gated
<1>5. \A d \in Call : (Started(d)' => Started(d)) /\ (Passed(d) => Passed(d)')
  BY <1>2, <1>3, <1>4 DEF Started, Passed
<1>6. /\ OneWriter' /\ KeysPassed'
      /\ \A d \in Call : Started(d)' /\ ask'[d].tool \in Writes => (Id(d) \in reserved)'
      /\ \A d \in Call : Started(d)' => Passed(d)' /\ seen[d]
  BY <1>1, <1>5, QuietStep
<1>7. /\ pc'[c] # "done" => code'[c] = "none"
      /\ pc'[c] \in {"user", "perm"} /\ granted'[ask'[c].actor] => seen'[c]
      /\ pc'[c] = "invoke" => seen'[c]
      /\ seen[c] /\ pc[c] # "new" => seen'[c]
  BY <1>0
  DEF Receive, WorkStarts, UserKnown, PermGranted, Unauthorized, RateLimited, Refuse, CallInv,
      Effect, AdapterReturns, AdapterFails, TimeOut, OrphanEnds, Respond, Admitted
<1>8. Started(c)' => pc[c] # "new"
  BY <1>0, <1>3 DEF CallInv, Passed
<1>9. CallInv(c)'
  BY <1>6, <1>7, <1>8 DEF CallInv
<1>10. ASSUME NEW d \in Call, d # c PROVE CallInv(d)'
  <2>1. CallInv(d)
    BY DEF IInv
  <2> QED
    BY <1>1, <1>2, <1>6, <1>10, <2>1 DEF CallInv
<1> QED
  BY <1>6, <1>9, <1>10 DEF IInv

\* Execute reserves the key of c only when nobody holds it.
LEMMA ExecuteStep ==
  ASSUME IInv, TypeOK', NEW c \in Call, Execute(c)
  PROVE  IInv'
<1> USE DEF TypeOK
<1>0. CallInv(c) /\ TypeOK /\ pc[c] = "invoke" /\ Admitted(c)
  BY DEF IInv, Execute, Admitted
<1>1. ~Started(c) /\ seen[c]
  BY <1>0 DEF CallInv, Passed
<1>2. admitted'[c] # Never
  BY <1>0, AdmittedTyped
<1>3. /\ ask' = ask /\ granted' = granted /\ seen' = seen /\ effects' = effects
      /\ reserved \subseteq reserved'
      /\ reserved' \subseteq reserved \cup {Id(c)}
  BY DEF Execute
<1>4. ASSUME NEW d \in Call, d # c
      PROVE  /\ pc'[d] = pc[d] /\ job'[d] = job[d] /\ code'[d] = code[d]
             /\ admitted'[d] = admitted[d]
  BY <1>0, <1>4 DEF Execute, Admitted, Respond
<1>5. \A d \in Call : Id(d)' = Id(d)
  BY <1>3 DEF Id
<1>6. CASE Outcome(c).code = "none"
  <2>1. pc'[c] = "adapter" /\ code'[c] = "none"
    BY <1>0, <1>6 DEF Execute, CallInv
  <2>2. ask[c].tool \in Writes => Id(c) \notin reserved /\ Id(c) \in reserved'
    BY <1>6 DEF Execute, Outcome
  <2>3. Passed(c)'
    BY <1>2, <2>1 DEF Passed, Gated
  <2>4. \A d \in Call : d # c => (Started(d)' <=> Started(d)) /\ (Passed(d)' <=> Passed(d))
    BY <1>3, <1>4 DEF Started, Passed
  <2>5. OneWriter'
    <3> SUFFICES ASSUME NEW d \in Call, NEW e \in Call, Started(d)', Started(e)',
                        ask[d].tool \in Writes, Id(d) = Id(e)
                 PROVE  d = e
      BY <1>3, <1>5 DEF OneWriter
    <3>1. ask[d].tool = ask[e].tool
      BY DEF Id
    <3>2. d # c /\ e # c => d = e
      BY <2>4 DEF IInv, OneWriter
    <3>3. ASSUME NEW f \in Call, f # c, Started(f)', ask[f].tool \in Writes PROVE Id(f) \in reserved
      BY <2>4, <3>3 DEF IInv, CallInv
    <3> QED
      BY <2>2, <3>1, <3>2, <3>3
  <2>6. KeysPassed'
    BY <1>0, <1>1, <1>3, <1>5, <2>3, <2>4 DEF IInv, KeysPassed, Passed
  <2>7. ASSUME NEW d \in Call PROVE CallInv(d)'
    <3>1. CASE d = c
      BY <1>0, <1>1, <1>3, <1>5, <2>1, <2>2, <2>3, <3>1 DEF CallInv
    <3>2. CASE d # c
      <4>1. CallInv(d)
        BY DEF IInv
      <4> QED
        BY <1>3, <1>4, <1>5, <2>4, <3>2, <4>1 DEF CallInv
    <3> QED
      BY <3>1, <3>2
  <2> QED
    BY <2>5, <2>6, <2>7 DEF IInv
<1>7. CASE Outcome(c).code # "none"
  <2>1. pc'[c] = "done" /\ code'[c] = Outcome(c).code /\ job' = job
    BY <1>7 DEF Execute, Respond
  <2>2. ~Started(c)'
    BY <1>1, <1>3, <2>1 DEF Started
  <2>3. Outcome(c).reserves => Passed(c)'
    BY <1>2, <2>1 DEF Outcome, Passed, Gated
  <2>4. \A d \in Call : d # c => (Started(d)' <=> Started(d)) /\ (Passed(d)' <=> Passed(d))
    BY <1>3, <1>4 DEF Started, Passed
  <2>5. OneWriter'
    BY <1>3, <1>5, <2>2, <2>4 DEF IInv, OneWriter
  <2>6. KeysPassed'
    <3>1. reserved' = reserved \/ Passed(c)'
      BY <2>3 DEF Execute
    <3> QED
      BY <1>0, <1>3, <1>5, <2>4, <3>1 DEF IInv, KeysPassed, Passed
  <2>7. ASSUME NEW d \in Call PROVE CallInv(d)'
    <3>1. CASE d = c
      BY <2>1, <2>2, <3>1 DEF CallInv
    <3>2. CASE d # c
      <4>1. CallInv(d)
        BY DEF IInv
      <4> QED
        BY <1>3, <1>4, <1>5, <2>4, <3>2, <4>1 DEF CallInv
    <3> QED
      BY <3>1, <3>2
  <2> QED
    BY <2>5, <2>6, <2>7 DEF IInv
<1> QED
  BY <1>6, <1>7

LEMMA StepInv == IInv /\ TypeOK' /\ [Next]_vars => IInv'
<1> SUFFICES ASSUME IInv, TypeOK', [Next]_vars PROVE IInv'
  OBVIOUS
<1>1. ASSUME NEW c \in Call, Receive(c) \/ Progress(c) \/ Effect(c) \/ OrphanEnds(c)
      PROVE  IInv'
  <2>1. CASE Execute(c)
    BY <2>1, ExecuteStep
  <2>2. CASE ~Execute(c)
    BY <1>1, <2>2, CallStep DEF Progress
  <2> QED
    BY <2>1, <2>2
<1>2. ASSUME NEW a \in Actor, ChangeGrant(a) PROVE IInv'
  <2>1. /\ ask' = ask /\ reserved' = reserved /\ pc' = pc /\ job' = job
        /\ code' = code /\ effects' = effects /\ admitted' = admitted
    BY <1>2 DEF ChangeGrant
  <2>2. \A c \in Call : (Started(c)' <=> Started(c)) /\ (Passed(c)' <=> Passed(c))
    BY <2>1 DEF Started, Passed
  <2>3. /\ OneWriter' /\ KeysPassed'
        /\ \A c \in Call : Started(c)' /\ ask'[c].tool \in Writes => (Id(c) \in reserved)'
        /\ \A c \in Call : Started(c)' => Passed(c)' /\ seen[c]
    BY <2>1, <2>2, QuietStep
  <2>4. \A c \in Call : /\ seen[c] => seen'[c]
                        /\ granted'[ask[c].actor] /\ pc[c] \notin {"new", "done"} => seen'[c]
    BY <1>2 DEF ChangeGrant
  <2>5. ASSUME NEW c \in Call PROVE CallInv(c)'
    <3>1. CallInv(c)
      BY DEF IInv
    <3> QED
      BY <2>1, <2>3, <2>4, <3>1 DEF CallInv
  <2> QED
    BY <2>3, <2>5 DEF IInv
<1>3. CASE Restart
  <2>1. \A c \in Call : ~Started(c)' /\ pc'[c] \in {"new", "done"}
    BY <1>3 DEF Restart, Started, IInv, TypeOK
  <2>2. reserved' = {} /\ code' = code
    BY <1>3 DEF Restart
  <2>3. \A c \in Call : pc'[c] = "new" => pc[c] = "new"
    BY <1>3 DEF Restart, IInv, TypeOK
  <2>4. ASSUME NEW c \in Call PROVE CallInv(c)'
    <3>1. CallInv(c)
      BY DEF IInv
    <3>2. pc'[c] # "done" => pc'[c] = "new"
      BY <2>1
    <3> QED
      BY <2>1, <2>2, <2>3, <3>1, <3>2, Zenon DEF CallInv
  <2> QED
    BY <2>1, <2>2, <2>4 DEF IInv, OneWriter, KeysPassed
<1>4. CASE Tick \/ UNCHANGED vars
  <2>1. /\ ask' = ask /\ reserved' = reserved /\ pc' = pc /\ job' = job /\ granted' = granted
        /\ code' = code /\ effects' = effects /\ admitted' = admitted /\ seen' = seen
    BY <1>4 DEF Tick, vars
  <2>2. \A c \in Call : (Started(c)' <=> Started(c)) /\ (Passed(c)' <=> Passed(c))
    BY <2>1 DEF Started, Passed
  <2>3. /\ OneWriter' /\ KeysPassed'
        /\ \A c \in Call : Started(c)' /\ ask'[c].tool \in Writes => (Id(c) \in reserved)'
        /\ \A c \in Call : Started(c)' => Passed(c)' /\ seen[c]
    BY <2>1, <2>2, QuietStep
  <2>4. \A c \in Call : CallInv(c)'
    BY <2>1, <2>3 DEF IInv, CallInv
  <2> QED
    BY <2>3, <2>4 DEF IInv
<1> QED
  BY <1>1, <1>2, <1>3, <1>4 DEF Next

LEMMA Invariance == Spec => []IInv
<1>1. IInv /\ TypeOK' /\ [Next]_vars => IInv'
  BY StepInv
<1> QED
  BY InitInv, <1>1, TypeCorrect, PTL DEF Spec

(***************************************************************************)
(* Within one life of the gateway no two effects share a write key, however*)
(* many calls race, time out and are repeated.                             *)
(***************************************************************************)
THEOREM WritesOnce == Spec => []AtMostOnce
<1>1. IInv => AtMostOnce
  BY DEF IInv, OneWriter, AtMostOnce, Started, TypeOK
<1> QED
  BY <1>1, Invariance, PTL

(***************************************************************************)
(* Every adapter runs under a permission that was seen during its call.    *)
(***************************************************************************)
THEOREM AuthorityFresh == Spec => []FreshAuthority
<1>1. IInv => FreshAuthority
  BY DEF IInv, CallInv, FreshAuthority, Started
<1> QED
  BY <1>1, Invariance, PTL

(***************************************************************************)
(* A refused call never takes its key with it.                             *)
(***************************************************************************)
THEOREM KeysHeld == Spec => []KeyHolder
<1>1. IInv => KeyHolder
  BY DEF IInv, KeysPassed, KeyHolder, Passed, Gated
<1> QED
  BY <1>1, Invariance, PTL

\* reserve() and the gates before it: one effect under a key, and none spent on
\* a refusal, for any calls, workers and times.
THEOREM KeysHold == Spec => []KeysSound
<1>1. AtMostOnce /\ KeyHolder => KeysSound
  BY DEF KeysSound
<1> QED
  BY <1>1, WritesOnce, KeysHeld, PTL

-----------------------------------------------------------------------------
(* The limiter lets no more calls through in a minute than its limit: every   *)
(* call of the last minute has an entry of its own in the deque.              *)

\* The calls of actor a to tool t that were let through in the minute that ends
\* at end.
In(a, t, end) ==
  {c \in Call : /\ ask[c].actor = a /\ ask[c].tool = t
                /\ admitted[c] \in (end - Window + 1) .. end}

\* No minute up to now had more of them than the limit.
FewIn(a, t) ==
  \A end \in 0 .. now : IsFiniteSet(In(a, t, end)) /\ Cardinality(In(a, t, end)) <= Limit

\* Entry g[c] of deque s is the time at[c] of call c.
Places(g, S, s, at) ==
  /\ g \in [S -> 1 .. Len(s)]
  /\ \A c \in S : s[g[c]] = at[c]
  /\ \A c, d \in S : g[c] = g[d] => c = d

Placed(a, t) == \E g : Places(g, In(a, t, now), events[<<a, t>>], admitted)

RateInv ==
  /\ \A c \in Call : admitted[c] \in 0 .. now \/ admitted[c] = Never
  /\ \A c \in Call : pc[c] \notin {"adapter", "done"} => admitted[c] = Never
  /\ \A a \in Actor, t \in Tool : FewIn(a, t) /\ Placed(a, t)

\* check drops entries from the front until one is less than a minute old.
LEMMA RecentAt ==
  ASSUME NEW s \in Seq(0 .. MaxTime), now \in 0 .. MaxTime
  PROVE  \E f \in 1 .. Len(s) + 1 :
           /\ \A n \in 1 .. Len(s) : s[n] > now - Window => n >= f
           /\ Len(Recent(s)) = Len(s) - f + 1
           /\ \A n \in f .. Len(s) : Recent(s)[n - f + 1] = s[n]
<1>1. PICK f \in 1 .. Len(s) + 1 : f = First(s) /\ IsFirst(f, s)
  BY FirstExists
<1>2. Len(s) \in Nat /\ f \in Int /\ \A n \in f .. Len(s) : n \in 1 .. Len(s)
  OBVIOUS
<1>3. \A n \in f .. Len(s) : s[n] \in 0 .. MaxTime
  BY <1>2, ElementOfSeq, Zenon
<1>4. /\ Len(SubSeq(s, f, Len(s))) = IF f <= Len(s) THEN Len(s) - f + 1 ELSE 0
      /\ \A i \in 1 .. Len(s) - f + 1 : SubSeq(s, f, Len(s))[i] = s[f + i - 1]
  <2> DEFINE T == 0 .. MaxTime
  <2>1. \A n \in f .. Len(s) : s[n] \in T
    BY <1>3
  <2>2. Len(s) \in Int
    BY <1>2
  <2> HIDE DEF T
  <2>3. f \in Int
    BY <1>2
  <2>4. Len(SubSeq(s, f, Len(s))) = IF f <= Len(s) THEN Len(s) - f + 1 ELSE 0
    BY <2>1, <2>2, <2>3, SubSeqProperties
  <2>5. \A i \in 1 .. Len(s) - f + 1 : SubSeq(s, f, Len(s))[i] = s[f + i - 1]
    BY <2>1, <2>2, <2>3, SubSeqProperties
  <2> QED
    BY <2>4, <2>5
<1>5. Recent(s) = SubSeq(s, f, Len(s))
  BY <1>1 DEF Recent
<1>6. Len(Recent(s)) = Len(s) - f + 1
  BY <1>2, <1>4, <1>5
<1>7. ASSUME NEW n \in f .. Len(s) PROVE Recent(s)[n - f + 1] = s[n]
  <2>1. n - f + 1 \in 1 .. Len(s) - f + 1 /\ f + (n - f + 1) - 1 = n
    BY <1>2
  <2> QED
    BY <1>4, <1>5, <2>1
<1>8. ASSUME NEW n \in 1 .. Len(s), s[n] > now - Window PROVE n >= f
  <2>1. s[n] \in 0 .. MaxTime
    BY ElementOfSeq, Zenon
  <2>2. ~Old(s[n])
    BY <1>8, <2>1, NumberAssumption DEF Old
  <2> QED
    BY <1>1, <1>2, <2>2 DEF IsFirst
<1> QED
  BY <1>6, <1>7, <1>8

\* What has its entries in a deque has them in what check leaves of it.
LEMMA StillPlaced ==
  ASSUME TypeOK, NEW s \in Seq(0 .. MaxTime), NEW S \in SUBSET Call, NEW g, Places(g, S, s, admitted),
         \A c \in S : admitted[c] > now - Window
  PROVE  \E h : Places(h, S, Recent(s), admitted)
<1>1. now \in 0 .. MaxTime /\ Len(s) \in Nat
  BY DEF TypeOK
<1>2. PICK f \in 1 .. Len(s) + 1 :
        /\ \A n \in 1 .. Len(s) : s[n] > now - Window => n >= f
        /\ Len(Recent(s)) = Len(s) - f + 1
        /\ \A n \in f .. Len(s) : Recent(s)[n - f + 1] = s[n]
  BY <1>1, RecentAt
<1> DEFINE h == [c \in S |-> g[c] - f + 1]
<1>3. \A c \in S : g[c] \in f .. Len(s) /\ s[g[c]] = admitted[c]
  BY <1>1, <1>2 DEF Places
<1>4. h \in [S -> 1 .. Len(Recent(s))]
  <2>1. \A c \in S : g[c] - f + 1 \in 1 .. Len(s) - f + 1
    BY <1>1, <1>3
  <2> QED
    BY <1>2, <2>1
<1>5. \A c \in S : Recent(s)[h[c]] = admitted[c]
  BY <1>2, <1>3
<1>6. \A c, d \in S : h[c] = h[d] => c = d
  <2>1. \A c, d \in S : g[c] - f + 1 = g[d] - f + 1 => g[c] = g[d]
    BY <1>1, <1>3
  <2> QED
    BY <2>1 DEF Places
<1> QED
  BY <1>4, <1>5, <1>6 DEF Places

\* There are no more calls than entries.
LEMMA PlacedFew ==
  ASSUME NEW S, NEW s \in Seq(0 .. MaxTime), NEW g, Places(g, S, s, admitted)
  PROVE  IsFiniteSet(S) /\ Cardinality(S) <= Len(s)
<1>1. Len(s) \in Nat /\ 1 \in Int /\ Len(s) \in Int
  OBVIOUS
<1>2. IsFiniteSet(1 .. Len(s)) /\ Cardinality(1 .. Len(s)) = Len(s)
  <2>1. /\ IsFiniteSet(1 .. Len(s))
        /\ Cardinality(1 .. Len(s)) = IF 1 > Len(s) THEN 0 ELSE Len(s) - 1 + 1
    BY <1>1, FS_Interval, Zenon
  <2> QED
    BY <1>1, <2>1
<1>3. g \in Injection(S, 1 .. Len(s))
  BY DEF Places, Injection, IsInjective
<1>4. IsFiniteSet(S) /\ Cardinality(S) <= Cardinality(1 .. Len(s))
  BY <1>2, <1>3, FS_Injection
<1> QED
  BY <1>2, <1>4

\* A call that is let through is one of its minute, and has the last entry.
LEMMA AdmittedRate ==
  ASSUME TypeOK, RateInv, NEW c \in Call, Admitted(c), ask' = ask, now' = now,
         NEW a \in Actor, NEW t \in Tool
  PROVE  FewIn(a, t)' /\ Placed(a, t)'
<1> DEFINE s == <<a, t>>
           mine == <<ask[c].actor, ask[c].tool>>
<1>0. /\ now \in 0 .. MaxTime /\ Window \in Nat \ {0} /\ Limit \in Nat \ {0} /\ MaxTime \in Nat
      /\ s \in Actor \X Tool /\ events[s] \in Seq(0 .. MaxTime)
      /\ admitted \in [Call -> 0 .. Never] /\ admitted' = [admitted EXCEPT ![c] = now]
      /\ events \in [Actor \X Tool -> Seq(0 .. MaxTime)] /\ mine \in Actor \X Tool
      /\ FewIn(a, t) /\ Placed(a, t)
  BY NumberAssumption DEF TypeOK, Ask, RateInv, Admitted
<1>1. pc[c] = "invoke" /\ admitted[c] = Never
  BY DEF Admitted, RateInv
<1>2. events' = [events EXCEPT ![mine] = Append(Recent(events[mine]), now)] /\ Passes(Recent(events[mine]))
  BY DEF Admitted
<1>3. Never = MaxTime + 1
  BY DEF Never
<1>4. ASSUME NEW end \in 0 .. now
      PROVE  In(a, t, end)' = IF mine = s /\ end = now THEN In(a, t, end) \cup {c} ELSE In(a, t, end)
  <2>1. now \in (end - Window + 1) .. end <=> end = now
    BY <1>0
  <2>2. admitted[c] \notin (end - Window + 1) .. end
    BY <1>0, <1>1, <1>3
  <2>3. admitted'[c] = now /\ \A d \in Call : d # c => admitted'[d] = admitted[d]
    BY <1>0
  <2>4. mine = s <=> ask[c].actor = a /\ ask[c].tool = t
    OBVIOUS
  <2> HIDE DEF mine, s
  <2>5. \A d \in Call : d # c => (d \in In(a, t, end)' <=> d \in In(a, t, end))
    BY <2>3 DEF In
  <2>6. c \notin In(a, t, end)
    BY <2>2 DEF In
  <2>7. c \in In(a, t, end)' <=> mine = s /\ end = now
    BY <2>1, <2>3, <2>4 DEF In
  <2>8. In(a, t, end)' \subseteq Call /\ In(a, t, end) \subseteq Call
    BY DEF In
  <2> QED
    BY <2>5, <2>6, <2>7, <2>8
<1>5. CASE mine # s
  <2>1. events'[s] = events[s]
    BY <1>0, <1>2, <1>5
  <2>2. \A end \in 0 .. now : In(a, t, end)' = In(a, t, end)
    BY <1>4, <1>5
  <2>3. now \in 0 .. now /\ In(a, t, now)' = In(a, t, now)
    BY <1>0, <2>2
  <2>4. \A d \in In(a, t, now) : admitted'[d] = admitted[d]
    BY <1>0, <1>1, <1>3 DEF In
  <2>5. FewIn(a, t)'
    BY <1>0, <2>2 DEF FewIn
  <2>6. PICK g : Places(g, In(a, t, now), events[s], admitted)
    BY <1>0 DEF Placed
  <2>7. Places(g, In(a, t, now)', events'[s], admitted')
    BY <2>1, <2>3, <2>4, <2>6 DEF Places
  <2> QED
    BY <2>5, <2>7 DEF Placed
<1>6. CASE mine = s
  <2> DEFINE K == In(a, t, now)
             r == Recent(events[s])
  <2>1. /\ r \in Seq(0 .. MaxTime) /\ Append(r, now) \in Seq(0 .. MaxTime) /\ Len(r) \in Nat
        /\ Len(r) < Limit /\ events'[s] = Append(r, now)
    <3>1. r \in Seq(0 .. MaxTime) /\ Append(r, now) \in Seq(0 .. MaxTime)
      BY <1>0, RecentTyped, Zenon
    <3>2. r = Recent(events[mine]) /\ events'[s] = Append(r, now)
      <4> HIDE DEF mine, s
      <4> QED
        BY <1>0, <1>2, <1>6
    <3>3. Len(r) < Limit
      BY <1>2, <3>2, Zenon DEF Passes
    <3> HIDE DEF r
    <3> QED
      BY <3>1, <3>2, <3>3
  <2>2. K \in SUBSET Call /\ c \notin K /\ \A d \in K : admitted[d] > now - Window /\ admitted'[d] = admitted[d]
    BY <1>0, <1>1, <1>3 DEF In
  <2>3. PICK h : Places(h, K, r, admitted)
    <3>1. PICK g : Places(g, K, events[s], admitted)
      BY <1>0 DEF Placed
    <3> HIDE DEF K, s
    <3> QED
      BY <1>0, <2>2, <3>1, StillPlaced
  <2>4. In(a, t, now)' = K \cup {c}
    BY <1>0, <1>4, <1>6
  <2> DEFINE h2 == [d \in K \cup {c} |-> IF d = c THEN Len(r) + 1 ELSE h[d]]
  <2>5. /\ Len(Append(r, now)) = Len(r) + 1 /\ Append(r, now)[Len(r) + 1] = now
        /\ \A n \in 1 .. Len(r) : Append(r, now)[n] = r[n]
    BY <1>0, <2>1, AppendProperties
  <2> HIDE DEF K, r, s
  <2>6. /\ \A d \in K : h[d] \in 1 .. Len(r) /\ r[h[d]] = admitted[d]
        /\ \A d, e \in K : h[d] = h[e] => d = e
    BY <2>3 DEF Places
  <2>7. h2 \in [K \cup {c} -> 1 .. Len(r) + 1]
    BY <2>1, <2>6
  <2>8. \A d \in K \cup {c} : Append(r, now)[h2[d]] = admitted'[d]
    <3>1. ASSUME NEW d \in K PROVE Append(r, now)[h2[d]] = admitted'[d]
      BY <2>2, <2>5, <2>6, <3>1
    <3>2. Append(r, now)[h2[c]] = admitted'[c]
      BY <1>0, <2>5
    <3> QED
      BY <3>1, <3>2
  <2>9. \A d, e \in K \cup {c} : h2[d] = h2[e] => d = e
    BY <2>1, <2>2, <2>6
  <2>10. Places(h2, K \cup {c}, Append(r, now), admitted')
    <3>1. Len(Append(r, now)) = Len(r) + 1
      BY <2>5
    <3> HIDE DEF h2
    <3> QED
      BY <3>1, <2>7, <2>8, <2>9 DEF Places
  <2>11. Placed(a, t)'
    <3> HIDE DEF h2
    <3> QED
      BY <2>1, <2>4, <2>10, <1>0 DEF Placed, s
  <2>12. IsFiniteSet(K \cup {c}) /\ Cardinality(K \cup {c}) <= Limit
    <3> DEFINE u == Append(r, now)
    <3>1. u \in Seq(0 .. MaxTime) /\ Len(u) <= Limit /\ Len(u) \in Nat
      BY <1>0, <2>1, <2>5
    <3>2. h2 \in Injection(K \cup {c}, 1 .. Len(u))
      <4> HIDE DEF h2
      <4> QED
        BY <2>5, <2>7, <2>9 DEF Injection, IsInjective
    <3> HIDE DEF u, h2
    <3>3. IsFiniteSet(1 .. Len(u)) /\ Cardinality(1 .. Len(u)) = Len(u)
      <4>1. /\ IsFiniteSet(1 .. Len(u))
            /\ Cardinality(1 .. Len(u)) = IF 1 > Len(u) THEN 0 ELSE Len(u) - 1 + 1
        <5>1. 1 \in Int /\ Len(u) \in Int
          BY <3>1
        <5> QED
          BY <5>1, FS_Interval, Zenon
      <4> QED
        BY <3>1, <4>1
    <3>4. IsFiniteSet(K \cup {c}) /\ Cardinality(K \cup {c}) <= Cardinality(1 .. Len(u))
      BY <3>2, <3>3, FS_Injection
    <3>5. Cardinality(K \cup {c}) \in Nat
      BY <3>4, FS_CardinalityType
    <3> QED
      BY <1>0, <3>1, <3>3, <3>4, <3>5
  <2>13. FewIn(a, t)'
    <3>1. ASSUME NEW end \in 0 .. now
          PROVE  IsFiniteSet(In(a, t, end)') /\ Cardinality(In(a, t, end)') <= Limit
      <4>1. CASE end = now
        BY <2>4, <2>12, <4>1
      <4>2. CASE end # now
        BY <1>0, <1>4, <4>2 DEF FewIn
      <4> QED
        BY <4>1, <4>2
    <3> QED
      BY <3>1, <1>0 DEF FewIn
  <2> QED
    BY <2>11, <2>13
<1> QED
  BY <1>5, <1>6

\* A call that is not let through has the old entries dropped.
LEMMA LimitedRate ==
  ASSUME TypeOK, RateInv, NEW c \in Call, RateLimited(c), NEW a \in Actor, NEW t \in Tool
  PROVE  FewIn(a, t)' /\ Placed(a, t)'
<1> DEFINE s == <<a, t>>
           mine == <<ask[c].actor, ask[c].tool>>
<1>0. /\ now \in 0 .. MaxTime /\ Window \in Nat \ {0} /\ MaxTime \in Nat
      /\ s \in Actor \X Tool /\ events[s] \in Seq(0 .. MaxTime)
      /\ admitted \in [Call -> 0 .. Never] /\ mine \in Actor \X Tool
      /\ FewIn(a, t) /\ Placed(a, t)
      /\ admitted' = admitted /\ ask' = ask /\ now' = now
      /\ events' = [events EXCEPT ![mine] = Recent(events[mine])]
  BY NumberAssumption DEF TypeOK, Ask, RateInv, RateLimited
<1>1. \A end : In(a, t, end)' = In(a, t, end)
  BY <1>0 DEF In
<1>2. FewIn(a, t)'
  BY <1>0, <1>1 DEF FewIn
<1>3. PICK g : Places(g, In(a, t, now), events[s], admitted)
  BY <1>0 DEF Placed
<1>4. events'[s] = events[s] \/ events'[s] = Recent(events[s])
  BY <1>0
<1>5. \A d \in In(a, t, now) : admitted[d] > now - Window
  BY <1>0 DEF In
<1>6. In(a, t, now) \in SUBSET Call
  BY DEF In
<1> HIDE DEF s
<1>7. PICK h : Places(h, In(a, t, now), Recent(events[s]), admitted)
  BY <1>0, <1>3, <1>5, <1>6, StillPlaced
<1>8. \E x : Places(x, In(a, t, now), events'[s], admitted)
  BY <1>3, <1>4, <1>7
<1>9. PICK x : Places(x, In(a, t, now), events'[s], admitted)
  BY <1>8
<1>10. Places(x, In(a, t, now)', events'[s], admitted')
  BY <1>0, <1>1, <1>9
<1> QED
  BY <1>2, <1>10 DEF Placed, s

\* A minute that ends later has no call that one that ends now has not.
LEMMA LaterFewer ==
  ASSUME RateInv, NEW a, NEW t, now \in 0 .. MaxTime, NEW end \in now .. MaxTime
  PROVE  In(a, t, end) \subseteq In(a, t, now)
<1>1. ASSUME NEW c \in Call, admitted[c] \in (end - Window + 1) .. end
      PROVE  admitted[c] \in (now - Window + 1) .. now
  <2>1. admitted[c] \in 0 .. now
    BY <1>1, NumberAssumption DEF RateInv, Never
  <2> QED
    BY <1>1, <2>1, NumberAssumption
<1> QED
  BY <1>1 DEF In

\* While the clock goes on, calls only leave the minute.
LEMMA TickRate ==
  ASSUME TypeOK, RateInv, Tick, NEW a \in Actor, NEW t \in Tool
  PROVE  FewIn(a, t)' /\ Placed(a, t)'
<1>0. /\ now \in 0 .. MaxTime /\ now' = now + 1 /\ now' \in now .. MaxTime /\ MaxTime \in Nat
      /\ admitted' = admitted /\ ask' = ask /\ events' = events
      /\ FewIn(a, t) /\ Placed(a, t) /\ Limit \in Nat
  BY NumberAssumption DEF TypeOK, Tick, RateInv
<1>1. \A end : In(a, t, end)' = In(a, t, end')
  BY <1>0 DEF In
<1>2. In(a, t, now') \subseteq In(a, t, now)
  BY <1>0, LaterFewer
<1>3. PICK g : Places(g, In(a, t, now), events[<<a, t>>], admitted)
  BY <1>0 DEF Placed
<1> DEFINE h == [c \in In(a, t, now') |-> g[c]]
<1>4. Places(h, In(a, t, now'), events[<<a, t>>], admitted)
  BY <1>2, <1>3 DEF Places
<1> HIDE DEF h
<1>5. In(a, t, now)' = In(a, t, now')
  BY <1>0 DEF In
<1>6. Placed(a, t)'
  BY <1>0, <1>4, <1>5 DEF Placed
<1>7. ASSUME NEW end \in 0 .. now' PROVE IsFiniteSet(In(a, t, end)) /\ Cardinality(In(a, t, end)) <= Limit
  <2>1. CASE end \in 0 .. now
    BY <1>0, <2>1 DEF FewIn
  <2>2. CASE end = now'
    <3>1. now \in 0 .. now
      BY <1>0
    <3>2. IsFiniteSet(In(a, t, now)) /\ Cardinality(In(a, t, now)) <= Limit
      BY <1>0, <3>1 DEF FewIn
    <3>3. /\ IsFiniteSet(In(a, t, now')) /\ Cardinality(In(a, t, now')) <= Cardinality(In(a, t, now))
          /\ Cardinality(In(a, t, now')) \in Nat /\ Cardinality(In(a, t, now)) \in Nat
      BY <1>2, <3>2, FS_Subset, FS_CardinalityType
    <3>4. Cardinality(In(a, t, now')) <= Limit
      BY <1>0, <3>2, <3>3
    <3> QED
      BY <2>2, <3>3, <3>4
  <2>3. end \in 0 .. now \/ end = now'
    BY <1>0
  <2> QED
    BY <2>1, <2>2, <2>3
<1>8. \A end \in 0 .. now' : In(a, t, end)' = In(a, t, end)
  BY <1>0 DEF In
<1> QED
  BY <1>0, <1>6, <1>7, <1>8 DEF FewIn

\* Nothing was let through in a new life of the process.
LEMMA NoneYet ==
  now \in 0 .. MaxTime /\ (\A c \in Call : admitted[c] = Never)
    => \A a \in Actor, t \in Tool : FewIn(a, t) /\ Placed(a, t)
<1> SUFFICES ASSUME now \in 0 .. MaxTime, \A c \in Call : admitted[c] = Never,
                    NEW a \in Actor, NEW t \in Tool
             PROVE  FewIn(a, t) /\ Placed(a, t)
  OBVIOUS
<1>1. ASSUME NEW end \in 0 .. now PROVE In(a, t, end) = {}
  <2>1. Never \notin (end - Window + 1) .. end
    BY NumberAssumption DEF Never
  <2> QED
    BY <2>1 DEF In
<1>2. IsFiniteSet({}) /\ Cardinality({}) = 0
  BY FS_EmptySet
<1>3. FewIn(a, t)
  <2>1. 0 <= Limit
    BY NumberAssumption
  <2>2. IsFiniteSet({}) /\ Cardinality({}) <= Limit
    BY <1>2, <2>1
  <2> QED
    BY <1>1, <2>2, Zenon DEF FewIn
<1>4. In(a, t, now) = {}
  BY <1>1
<1>5. Places([c \in {} |-> 1], {}, events[<<a, t>>], admitted)
  BY DEF Places
<1> QED
  BY <1>3, <1>4, <1>5 DEF Placed

LEMMA InitRate == Init => RateInv
<1> SUFFICES ASSUME Init PROVE RateInv
  OBVIOUS
<1>1. now \in 0 .. MaxTime /\ \A c \in Call : admitted[c] = Never
  BY NeverTyped DEF Init
<1> QED
  BY <1>1, NoneYet DEF RateInv

\* Steps that have nothing to do with the limiter.
LEMMA SameRate ==
  ASSUME RateInv, UNCHANGED <<now, ask, events, admitted>>,
         \A c \in Call : pc'[c] \notin {"adapter", "done"} => pc[c] \notin {"adapter", "done"}
  PROVE  RateInv'
<1>1. \A a, t, end : In(a, t, end)' = In(a, t, end)
  BY DEF In
<1>2. ASSUME NEW a \in Actor, NEW t \in Tool PROVE FewIn(a, t)' /\ Placed(a, t)'
  <2>1. FewIn(a, t) /\ Placed(a, t) /\ In(a, t, now)' = In(a, t, now)
    BY <1>1 DEF RateInv
  <2>2. FewIn(a, t)'
    BY <1>1, <2>1 DEF FewIn
  <2> QED
    BY <2>1, <2>2 DEF Placed
<1> QED
  BY <1>2 DEF RateInv, Never

LEMMA StepRate == TypeOK /\ RateInv /\ [Next]_vars => RateInv'
<1> SUFFICES ASSUME TypeOK, RateInv, [Next]_vars PROVE RateInv'
  OBVIOUS
<1>0. /\ pc \in [Call -> {"new", "user", "perm", "invoke", "adapter", "done"}]
      /\ now \in 0 .. MaxTime /\ admitted \in [Call -> 0 .. Never]
  BY DEF TypeOK
<1>1. ASSUME NEW c \in Call,
             \/ Receive(c) \/ WorkStarts(c) \/ UserKnown(c) \/ PermGranted(c) \/ Unauthorized(c)
             \/ Effect(c) \/ AdapterReturns(c) \/ AdapterFails(c) \/ TimeOut(c) \/ OrphanEnds(c)
      PROVE  RateInv'
  <2>1. UNCHANGED <<now, ask, events, admitted>>
    BY <1>1 DEF Receive, WorkStarts, UserKnown, PermGranted, Unauthorized, Effect,
       AdapterReturns, AdapterFails, TimeOut, OrphanEnds
  <2>2. \A d \in Call : pc'[d] \notin {"adapter", "done"} => pc[d] \notin {"adapter", "done"}
    BY <1>0, <1>1 DEF Receive, WorkStarts, UserKnown, PermGranted, Unauthorized, Effect,
       AdapterReturns, AdapterFails, TimeOut, OrphanEnds, Respond, AtWork
  <2> QED
    BY <2>1, <2>2, SameRate
<1>2. ASSUME NEW c \in Call, Refuse(c) \/ Execute(c) PROVE RateInv'
  <2>1. Admitted(c) /\ ask' = ask /\ now' = now /\ admitted' = [admitted EXCEPT ![c] = now]
    BY <1>2 DEF Refuse, Execute, Admitted
  <2>2. pc'[c] \in {"adapter", "done"} /\ \A d \in Call : d # c => pc'[d] = pc[d]
    BY <1>0, <1>2 DEF Refuse, Execute, Respond
  <2>3. \A d \in Call : admitted'[d] \in 0 .. now \/ admitted'[d] = Never
    BY <1>0, <2>1 DEF RateInv
  <2>4. \A d \in Call : pc'[d] \notin {"adapter", "done"} => admitted'[d] = Never
    BY <1>0, <2>1, <2>2 DEF RateInv
  <2>5. \A a \in Actor, t \in Tool : FewIn(a, t)' /\ Placed(a, t)'
    BY <2>1, AdmittedRate
  <2> QED
    BY <2>1, <2>3, <2>4, <2>5, NeverTyped DEF RateInv, Never
<1>3. ASSUME NEW c \in Call, RateLimited(c) PROVE RateInv'
  <2>1. UNCHANGED <<now, ask, admitted>> /\ pc' = [pc EXCEPT ![c] = "done"]
    BY <1>3 DEF RateLimited, Respond
  <2>2. \A a \in Actor, t \in Tool : FewIn(a, t)' /\ Placed(a, t)'
    BY <1>3, LimitedRate
  <2> QED
    BY <1>0, <2>1, <2>2 DEF RateInv, Never
<1>4. ASSUME NEW a \in Actor, ChangeGrant(a) PROVE RateInv'
  BY <1>4, SameRate DEF ChangeGrant
<1>5. CASE Tick
  <2>1. \A a \in Actor, t \in Tool : FewIn(a, t)' /\ Placed(a, t)'
    BY <1>5, TickRate
  <2>2. \A d \in 0 .. now : d \in 0 .. now'
    BY <1>0, <1>5 DEF Tick
  <2>3. UNCHANGED <<admitted, pc>>
    BY <1>5 DEF Tick
  <2> QED
    BY <2>1, <2>2, <2>3 DEF RateInv, Never
<1>6. CASE Restart
  <2>1. now' = now /\ \A c \in Call : admitted'[c] = Never
    BY <1>6 DEF Restart
  <2>2. \A c \in Call : admitted'[c] = Never'
    BY <2>1 DEF Never
  <2>3. now' \in 0 .. MaxTime
    BY <1>0, <2>1
  <2>4. \A a \in Actor, t \in Tool : FewIn(a, t)' /\ Placed(a, t)'
    <3>1. (now \in 0 .. MaxTime /\ (\A c \in Call : admitted[c] = Never)
             => \A a \in Actor, t \in Tool : FewIn(a, t) /\ Placed(a, t))'
      BY NoneYet, PTL
    <3> QED
      BY <2>2, <2>3, <3>1
  <2> QED
    BY <2>2, <2>4 DEF RateInv
<1>7. CASE UNCHANGED vars
  BY <1>7, SameRate DEF vars
<1> QED
  BY <1>1, <1>2, <1>3, <1>4, <1>5, <1>6, <1>7 DEF Next, Progress

(***************************************************************************)
(* In no minute does the limiter let more calls of an actor to a tool pass *)
(* than its limit, for any clock and any number of calls.                  *)
(***************************************************************************)
THEOREM RateHolds == Spec => []RateWindow
<1>1. TypeOK /\ RateInv => RateWindow
  <2> SUFFICES ASSUME TypeOK, RateInv, NEW a \in Actor, NEW t \in Tool, NEW end \in 0 .. MaxTime
               PROVE  Cardinality(In(a, t, end)) <= Limit
    BY DEF RateWindow, In
  <2>0. now \in 0 .. MaxTime /\ MaxTime \in Nat /\ Limit \in Nat /\ FewIn(a, t)
    BY NumberAssumption DEF TypeOK, RateInv
  <2>1. CASE end \in 0 .. now
    BY <2>0, <2>1 DEF FewIn
  <2>2. CASE end \in now .. MaxTime
    <3>1. In(a, t, end) \subseteq In(a, t, now)
      BY <2>0, <2>2, LaterFewer
    <3>2. IsFiniteSet(In(a, t, now)) /\ Cardinality(In(a, t, now)) <= Limit
      BY <2>0 DEF FewIn
    <3>3. /\ Cardinality(In(a, t, end)) <= Cardinality(In(a, t, now))
          /\ Cardinality(In(a, t, end)) \in Nat /\ Cardinality(In(a, t, now)) \in Nat
      BY <3>1, <3>2, FS_Subset, FS_CardinalityType
    <3> QED
      BY <2>0, <3>2, <3>3
  <2> QED
    BY <2>0, <2>1, <2>2
<1> QED
  BY <1>1, TypeCorrect, InitRate, StepRate, PTL DEF Spec

-----------------------------------------------------------------------------
(* The refresh.  An id tells the mail it belongs to: it was made from that *)
(* mail, its user signed up with it, or it is one of production and has    *)
(* none.  That is why the upsert of auth.users adds users and changes      *)
(* none, and why ids that were staged stay right whatever dev users commit *)
(* meanwhile.                                                              *)

(* Types *)

LEMMA UserTypes ==
  /\ \A i \in Specialist \cup Client : Prod(i) \in User
  /\ \A m \in Mail : Minted(m) \in User /\ SignedUp(m) \in User
BY DEF Prod, Minted, SignedUp, User

LEMMA SourceTyped ==
  ASSUME src \in SourceTables, SourceChanges
  PROVE  src' \in SourceTables
<1>1. CASE \E s \in Specialist, m \in Address :
             src' = [src EXCEPT !.spec = @ \cup {[id |-> s, mail |-> m]}]
  BY <1>1 DEF SourceTables
<1>2. CASE \E c \in Client, m \in Address, s \in Specialist \cup {Nobody} :
             src' = [src EXCEPT !.client = @ \cup {[id |-> c, mail |-> m, spec |-> s]}]
  BY <1>2 DEF SourceTables
<1>3. CASE \E r \in Result, c \in Client, s \in Specialist \cup {Nobody} :
             src' = [src EXCEPT !.result = @ \cup {[id |-> r, client |-> c, spec |-> s]}]
  BY <1>3 DEF SourceTables
<1>4. CASE \E x \in src.client, m \in Address :
             src' = [src EXCEPT !.client = (@ \ {x}) \cup {[x EXCEPT !.mail = m]}]
  BY <1>4 DEF SourceTables
<1>5. CASE \E x, y \in src.client :
             src' = [src EXCEPT !.client =
                       (@ \ {x, y}) \cup {[x EXCEPT !.mail = y.mail], [y EXCEPT !.mail = x.mail]}]
  BY <1>5 DEF SourceTables
<1>6. CASE \E x \in src.result : src' = [src EXCEPT !.result = @ \ {x}]
  BY <1>6 DEF SourceTables
<1>7. QED
  BY <1>1, <1>2, <1>3, <1>4, <1>5, <1>6, Zenon DEF SourceChanges

LEMMA UserIdsTyped ==
  ASSUME dev \in Tables, NEW rows, \A x \in rows : x.uid \in User,
         NEW m \in Address, NEW i \in Specialist \cup Client
  PROVE  UserIds(rows, m, i) \subseteq User
<1>1. \A x \in dev.auth : x.uid \in User
  BY DEF Tables, AuthRow
<1>2. Named(rows, m) \subseteq User /\ Named(dev.auth, m) \subseteq User
  BY <1>1 DEF Named
<1>3. QED
  BY <1>2, UserTypes DEF UserIds, Address

LEMMA SpecialistIdsTyped ==
  ASSUME stage \in Stages, NEW s
  PROVE  SpecialistIds(s) \subseteq User \cup {Nobody}
BY DEF Stages, StageSpecRow, SpecialistIds

LEMMA StagedResultsTyped ==
  ASSUME stage \in Stages, export \in SourceTables
  PROVE  StagedResults \subseteq ResultRow
<1>1. \A c : ClientIds(c) \subseteq User
  BY DEF Stages, StageClientRow, ClientIds
<1>2. \A x \in export.result : x.id \in Result
  BY DEF SourceTables
<1>3. QED
  BY <1>1, <1>2, SpecialistIdsTyped DEF StagedResults, ResultRow

LEMMA StagedAuthTyped ==
  ASSUME stage \in Stages
  PROVE  StagedAuth \subseteq AuthRow
BY DEF Stages, StageSpecRow, StageClientRow, StagedAuth, AuthRow, Address

LEMMA CommittedTyped ==
  ASSUME dev \in Tables, gone \in Tables, new \in Tables
  PROVE  Committed \in Tables
BY DEF Committed, Merged, Tables

LEMMA NothingTyped ==
  /\ NoSource \in SourceTables
  /\ NoTables \in Tables
  /\ NoStage \in Stages
  /\ NoUsers \in Users
BY DEF NoSource, NoTables, NoStage, NoUsers, SourceTables, Tables, Stages, Users

LEMMA TypeInit == RefreshInit => RefreshTypeOK
<1> SUFFICES ASSUME RefreshInit PROVE RefreshTypeOK
  OBVIOUS
<1>1. src \in SourceTables
  BY Zenon DEF RefreshInit
<1>2. since \in Marks
  BY NothingTyped DEF RefreshInit, Marks
<1>3. 0 \in 0 .. MaxChanges /\ 0 \in 0 .. MaxUsers /\ 0 \in 0 .. MaxRuns
  BY BoundAssumption
<1>4. QED
  BY <1>1, <1>2, <1>3, NothingTyped, Zenon DEF RefreshInit, RefreshTypeOK

LEMMA TypeNext ==
  ASSUME RefreshTypeOK, [RefreshNext]_refreshVars
  PROVE  RefreshTypeOK'
<1>1. changes \in 0 .. MaxChanges /\ users \in 0 .. MaxUsers /\ runs \in 0 .. MaxRuns
  BY Zenon DEF RefreshTypeOK
<1>2. /\ src \in SourceTables /\ export \in SourceTables /\ loaded \in SourceTables
      /\ dev \in Tables /\ gone \in Tables /\ new \in Tables
      /\ stage \in Stages /\ since \in Marks
  BY Zenon DEF RefreshTypeOK
<1>3. CASE SourceChanges
  <2>1. src' \in SourceTables
    BY <1>2, <1>3, SourceTyped
  <2>2. changes' \in 0 .. MaxChanges
    BY <1>1, <1>3, BoundAssumption DEF SourceChanges
  <2>3. QED
    BY <1>3, <2>1, <2>2, Zenon DEF SourceChanges, RefreshTypeOK, work
<1>4. ASSUME NEW m \in Mail, SignUp(m) PROVE RefreshTypeOK'
  <2>1. dev' \in Tables
    BY <1>2, <1>4, UserTypes DEF SignUp, Tables, AuthRow
  <2>2. users' \in 0 .. MaxUsers
    BY <1>1, <1>4, BoundAssumption DEF SignUp
  <2>3. QED
    BY <1>4, <2>1, <2>2, Zenon DEF SignUp, RefreshTypeOK, work
<1>5. ASSUME NEW x \in dev.auth, Enrol(x) PROVE RefreshTypeOK'
  <2>1. x.uid \in User /\ x.mail \in Address
    BY <1>2 DEF Tables, AuthRow, Address
  <2>2. dev' \in Tables
    BY <1>2, <1>5, <2>1 DEF Enrol, Tables, SpecRow, ClientRow
  <2>3. since' \in Marks
    BY <1>2, <1>5, <2>1 DEF Enrol, Marks, Users
  <2>4. users' \in 0 .. MaxUsers
    BY <1>1, <1>5, BoundAssumption DEF Enrol
  <2>5. QED
    BY <1>5, <2>2, <2>3, <2>4, Zenon DEF Enrol, RefreshTypeOK, work
<1>6. CASE Start
  <2>1. runs' \in 0 .. MaxRuns
    BY <1>1, <1>6, BoundAssumption DEF Start
  <2>2. QED
    BY <1>6, <2>1, Zenon DEF Start, RefreshTypeOK, work
<1>7. CASE ExportSpecialists
  <2>1. export' \in SourceTables
    BY <1>2, <1>7 DEF ExportSpecialists, SourceTables
  <2>2. QED
    BY <1>7, <2>1, Zenon DEF ExportSpecialists, RefreshTypeOK
<1>8. CASE ExportClients
  <2>1. export' \in SourceTables
    BY <1>2, <1>8 DEF ExportClients, SourceTables
  <2>2. QED
    BY <1>8, <2>1, Zenon DEF ExportClients, RefreshTypeOK
<1>9. CASE ExportResults
  <2>1. export' \in SourceTables
    BY <1>2, <1>9 DEF ExportResults, SourceTables
  <2>2. QED
    BY <1>9, <2>1, Zenon DEF ExportResults, RefreshTypeOK
<1>10. CASE StageSpecialists
  <2>1. \A x \in export.spec : x.id \in Specialist /\ x.mail \in Address
    BY <1>2 DEF SourceTables
  <2>2. \A x \in dev.spec : x.uid \in User
    BY <1>2 DEF Tables, SpecRow
  <2>3. \A x \in export.spec : UserIds(dev.spec, x.mail, x.id) \subseteq User
    BY <1>2, <2>1, <2>2, UserIdsTyped
  <2>4. StagedSpecialists \subseteq StageSpecRow
    BY <2>1, <2>3 DEF StagedSpecialists, StageSpecRow
  <2>5. stage' \in Stages
    BY <1>2, <1>10, <2>4 DEF StageSpecialists, Stages
  <2>6. QED
    BY <1>10, <2>5, Zenon DEF StageSpecialists, RefreshTypeOK
<1>11. CASE StageClients
  <2>1. \A x \in export.client : x.id \in Client /\ x.mail \in Address
    BY <1>2 DEF SourceTables
  <2>2. \A x \in dev.client : x.uid \in User
    BY <1>2 DEF Tables, ClientRow
  <2>3. \A x \in export.client : UserIds(dev.client, x.mail, x.id) \subseteq User
    BY <1>2, <2>1, <2>2, UserIdsTyped
  <2>4. StagedClients \subseteq StageClientRow
    BY <1>2, <2>1, <2>3, SpecialistIdsTyped DEF StagedClients, StageClientRow
  <2>5. stage' \in Stages
    BY <1>2, <1>11, <2>4 DEF StageClients, Stages
  <2>6. QED
    BY <1>11, <2>5, Zenon DEF StageClients, RefreshTypeOK
<1>12. CASE WriteAuth
  <2>1. new' \in Tables
    BY <1>2, <1>12, StagedAuthTyped DEF WriteAuth, Tables
  <2>2. QED
    BY <1>12, <2>1, Zenon DEF WriteAuth, RefreshTypeOK
<1>13. CASE Delete
  <2>1. gone' \in Tables
    BY <1>2, <1>13 DEF Delete, Tables
  <2>2. since' \in Marks
    BY <1>2, <1>13, NothingTyped DEF Delete, Marks
  <2>3. QED
    BY <1>13, <2>1, <2>2, Zenon DEF Delete, RefreshTypeOK
<1>14. CASE Insert
  <2>1. {[uid |-> x.uid, mail |-> x.mail] : x \in stage.spec} \subseteq SpecRow
    BY <1>2 DEF Stages, StageSpecRow, SpecRow
  <2>2. {[uid |-> x.uid, mail |-> x.mail, spec |-> x.spec] : x \in stage.client} \subseteq ClientRow
    BY <1>2 DEF Stages, StageClientRow, ClientRow
  <2>3. new' \in Tables
    BY <1>2, <1>14, <2>1, <2>2, StagedResultsTyped DEF Insert, Tables
  <2>4. QED
    BY <1>14, <2>3, Zenon DEF Insert, RefreshTypeOK
<1>15. CASE Finish \/ Fail
  <2>1. PICK r \in {"ok", "error"} : End(r)
    BY <1>15, Zenon DEF Finish, Fail
  <2>2. /\ dev' \in Tables
        /\ loaded' \in SourceTables
        /\ since' \in Marks
    <3>1. CASE Commit
      BY <1>2, <3>1, CommittedTyped DEF Commit, Marks
    <3>2. CASE UNCHANGED <<dev, loaded, since>>
      BY <1>2, <3>2
    <3>3. QED
      BY <1>15, <3>1, <3>2, Zenon DEF Finish, Fail
  <2>3. UNCHANGED <<src, changes, users, apply, runs>>
    BY <1>15, Zenon DEF Finish, Fail
  <2>4. QED
    BY <2>1, <2>2, <2>3, NothingTyped, Zenon DEF End, RefreshTypeOK
<1>16. CASE UNCHANGED refreshVars
  BY <1>16, Zenon DEF refreshVars, RefreshTypeOK
<1>17. QED
  BY <1>3, <1>4, <1>5, <1>6, <1>7, <1>8, <1>9, <1>10, <1>11, <1>12, <1>13, <1>14, <1>15, <1>16,
     Zenon
     DEF RefreshNext, Transaction

\* Type correctness for any rows, mails and bounds.
THEOREM RefreshTypeCorrect == RefreshSpec => []RefreshTypeOK
BY TypeInit, TypeNext, PTL DEF RefreshSpec

-----------------------------------------------------------------------------
(* Ids and mails *)

\* The ids that a user with mail m can have.
IdsOf(m) ==
  IF m = NoMail THEN {Prod(i) : i \in Specialist \cup Client} ELSE {Minted(m), SignedUp(m)}

Own(rows) == \A x \in rows : x.uid \in IdsOf(x.mail)

LEMMA IdTellsMail ==
  ASSUME NEW m, NEW n, NEW u, u \in IdsOf(m), u \in IdsOf(n)
  PROVE  m = n
BY DEF IdsOf, Prod, Minted, SignedUp

LEMMA UserIdsOwn ==
  ASSUME NEW rows, Own(rows), Own(dev.auth), NEW m, NEW i \in Specialist \cup Client
  PROVE  UserIds(rows, m, i) \subseteq IdsOf(m)
<1>1. Named(rows, m) \subseteq IdsOf(m) /\ Named(dev.auth, m) \subseteq IdsOf(m)
  BY DEF Named, Own
<1>2. CASE m = NoMail
  BY <1>2 DEF UserIds, IdsOf
<1>3. CASE m # NoMail
  BY <1>1, <1>3 DEF UserIds, IdsOf
<1>4. QED
  BY <1>2, <1>3

-----------------------------------------------------------------------------
(* The inductive invariant *)

Ids ==
  /\ Own(dev.auth) /\ Own(dev.spec) /\ Own(dev.client)
  /\ Own(stage.spec) /\ Own(stage.client)
  /\ Own(new.auth) /\ Own(new.spec) /\ Own(new.client)

Loading == {"insert", "finish"}
Writing == {"delete"} \cup Loading

\* What the transaction has not come to is empty.
Control ==
  /\ phase \notin Writing \cup {"auth"} => stage.client = {}
  /\ phase \notin Writing => new.auth = {}
  /\ phase # "finish" => new.spec = {} /\ new.client = {} /\ new.result = {}

OneMail(rows) == \A x, y \in rows : x.mail = y.mail => x = y

\* With the users that the transaction has written, too, a mail has one user.
OneUser == OneMail(dev.auth \cup new.auth)

CanLogIn(rows, auth) ==
  \A x \in rows : x.mail # NoMail => [uid |-> x.uid, mail |-> x.mail] \in auth

LogIns ==
  /\ CanLogIn(dev.spec, dev.auth) /\ CanLogIn(dev.client, dev.auth)
  /\ CanLogIn(new.spec, new.auth) /\ CanLogIn(new.client, new.auth)
  /\ phase \in Writing => CanLogIn(stage.spec, new.auth) /\ CanLogIn(stage.client, new.auth)

Seen(rows, specialists) ==
  \A x \in rows : x.spec = Nobody \/ \E y \in specialists : y.uid = x.spec
Owned(rows, clients) == \A x \in rows : \E y \in clients : y.uid = x.client

\* References are to rows of dev, or of the transaction; rows that outlive the
\* delete have none.
Refs ==
  /\ Seen(dev.client, dev.spec) /\ Seen(dev.result, dev.spec) /\ Owned(dev.result, dev.client)
  /\ Seen(stage.client, stage.spec)
  /\ Seen(new.client, new.spec) /\ Seen(new.result, new.spec) /\ Owned(new.result, new.client)
  /\ phase \in Loading =>
       /\ \A x \in dev.client \ gone.client : x.spec = Nobody
       /\ dev.result \subseteq gone.result

Inv == Ids /\ Control /\ OneUser /\ LogIns /\ Refs

LEMMA InvInit == RefreshInit => Inv
BY DEF RefreshInit, Inv, Ids, Own, Control, Loading, Writing, OneUser, OneMail, LogIns, CanLogIn, Refs, Seen,
       Owned, NoTables, NoStage

\* The upsert adds users and changes none: two rows with one id have one mail.
LEMMA MergedAdds ==
  ASSUME NEW rows, Own(rows), Own(dev.auth), rows \subseteq AuthRow, dev.auth \subseteq AuthRow,
         \/ OneMail(dev.auth \cup rows)
         \/ \A x, y \in Merged(rows) : x.mail = y.mail \/ x.uid = y.uid => x = y
  PROVE  Merged(rows) = dev.auth \cup rows
<1>1. ASSUME NEW x \in dev.auth, NEW y \in rows, x.uid = y.uid
      PROVE  x = y
  <2>1. x.mail = y.mail
    BY <1>1, IdTellsMail DEF Own
  <2>2. QED
    BY <1>1, <2>1 DEF AuthRow
<1>2. QED
  BY <1>1 DEF Merged

-----------------------------------------------------------------------------
(* Steps *)

\* Steps outside of the database of dev.
LEMMA RefreshQuietStep ==
  ASSUME Inv, UNCHANGED <<dev, stage, gone, new>>,
         \/ phase' = phase
         \/ phase \notin Writing \cup {"auth"} /\ phase' \notin Writing \cup {"auth"}
  PROVE  Inv'
BY DEF Inv, Ids, Own, Control, Loading, Writing, OneUser, OneMail, LogIns, CanLogIn, Refs, Seen, Owned

LEMMA SignUpStep ==
  ASSUME Inv, dev \in Tables, NEW m \in Mail, SignUp(m)
  PROVE  Inv'
<1> DEFINE row == [uid |-> SignedUp(m), mail |-> m]
<1>1. /\ dev'.auth = dev.auth \cup {row}
      /\ UNCHANGED <<dev.spec, dev.client, dev.result, stage, gone, new, phase>>
  BY DEF SignUp, Tables, work
<1>2. Ids'
  <2>1. row.uid \in IdsOf(row.mail)
    BY NoMailAssumption DEF IdsOf
  <2>2. Own(dev.auth \cup {row})
    BY <2>1, Zenon DEF Inv, Ids, Own
  <2>3. QED
    BY <1>1, <2>2 DEF Inv, Ids, Own
<1>3. \A x \in dev.auth \cup new.auth : x.mail # m
  BY DEF SignUp
<1>4. OneUser'
  BY <1>1, <1>3 DEF Inv, OneUser, OneMail
<1>5. Control' /\ LogIns' /\ Refs'
  BY <1>1 DEF Inv, Control, Loading, Writing, LogIns, CanLogIn, Refs, Seen, Owned
<1>6. QED
  BY <1>2, <1>4, <1>5 DEF Inv

LEMMA EnrolStep ==
  ASSUME Inv, dev \in Tables, NEW x \in dev.auth, Enrol(x)
  PROVE  Inv'
<1>1. UNCHANGED <<dev.auth, dev.result, stage, gone, new, phase>>
  BY DEF Enrol, Tables, work
<1>2. x = [uid |-> x.uid, mail |-> x.mail]
  BY DEF Tables, AuthRow
<1>3. x.uid \in IdsOf(x.mail)
  BY DEF Inv, Ids, Own
<1>4. CASE dev' = [dev EXCEPT !.client =
                     @ \cup {[uid |-> x.uid, mail |-> x.mail, spec |-> Nobody]}]
  <2>1. /\ dev'.client = dev.client \cup {[uid |-> x.uid, mail |-> x.mail, spec |-> Nobody]}
        /\ dev'.spec = dev.spec
    BY <1>4 DEF Tables
  <2>2. Ids' /\ Control' /\ OneUser'
    BY <1>1, <1>3, <2>1 DEF Inv, Ids, Own, Control, Loading, Writing, OneUser, OneMail
  <2>3. LogIns'
    BY <1>1, <1>2, <2>1 DEF Inv, LogIns, CanLogIn
  <2>4. Refs'
    BY <1>1, <2>1 DEF Inv, Refs, Seen, Owned, Loading
  <2>5. QED
    BY <2>2, <2>3, <2>4 DEF Inv
<1>5. CASE dev' = [dev EXCEPT !.spec = @ \cup {[uid |-> x.uid, mail |-> x.mail]}]
  <2>1. /\ dev'.spec = dev.spec \cup {[uid |-> x.uid, mail |-> x.mail]}
        /\ dev'.client = dev.client
    BY <1>5 DEF Tables
  <2>2. Ids' /\ Control' /\ OneUser'
    BY <1>1, <1>3, <2>1 DEF Inv, Ids, Own, Control, Loading, Writing, OneUser, OneMail
  <2>3. LogIns'
    BY <1>1, <1>2, <2>1 DEF Inv, LogIns, CanLogIn
  <2>4. Refs'
    BY <1>1, <2>1 DEF Inv, Refs, Seen, Owned, Loading
  <2>5. QED
    BY <2>2, <2>3, <2>4 DEF Inv
<1>6. QED
  BY <1>4, <1>5, Zenon DEF Enrol

LEMMA StageSpecialistsStep ==
  ASSUME Inv, stage \in Stages, export \in SourceTables, StageSpecialists
  PROVE  Inv'
<1>1. /\ stage'.spec = StagedSpecialists /\ stage'.client = {}
      /\ phase = "stage specialists" /\ phase' = "stage clients"
      /\ UNCHANGED <<dev, gone, new>>
  BY DEF StageSpecialists, Stages, Inv, Control, Writing, Loading
<1>2. \A x \in export.spec : UserIds(dev.spec, x.mail, x.id) \subseteq IdsOf(x.mail)
  BY UserIdsOwn DEF Inv, Ids, SourceTables
<1>3. Own(StagedSpecialists)
  BY <1>2 DEF StagedSpecialists, Own
<1>4. Ids'
  BY <1>1, <1>3 DEF Inv, Ids, Own
<1>5. Control' /\ OneUser' /\ LogIns' /\ Refs'
  BY <1>1 DEF Inv, Control, Loading, Writing, OneUser, OneMail, LogIns, CanLogIn, Refs, Seen, Owned
<1>6. QED
  BY <1>4, <1>5 DEF Inv

LEMMA SpecialistIdsStaged ==
  ASSUME NEW s, NEW u \in SpecialistIds(s)
  PROVE  u = Nobody \/ \E y \in stage.spec : y.uid = u
BY DEF SpecialistIds

LEMMA StageClientsStep ==
  ASSUME Inv, stage \in Stages, export \in SourceTables, StageClients
  PROVE  Inv'
<1>1. /\ stage'.client = StagedClients /\ stage'.spec = stage.spec
      /\ phase = "stage clients" /\ phase' = "auth"
      /\ UNCHANGED <<dev, gone, new>>
  BY DEF StageClients, Stages
<1>2. \A x \in export.client : UserIds(dev.client, x.mail, x.id) \subseteq IdsOf(x.mail)
  BY UserIdsOwn DEF Inv, Ids, SourceTables
<1>3. Own(StagedClients)
  BY <1>2 DEF StagedClients, Own
<1>4. Seen(StagedClients, stage.spec)
  BY SpecialistIdsStaged DEF StagedClients, Seen
<1>5. Ids'
  BY <1>1, <1>3 DEF Inv, Ids, Own
<1>6. Refs'
  BY <1>1, <1>4 DEF Inv, Refs, Seen, Owned, Loading
<1>7. Control' /\ OneUser' /\ LogIns'
  BY <1>1 DEF Inv, Control, Loading, Writing, OneUser, OneMail, LogIns, CanLogIn
<1>8. QED
  BY <1>5, <1>6, <1>7 DEF Inv

LEMMA StagedAuthLogsIn ==
  ASSUME Own(stage.spec), Own(stage.client)
  PROVE  /\ Own(StagedAuth)
         /\ CanLogIn(stage.spec, StagedAuth)
         /\ CanLogIn(stage.client, StagedAuth)
<1>1. Own(StagedAuth)
  BY DEF StagedAuth, Own
<1>2. CanLogIn(stage.client, StagedAuth)
  BY DEF StagedAuth, CanLogIn
<1>3. ASSUME NEW x \in stage.spec, x.mail # NoMail
      PROVE  [uid |-> x.uid, mail |-> x.mail] \in StagedAuth
  <2>1. CASE \E y \in stage.client : y.mail # NoMail /\ y.uid = x.uid
    <3>1. PICK y \in stage.client : y.mail # NoMail /\ y.uid = x.uid
      BY <2>1
    <3>2. y.mail = x.mail
      BY <3>1, IdTellsMail DEF Own
    <3>3. QED
      BY <3>1, <3>2, <1>2 DEF CanLogIn
  <2>2. CASE ~ \E y \in stage.client : y.mail # NoMail /\ y.uid = x.uid
    BY <1>3, <2>2 DEF StagedAuth
  <2>3. QED
    BY <2>1, <2>2
<1>4. QED
  BY <1>1, <1>2, <1>3 DEF CanLogIn

LEMMA WriteAuthStep ==
  ASSUME Inv, dev \in Tables, stage \in Stages, new \in Tables, WriteAuth
  PROVE  Inv'
<1>1. /\ new'.auth = StagedAuth /\ new'.spec = {} /\ new'.client = {} /\ new'.result = {}
      /\ phase = "auth" /\ phase' = "delete"
      /\ UNCHANGED <<dev, stage, gone>>
  BY DEF WriteAuth, Tables, Inv, Control
<1>2. Own(StagedAuth) /\ CanLogIn(stage.spec, StagedAuth) /\ CanLogIn(stage.client, StagedAuth)
  BY StagedAuthLogsIn DEF Inv, Ids
<1>3. \A x, y \in Merged(StagedAuth) : x.mail = y.mail \/ x.uid = y.uid => x = y
  BY Zenon DEF WriteAuth
<1>4. Own(dev.auth) /\ StagedAuth \subseteq AuthRow /\ dev.auth \subseteq AuthRow
  BY StagedAuthTyped DEF Inv, Ids, Tables
<1>5. Merged(StagedAuth) = dev.auth \cup StagedAuth
  BY <1>2, <1>3, <1>4, MergedAdds
<1>6. OneUser'
  BY <1>1, <1>3, <1>5 DEF OneUser, OneMail
<1>7. Ids'
  BY <1>1, <1>2 DEF Inv, Ids, Own
<1>8. LogIns'
  BY <1>1, <1>2 DEF Inv, LogIns, CanLogIn
<1>9. Control' /\ Refs'
  BY <1>1 DEF Inv, Control, Writing, Loading, Refs, Seen, Owned
<1>10. QED
  BY <1>6, <1>7, <1>8, <1>9 DEF Inv

LEMMA DeleteStep ==
  ASSUME Inv, dev \in Tables, Delete
  PROVE  Inv'
<1>1. /\ gone'.client = dev.client /\ gone'.result = dev.result
      /\ phase = "delete" /\ phase' = "insert"
      /\ UNCHANGED <<dev, stage, new>>
  BY DEF Delete, Tables
<1>2. Refs'
  BY <1>1 DEF Inv, Refs, Seen, Owned, Loading
<1>3. Ids' /\ Control' /\ OneUser' /\ LogIns'
  BY <1>1 DEF Inv, Ids, Own, Control, Writing, Loading, OneUser, OneMail, LogIns, CanLogIn
<1>4. QED
  BY <1>2, <1>3 DEF Inv

LEMMA InsertStep ==
  ASSUME Inv, new \in Tables, Insert
  PROVE  Inv'
<1> DEFINE spec   == {[uid |-> x.uid, mail |-> x.mail] : x \in stage.spec}
           client == {[uid |-> x.uid, mail |-> x.mail, spec |-> x.spec] : x \in stage.client}
<1>1. /\ new'.auth = new.auth /\ new'.spec = spec /\ new'.client = client
      /\ new'.result = StagedResults
      /\ phase = "insert" /\ phase' = "finish"
      /\ UNCHANGED <<dev, stage, gone>>
  BY DEF Insert, Tables
<1>2. Own(spec) /\ Own(client)
  BY DEF Inv, Ids, Own
<1>3. CanLogIn(spec, new.auth) /\ CanLogIn(client, new.auth)
  BY <1>1 DEF Inv, LogIns, CanLogIn, Writing, Loading
<1>4. ASSUME NEW z \in stage.spec PROVE \E y \in spec : y.uid = z.uid
  <2>1. [uid |-> z.uid, mail |-> z.mail] \in spec
    OBVIOUS
  <2>2. QED
    BY <2>1
<1>5. ASSUME NEW z \in stage.client PROVE \E y \in client : y.uid = z.uid
  <2>1. [uid |-> z.uid, mail |-> z.mail, spec |-> z.spec] \in client
    OBVIOUS
  <2>2. QED
    BY <2>1
<1>6. Seen(client, spec)
  <2>1. ASSUME NEW z \in stage.client, z.spec # Nobody
        PROVE  \E y \in spec : y.uid = z.spec
    BY <1>4, <2>1 DEF Inv, Refs, Seen
  <2>2. QED
    BY <2>1 DEF Seen
<1>7. Seen(StagedResults, spec) /\ Owned(StagedResults, client)
  <2>1. ASSUME NEW c, NEW u \in ClientIds(c) PROVE \E y \in client : y.uid = u
    <3>1. PICK z \in stage.client : z.uid = u
      BY <2>1 DEF ClientIds
    <3>2. QED
      BY <1>5, <3>1
  <2>2. ASSUME NEW s, NEW u \in SpecialistIds(s)
        PROVE  u = Nobody \/ \E y \in spec : y.uid = u
    BY <1>4, <2>2, SpecialistIdsStaged
  <2>3. \A z \in StagedResults :
          (\E c : z.client \in ClientIds(c)) /\ (\E s : z.spec \in SpecialistIds(s))
    BY DEF StagedResults
  <2>4. QED
    BY <2>1, <2>2, <2>3, Zenon DEF Seen, Owned
<1>8. Ids'
  BY <1>1, <1>2 DEF Inv, Ids, Own
<1>9. LogIns'
  BY <1>1, <1>3 DEF Inv, LogIns, CanLogIn, Writing, Loading
<1>10. Refs'
  BY <1>1, <1>6, <1>7 DEF Inv, Refs, Seen, Owned, Loading
<1>11. Control' /\ OneUser'
  BY <1>1 DEF Inv, Control, Writing, Loading, OneUser, OneMail
<1>12. QED
  BY <1>8, <1>9, <1>10, <1>11 DEF Inv

\* A run that ends without a commit.
LEMMA EndStep ==
  ASSUME Inv, NEW r, End(r), UNCHANGED dev
  PROVE  Inv'
<1>1. /\ stage' = NoStage /\ gone' = NoTables /\ new' = NoTables
      /\ phase' = "idle" /\ dev' = dev
  BY DEF End
<1>2. QED
  BY <1>1 DEF Inv, Ids, Own, Control, Writing, Loading, OneUser, OneMail, LogIns, CanLogIn,
       Refs, Seen, Owned, NoStage, NoTables

LEMMA CommitAdds ==
  ASSUME Inv, dev \in Tables, new \in Tables
  PROVE  Committed.auth = dev.auth \cup new.auth
<1>1. Merged(new.auth) = dev.auth \cup new.auth
  BY MergedAdds DEF Inv, Ids, OneUser, Tables
<1>2. QED
  BY <1>1 DEF Committed

LEMMA CommitStep ==
  ASSUME Inv, dev \in Tables, new \in Tables, phase = "finish", NEW r, End(r), Commit
  PROVE  Inv'
<1>1. /\ stage'.spec = {} /\ stage'.client = {}
      /\ new'.auth = {} /\ new'.spec = {} /\ new'.client = {} /\ new'.result = {}
      /\ phase' = "idle"
  BY DEF End, NoStage, NoTables
<1>2. /\ dev'.auth = dev.auth \cup new.auth
      /\ dev'.spec = (dev.spec \ gone.spec) \cup new.spec
      /\ dev'.client = (dev.client \ gone.client) \cup new.client
      /\ dev'.result = (dev.result \ gone.result) \cup new.result
  BY CommitAdds DEF Commit, Committed
<1>3. Ids'
  BY <1>1, <1>2 DEF Inv, Ids, Own
<1>4. OneUser'
  BY <1>1, <1>2 DEF Inv, OneUser, OneMail
<1>5. LogIns'
  BY <1>1, <1>2 DEF Inv, LogIns, CanLogIn, Writing, Loading
<1>6. Refs'
  <2>1. /\ \A x \in dev.client \ gone.client : x.spec = Nobody
        /\ dev.result \subseteq gone.result
    BY DEF Inv, Refs, Loading
  <2>2. dev'.result = new.result
    BY <1>2, <2>1
  <2>3. Seen(dev'.client, dev'.spec)
    BY <1>2, <2>1 DEF Inv, Refs, Seen
  <2>4. Seen(dev'.result, dev'.spec) /\ Owned(dev'.result, dev'.client)
    BY <1>2, <2>2 DEF Inv, Refs, Seen, Owned
  <2>5. QED
    BY <1>1, <2>3, <2>4 DEF Refs, Seen, Owned, Loading
<1>7. Control'
  BY <1>1 DEF Control, Writing, Loading
<1>8. QED
  BY <1>3, <1>4, <1>5, <1>6, <1>7 DEF Inv

LEMMA InvNext ==
  ASSUME RefreshTypeOK, Inv, [RefreshNext]_refreshVars
  PROVE  Inv'
<1>1. /\ export \in SourceTables /\ dev \in Tables /\ new \in Tables /\ stage \in Stages
  BY Zenon DEF RefreshTypeOK
<1>2. CASE SourceChanges
  BY <1>2, RefreshQuietStep DEF SourceChanges, work
<1>3. ASSUME NEW m \in Mail, SignUp(m) PROVE Inv'
  BY <1>1, <1>3, SignUpStep
<1>4. ASSUME NEW x \in dev.auth, Enrol(x) PROVE Inv'
  BY <1>1, <1>4, EnrolStep
<1>5. CASE Start
  BY <1>5, RefreshQuietStep DEF Start, work, Writing, Loading
<1>6. CASE ExportSpecialists
  BY <1>6, RefreshQuietStep DEF ExportSpecialists, Writing, Loading
<1>7. CASE ExportClients
  BY <1>7, RefreshQuietStep DEF ExportClients, Writing, Loading
<1>8. CASE ExportResults
  BY <1>8, RefreshQuietStep DEF ExportResults, Writing, Loading
<1>9. CASE StageSpecialists
  BY <1>1, <1>9, StageSpecialistsStep
<1>10. CASE StageClients
  BY <1>1, <1>10, StageClientsStep
<1>11. CASE WriteAuth
  BY <1>1, <1>11, WriteAuthStep
<1>12. CASE Delete
  BY <1>1, <1>12, DeleteStep
<1>13. CASE Insert
  BY <1>1, <1>13, InsertStep
<1>14. CASE Finish
  BY <1>1, <1>14, EndStep, CommitStep, Zenon DEF Finish
<1>15. CASE Fail
  BY <1>1, <1>15, EndStep, CommitStep, Zenon DEF Fail
<1>16. CASE UNCHANGED refreshVars
  BY <1>16, RefreshQuietStep DEF refreshVars
<1>17. QED
  BY <1>2, <1>3, <1>4, <1>5, <1>6, <1>7, <1>8, <1>9, <1>10, <1>11, <1>12, <1>13, <1>14, <1>15,
     <1>16, Zenon
     DEF RefreshNext, Transaction

THEOREM Invariant == RefreshSpec => [](RefreshTypeOK /\ Inv)
<1>1. RefreshInit => RefreshTypeOK /\ Inv
  BY TypeInit, InvInit
<1>2. RefreshTypeOK /\ Inv /\ [RefreshNext]_refreshVars => (RefreshTypeOK /\ Inv)'
  BY TypeNext, InvNext
<1>3. QED
  BY <1>1, <1>2, PTL DEF RefreshSpec

-----------------------------------------------------------------------------
(* What a refresh promises *)

\* References of dev are whole and every mailed row has its auth user, after
\* any runs and whatever users do meanwhile.
THEOREM ReferencesWhole == RefreshSpec => []References
<1>1. RefreshTypeOK /\ Inv => References
  BY Zenon DEF Inv, Refs, Seen, Owned, LogIns, CanLogIn, References
<1>2. QED
  BY <1>1, Invariant, PTL

\* No mail is split over two users.
THEOREM MailsUnsplit == RefreshSpec => []OneUserPerMail
<1>1. ASSUME Inv, dev \in Tables PROVE OneUserPerMail
  <2>1. ASSUME NEW x \in dev.auth \cup dev.spec \cup dev.client, x.mail # NoMail
        PROVE  [uid |-> x.uid, mail |-> x.mail] \in dev.auth
    <3>1. x \in dev.auth => x = [uid |-> x.uid, mail |-> x.mail]
      BY <1>1 DEF Tables, AuthRow
    <3>2. QED
      BY <1>1, <2>1, <3>1 DEF Inv, LogIns, CanLogIn
  <2>2. \A a, b \in dev.auth : a.mail = b.mail => a = b
    BY <1>1 DEF Inv, OneUser, OneMail
  <2>3. ASSUME NEW x \in dev.auth \cup dev.spec \cup dev.client,
               NEW y \in dev.auth \cup dev.spec \cup dev.client,
               x.mail = y.mail, x.mail # NoMail
        PROVE  x.uid = y.uid
    <3>1. [uid |-> x.uid, mail |-> x.mail] = [uid |-> y.uid, mail |-> y.mail]
      BY <2>1, <2>2, <2>3
    <3>2. QED
      BY <3>1
  <2>4. QED
    BY <2>3, Zenon DEF OneUserPerMail
<1>2. RefreshTypeOK /\ Inv => OneUserPerMail
  BY <1>1, Zenon DEF RefreshTypeOK
<1>3. QED
  BY <1>2, Invariant, PTL

\* No step removes or changes a user of auth.
THEOREM IdsStable == RefreshSpec => StableIds
<1>1. ASSUME RefreshTypeOK, Inv, [RefreshNext]_refreshVars PROVE dev.auth \subseteq dev'.auth
  <2>1. dev \in Tables /\ new \in Tables
    BY <1>1, Zenon DEF RefreshTypeOK
  <2>2. CASE dev' = dev
    BY <2>2
  <2>3. ASSUME NEW m \in Mail, SignUp(m) PROVE dev.auth \subseteq dev'.auth
    BY <2>1, <2>3 DEF SignUp, Tables
  <2>4. ASSUME NEW x \in dev.auth, Enrol(x) PROVE dev.auth \subseteq dev'.auth
    BY <2>1, <2>4 DEF Enrol, Tables
  <2>5. CASE Commit
    BY <1>1, <2>1, <2>5, CommitAdds DEF Commit
  <2>6. CASE SourceChanges \/ Start \/ ExportSpecialists \/ ExportClients \/ ExportResults
    BY <2>2, <2>6, Zenon
       DEF SourceChanges, Start, ExportSpecialists, ExportClients, ExportResults
  <2>7. CASE Transaction \/ Fail
    BY <2>2, <2>5, <2>7, Zenon
       DEF Transaction, StageSpecialists, StageClients, WriteAuth, Delete, Insert, Finish, Fail
  <2>8. CASE UNCHANGED refreshVars
    BY <2>2, <2>8, Zenon DEF refreshVars
  <2>9. QED
    BY <1>1, <2>3, <2>4, <2>6, <2>7, <2>8, Zenon DEF RefreshNext
<1>2. RefreshTypeOK /\ Inv /\ [RefreshNext]_refreshVars => [dev.auth \subseteq dev'.auth]_refreshVars
  BY <1>1
<1>3. QED
  BY <1>2, Invariant, PTL DEF RefreshSpec, StableIds

\* The refresh leaves the users of dev whole, whatever users of dev and of
\* production do meanwhile.
THEOREM UsersAreWhole == RefreshSpec => []UsersWhole
<1>1. References /\ OneUserPerMail => UsersWhole
  BY DEF UsersWhole
<1> QED
  BY <1>1, ReferencesWhole, MailsUnsplit, PTL
-----------------------------------------------------------------------------
(* What was exported is loaded *)

\* Rows of specialists or clients hold those of the export: each by its mail,
\* or by its id in production if it has none.
Holds(rows, from) ==
  \A y \in from : \E x \in rows : x.mail = y.mail /\ (y.mail = NoMail => x.uid = Prod(y.id))

\* They come from the export, but for those of users in own.
From(rows, from, own) ==
  \A x \in rows : x.uid \in own \/ \E y \in from : y.mail = x.mail

\* SameSpecialist, for any specialists and export.
Same(u, s, specs, from) ==
  LET named == {y \in from : y.id = s /\ y.mail # NoMail}
  IN  IF named = {} THEN u = Nobody
      ELSE \E x \in specs, y \in named : x.uid = u /\ x.mail = y.mail

HoldsClients(clients, specs, ex) ==
  \A y \in ex.client : \E x \in clients :
    /\ x.mail = y.mail /\ (y.mail = NoMail => x.uid = Prod(y.id))
    /\ Same(x.spec, y.spec, specs, ex.spec)

\* MailOf, for any export.
TheMail(c, from) == (CHOOSE x \in from : x.id = c).mail

Owners(results, clients, ex) ==
  \A x \in results : \E r \in ex.result, y \in clients :
    r.id = x.id /\ y.uid = x.client /\ y.mail # NoMail /\ y.mail = TheMail(r.client, ex.client)

HoldsResults(results, specs, ex) ==
  \A y \in ex.result :
    Has(ex.client, y.client) /\ TheMail(y.client, ex.client) # NoMail =>
      \E x \in results : x.id = y.id /\ Same(x.spec, y.spec, specs, ex.spec)

\* LoadTrue, for any tables, export and users of dev.
Loaded(specs, clients, results, ex, ownS, ownC) ==
  /\ Holds(specs, ex.spec) /\ From(specs, ex.spec, ownS)
  /\ HoldsClients(clients, specs, ex) /\ From(clients, ex.client, ownC)
  /\ HoldsResults(results, specs, ex) /\ Owners(results, clients, ex)

LEMMA LoadTrueIsLoaded ==
  Loaded(dev.spec, dev.client, dev.result, loaded, since.load.spec, since.load.client) => LoadTrue
BY DEF Loaded, Holds, From, HoldsClients, HoldsResults, Owners, Same, TheMail,
       LoadTrue, LoadsExported, ResultsOwner, SameSpecialist, MailOf

\* Rows that users of dev add do no harm.
LEMMA LoadedMore ==
  ASSUME NEW specs, NEW more, NEW clients, NEW many, NEW results, NEW ex,
         NEW ownS, NEW outS, NEW ownC, NEW outC,
         Loaded(specs, clients, results, ex, ownS, ownC),
         specs \subseteq more, clients \subseteq many, ownS \subseteq outS, ownC \subseteq outC,
         \A x \in more \ specs : x.uid \in outS,
         \A x \in many \ clients : x.uid \in outC
  PROVE  Loaded(more, many, results, ex, outS, outC)
<1>1. \A u, s : Same(u, s, specs, ex.spec) => Same(u, s, more, ex.spec)
  BY DEF Same
<1>2. Holds(more, ex.spec) /\ From(more, ex.spec, outS)
  BY DEF Loaded, Holds, From
<1>3. HoldsClients(many, more, ex) /\ From(many, ex.client, outC)
  BY <1>1 DEF Loaded, HoldsClients, From
<1>4. HoldsResults(results, more, ex) /\ Owners(results, many, ex)
  BY <1>1 DEF Loaded, HoldsResults, Owners
<1> QED
  BY <1>2, <1>3, <1>4 DEF Loaded

Unique(rows) == \A x, y \in rows : x.id = y.id => x = y

\* The stages hold what was exported, the rows that outlive the delete were
\* added by users since, and what the transaction has written is a load.
LoadInv ==
  /\ Consistent(src)
  /\ Unique(export.client)
  /\ Loaded(dev.spec, dev.client, dev.result, loaded, since.load.spec, since.load.client)
  /\ phase \in {"stage clients", "auth"} \cup Writing =>
       Holds(stage.spec, export.spec) /\ From(stage.spec, export.spec, {})
  /\ phase \in {"auth"} \cup Writing =>
       HoldsClients(stage.client, stage.spec, export) /\ From(stage.client, export.client, {})
  /\ phase \in Loading =>
       /\ \A x \in dev.spec \ gone.spec : x.uid \in since.run.spec
       /\ \A x \in dev.client \ gone.client : x.uid \in since.run.client
  /\ phase = "finish" => Loaded(new.spec, new.client, new.result, export, {}, {})

LEMMA LoadInit == RefreshInit => LoadInv
<1> SUFFICES ASSUME RefreshInit PROVE LoadInv
  OBVIOUS
<1>1. Consistent(src)
  BY DEF RefreshInit
<1>2. /\ export = NoSource /\ dev = NoTables /\ loaded = NoSource /\ phase = "idle"
  BY DEF RefreshInit
<1>3. Loaded(dev.spec, dev.client, dev.result, loaded, since.load.spec, since.load.client)
  BY <1>2 DEF NoSource, NoTables, Loaded, Holds, From, HoldsClients, HoldsResults, Owners
<1>4. Unique(export.client)
  BY <1>2 DEF Unique, NoSource
<1> QED
  BY <1>1, <1>2, <1>3, <1>4 DEF LoadInv, Writing, Loading

\* There is an id for every row, for one without a mail that of production.
LEMMA UserIdsSome ==
  ASSUME NEW rows, NEW m, NEW i
  PROVE  UserIds(rows, m, i) # {} /\ (m = NoMail => UserIds(rows, m, i) = {Prod(i)})
BY DEF UserIds

\* The specialists staged for one of the export.
LEMMA SpecialistIdsSame ==
  ASSUME Holds(stage.spec, export.spec), NEW s
  PROVE  /\ SpecialistIds(s) # {}
         /\ \A u \in SpecialistIds(s) : Same(u, s, stage.spec, export.spec)
<1> DEFINE named == {y \in export.spec : y.id = s /\ y.mail # NoMail}
           found == {x \in stage.spec :
                       /\ x.mail # NoMail
                       /\ \E y \in export.spec : y.id = s /\ y.mail = x.mail}
<1>1. SpecialistIds(s) = IF {x.uid : x \in found} = {} THEN {Nobody} ELSE {x.uid : x \in found}
  BY DEF SpecialistIds
<1>2. CASE named = {}
  <2>1. found = {}
    BY <1>2
  <2>2. SpecialistIds(s) = {Nobody}
    BY <1>1, <2>1
  <2> QED
    BY <1>2, <2>2 DEF Same
<1>3. CASE named # {}
  <2>1. PICK y \in named : TRUE
    BY <1>3
  <2>2. PICK x \in stage.spec : x.mail = y.mail
    BY <2>1 DEF Holds
  <2>3. x \in found
    BY <2>1, <2>2
  <2>4. {z.uid : z \in found} # {}
    BY <2>3
  <2>5. SpecialistIds(s) = {z.uid : z \in found}
    BY <1>1, <2>4
  <2>6. ASSUME NEW z \in found PROVE Same(z.uid, s, stage.spec, export.spec)
    <3>1. PICK w \in export.spec : w.id = s /\ w.mail = z.mail
      BY <2>6
    <3>2. w \in named /\ z \in stage.spec
      BY <2>6, <3>1
    <3> QED
      BY <1>3, <3>1, <3>2 DEF Same
  <2> QED
    BY <2>4, <2>5, <2>6
<1> QED
  BY <1>2, <1>3

\* A staged row for every row of the export, and none besides.
LEMMA SpecialistsStaged ==
  Holds(StagedSpecialists, export.spec) /\ From(StagedSpecialists, export.spec, {})
<1>1. ASSUME NEW y \in export.spec
      PROVE  \E x \in StagedSpecialists :
               x.mail = y.mail /\ (y.mail = NoMail => x.uid = Prod(y.id))
  <2>1. PICK u \in UserIds(dev.spec, y.mail, y.id) : TRUE
    BY UserIdsSome
  <2>2. y.mail = NoMail => u = Prod(y.id)
    BY <2>1, UserIdsSome
  <2>3. [from |-> y.id, uid |-> u, mail |-> y.mail] \in StagedSpecialists
    BY <2>1 DEF StagedSpecialists
  <2> QED
    BY <2>2, <2>3
<1>2. \A x \in StagedSpecialists : \E y \in export.spec : y.mail = x.mail
  BY DEF StagedSpecialists
<1> QED
  BY <1>1, <1>2 DEF Holds, From

LEMMA ClientsStaged ==
  ASSUME Holds(stage.spec, export.spec)
  PROVE  HoldsClients(StagedClients, stage.spec, export) /\ From(StagedClients, export.client, {})
<1>1. ASSUME NEW y \in export.client
      PROVE  \E x \in StagedClients :
               /\ x.mail = y.mail /\ (y.mail = NoMail => x.uid = Prod(y.id))
               /\ Same(x.spec, y.spec, stage.spec, export.spec)
  <2>1. PICK u \in UserIds(dev.client, y.mail, y.id) : TRUE
    BY UserIdsSome
  <2>2. y.mail = NoMail => u = Prod(y.id)
    BY <2>1, UserIdsSome
  <2>3. PICK s \in SpecialistIds(y.spec) : Same(s, y.spec, stage.spec, export.spec)
    BY SpecialistIdsSame
  <2>4. [from |-> y.id, uid |-> u, mail |-> y.mail, spec |-> s] \in StagedClients
    <3>1. [from |-> y.id, uid |-> u, mail |-> y.mail, spec |-> s] \in
            {[from |-> y.id, uid |-> v, mail |-> y.mail, spec |-> r] :
               v \in UserIds(dev.client, y.mail, y.id), r \in SpecialistIds(y.spec)}
      BY <2>1, <2>3
    <3> DEFINE Of(x) == {[from |-> x.id, uid |-> v, mail |-> x.mail, spec |-> r] :
                           v \in UserIds(dev.client, x.mail, x.id), r \in SpecialistIds(x.spec)}
    <3>2. StagedClients = UNION {Of(x) : x \in export.client}
      BY DEF StagedClients
    <3>3. [from |-> y.id, uid |-> u, mail |-> y.mail, spec |-> s] \in Of(y)
      BY <3>1
    <3> HIDE DEF Of
    <3> QED
      BY <3>2, <3>3
  <2> QED
    BY <2>2, <2>3, <2>4
<1>2. \A x \in StagedClients : \E y \in export.client : y.mail = x.mail
  BY DEF StagedClients
<1> QED
  BY <1>1, <1>2 DEF HoldsClients, From

\* The mail of a client of the export is that of its row.
LEMMA TheMailIs ==
  ASSUME NEW from, Unique(from), NEW y \in from
  PROVE  TheMail(y.id, from) = y.mail
<1>1. \A x \in from : x.id = y.id => x = y
  BY DEF Unique
<1> QED
  BY <1>1 DEF TheMail

\* Results are staged for the clients that have a mail.
LEMMA ResultsStaged ==
  ASSUME Unique(export.client), Holds(stage.spec, export.spec),
         HoldsClients(stage.client, stage.spec, export)
  PROVE  /\ HoldsResults(StagedResults, stage.spec, export)
         /\ Owners(StagedResults, stage.client, export)
<1>1. ASSUME NEW r \in export.result, Has(export.client, r.client),
             TheMail(r.client, export.client) # NoMail
      PROVE  \E x \in StagedResults : x.id = r.id /\ Same(x.spec, r.spec, stage.spec, export.spec)
  <2>1. PICK c \in export.client : c.id = r.client
    BY <1>1 DEF Has
  <2>2. c.mail # NoMail
    BY <1>1, <2>1, TheMailIs
  <2>3. PICK z \in stage.client : z.mail = c.mail
    BY DEF HoldsClients
  <2>4. z.uid \in ClientIds(r.client)
    BY <2>1, <2>2, <2>3 DEF ClientIds
  <2>5. PICK s \in SpecialistIds(r.spec) : Same(s, r.spec, stage.spec, export.spec)
    BY SpecialistIdsSame
  <2>6. [id |-> r.id, client |-> z.uid, spec |-> s] \in StagedResults
    BY <2>4, <2>5 DEF StagedResults
  <2> QED
    BY <2>5, <2>6
<1>2. ASSUME NEW x \in StagedResults
      PROVE  \E r \in export.result, y \in stage.client :
               /\ r.id = x.id /\ y.uid = x.client /\ y.mail # NoMail
               /\ y.mail = TheMail(r.client, export.client)
  <2>1. PICK r \in export.result : r.id = x.id /\ x.client \in ClientIds(r.client)
    BY DEF StagedResults
  <2>2. PICK z \in stage.client :
          /\ z.uid = x.client /\ z.mail # NoMail
          /\ \E y \in export.client : y.id = r.client /\ y.mail = z.mail
    BY <2>1 DEF ClientIds
  <2>3. z.mail = TheMail(r.client, export.client)
    BY <2>2, TheMailIs
  <2> QED
    BY <2>1, <2>2, <2>3
<1> QED
  BY <1>1, <1>2 DEF HoldsResults, Owners

\* Rows that have the users, mails and specialists of the stages are as loaded.
LEMMA LoadedOfStages ==
  ASSUME Unique(export.client),
         Holds(stage.spec, export.spec), From(stage.spec, export.spec, {}),
         HoldsClients(stage.client, stage.spec, export), From(stage.client, export.client, {}),
         NEW specs, NEW clients,
         \A x \in stage.spec : \E z \in specs : z.uid = x.uid /\ z.mail = x.mail,
         \A x \in stage.client : \E z \in clients : z.uid = x.uid /\ z.mail = x.mail /\ z.spec = x.spec,
         \A z \in specs : \E x \in stage.spec : z.mail = x.mail,
         \A z \in clients : \E x \in stage.client : z.mail = x.mail
  PROVE  Loaded(specs, clients, StagedResults, export, {}, {})
<1>1. \A u, s : Same(u, s, stage.spec, export.spec) => Same(u, s, specs, export.spec)
  <2> SUFFICES ASSUME NEW u, NEW s, Same(u, s, stage.spec, export.spec)
               PROVE  Same(u, s, specs, export.spec)
    OBVIOUS
  <2> DEFINE named == {y \in export.spec : y.id = s /\ y.mail # NoMail}
  <2>1. CASE named = {}
    BY <2>1 DEF Same
  <2>2. CASE named # {}
    <3>1. PICK x \in stage.spec, y \in named : x.uid = u /\ x.mail = y.mail
      BY <2>2 DEF Same
    <3>2. PICK z \in specs : z.uid = x.uid /\ z.mail = x.mail
      OBVIOUS
    <3> QED
      BY <2>2, <3>1, <3>2 DEF Same
  <2> QED
    BY <2>1, <2>2
<1>2. Holds(specs, export.spec)
  BY DEF Holds
<1>3. From(specs, export.spec, {}) /\ From(clients, export.client, {})
  BY DEF From
<1>4. HoldsClients(clients, specs, export)
  <2> SUFFICES ASSUME NEW y \in export.client
               PROVE  \E x \in clients :
                        /\ x.mail = y.mail /\ (y.mail = NoMail => x.uid = Prod(y.id))
                        /\ Same(x.spec, y.spec, specs, export.spec)
    BY DEF HoldsClients
  <2>1. PICK x \in stage.client :
          /\ x.mail = y.mail /\ (y.mail = NoMail => x.uid = Prod(y.id))
          /\ Same(x.spec, y.spec, stage.spec, export.spec)
    BY DEF HoldsClients
  <2>2. PICK z \in clients : z.uid = x.uid /\ z.mail = x.mail /\ z.spec = x.spec
    OBVIOUS
  <2> QED
    BY <1>1, <2>1, <2>2
<1>5. HoldsResults(StagedResults, specs, export) /\ Owners(StagedResults, clients, export)
  <2>1. /\ HoldsResults(StagedResults, stage.spec, export)
        /\ Owners(StagedResults, stage.client, export)
    BY ResultsStaged
  <2>2. HoldsResults(StagedResults, specs, export)
    BY <1>1, <2>1 DEF HoldsResults
  <2>3. Owners(StagedResults, clients, export)
    <3> SUFFICES ASSUME NEW x \in StagedResults
                 PROVE  \E r \in export.result, y \in clients :
                          /\ r.id = x.id /\ y.uid = x.client /\ y.mail # NoMail
                          /\ y.mail = TheMail(r.client, export.client)
      BY DEF Owners
    <3>1. PICK r \in export.result, y \in stage.client :
            /\ r.id = x.id /\ y.uid = x.client /\ y.mail # NoMail
            /\ y.mail = TheMail(r.client, export.client)
      BY <2>1 DEF Owners
    <3>2. PICK z \in clients : z.uid = y.uid /\ z.mail = y.mail
      OBVIOUS
    <3> QED
      BY <3>1, <3>2
  <2> QED
    BY <2>2, <2>3
<1> QED
  BY <1>2, <1>3, <1>4, <1>5 DEF Loaded

\* What the insert writes has the users, mails and specialists of the stages.
LEMMA InsertLoads ==
  ASSUME Unique(export.client),
         Holds(stage.spec, export.spec), From(stage.spec, export.spec, {}),
         HoldsClients(stage.client, stage.spec, export), From(stage.client, export.client, {}),
         NEW specs, specs = {[uid |-> x.uid, mail |-> x.mail] : x \in stage.spec},
         NEW clients,
         clients = {[uid |-> x.uid, mail |-> x.mail, spec |-> x.spec] : x \in stage.client}
  PROVE  Loaded(specs, clients, StagedResults, export, {}, {})
<1>1. \A x \in stage.spec : \E z \in specs : z.uid = x.uid /\ z.mail = x.mail
  <2> TAKE x \in stage.spec
  <2>1. [uid |-> x.uid, mail |-> x.mail] \in specs
    OBVIOUS
  <2> QED
    BY <2>1
<1>2. \A x \in stage.client : \E z \in clients :
        z.uid = x.uid /\ z.mail = x.mail /\ z.spec = x.spec
  <2> TAKE x \in stage.client
  <2>1. [uid |-> x.uid, mail |-> x.mail, spec |-> x.spec] \in clients
    OBVIOUS
  <2> QED
    BY <2>1
<1>3. \A z \in specs : \E x \in stage.spec : z.mail = x.mail
  OBVIOUS
<1>4. \A z \in clients : \E x \in stage.client : z.mail = x.mail
  OBVIOUS
<1> QED
  BY <1>1, <1>2, <1>3, <1>4, LoadedOfStages

\* The commit of a run leaves what it loaded.
LEMMA LoadCommit ==
  ASSUME RefreshTypeOK, Inv, LoadInv, phase = "finish", NEW r, End(r), Commit, src' = src
  PROVE  LoadInv'
<1>1. /\ Loaded(new.spec, new.client, new.result, export, {}, {})
      /\ \A x \in dev.spec \ gone.spec : x.uid \in since.run.spec
      /\ \A x \in dev.client \ gone.client : x.uid \in since.run.client
      /\ dev.result \subseteq gone.result
  BY DEF LoadInv, Loading, Inv, Refs
<1>2. since \in Marks
  BY Zenon DEF RefreshTypeOK
<1>3. /\ dev'.spec = (dev.spec \ gone.spec) \cup new.spec
      /\ dev'.client = (dev.client \ gone.client) \cup new.client
      /\ dev'.result = new.result
      /\ loaded' = export
  BY <1>1 DEF Commit, Committed
<1>4. since'.load = since.run
  BY <1>2 DEF Commit, Marks
<1>5. Loaded(dev'.spec, dev'.client, new.result, export, since.run.spec, since.run.client)
  BY <1>1, <1>3, LoadedMore
<1>6. Loaded(dev.spec, dev.client, dev.result, loaded, since.load.spec, since.load.client)'
  BY <1>3, <1>4, <1>5
<1>7. /\ phase' = "idle" /\ export' = NoSource
  BY DEF End
<1>8. Unique(export.client)'
  BY <1>7 DEF Unique, NoSource
<1>9. Consistent(src)'
  BY DEF LoadInv
<1> QED
  BY <1>6, <1>7, <1>8, <1>9 DEF LoadInv, Writing, Loading

\* The steps that leave dev, what it was loaded from and the marks alone.
LEMMA LoadQuiet ==
  ASSUME LoadInv, Consistent(src'), UNCHANGED <<dev, loaded, since, stage, gone, new>>,
         \/ export' = export /\ phase' = phase
         \/ Unique(export'.client) /\ phase' \in {"idle", "specialists", "clients", "results", "stage specialists"}
  PROVE  LoadInv'
<1>1. Unique(export.client)'
  BY DEF LoadInv
<1>2. CASE export' = export /\ phase' = phase
  BY <1>1, <1>2 DEF LoadInv
<1>3. CASE phase' \in {"idle", "specialists", "clients", "results", "stage specialists"}
  BY <1>1, <1>3 DEF LoadInv, Writing, Loading
<1> QED
  BY <1>2, <1>3

LEMMA LoadEnd ==
  ASSUME LoadInv, NEW r, End(r), UNCHANGED <<src, dev, loaded, since>>
  PROVE  LoadInv'
<1>1. phase' = "idle" /\ export' = NoSource
  BY DEF End
<1>2. Unique(export.client)'
  BY <1>1 DEF Unique, NoSource
<1> QED
  BY <1>1, <1>2 DEF LoadInv, Writing, Loading

LEMMA LoadEnrol ==
  ASSUME RefreshTypeOK, LoadInv, NEW x \in dev.auth, Enrol(x)
  PROVE  LoadInv'
<1>0. dev \in Tables /\ since \in Marks
  BY Zenon DEF RefreshTypeOK
<1>1. UNCHANGED <<src, export, stage, gone, new, phase, loaded, dev.result>>
  BY <1>0 DEF Enrol, work, Tables
<1>2. /\ dev.spec \subseteq dev'.spec /\ dev.client \subseteq dev'.client
      /\ since.load.spec \subseteq since'.load.spec
      /\ since.load.client \subseteq since'.load.client
      /\ since.run.spec \subseteq since'.run.spec
      /\ since.run.client \subseteq since'.run.client
      /\ \A z \in dev'.spec \ dev.spec : z.uid \in since'.load.spec /\ z.uid \in since'.run.spec
      /\ \A z \in dev'.client \ dev.client :
           z.uid \in since'.load.client /\ z.uid \in since'.run.client
  <2>1. CASE /\ dev' = [dev EXCEPT !.client = @ \cup {[uid |-> x.uid, mail |-> x.mail, spec |-> Nobody]}]
             /\ since' = [s \in DOMAIN since |-> [since[s] EXCEPT !.client = @ \cup {x.uid}]]
    BY <1>0, <2>1 DEF Tables, Marks, Users
  <2>2. CASE /\ dev' = [dev EXCEPT !.spec = @ \cup {[uid |-> x.uid, mail |-> x.mail]}]
             /\ since' = [s \in DOMAIN since |-> [since[s] EXCEPT !.spec = @ \cup {x.uid}]]
    BY <1>0, <2>2 DEF Tables, Marks, Users
  <2> QED
    BY <2>1, <2>2, Zenon DEF Enrol
<1>3. Loaded(dev.spec, dev.client, dev.result, loaded, since.load.spec, since.load.client)
  BY DEF LoadInv
<1>4. Loaded(dev'.spec, dev'.client, dev.result, loaded, since'.load.spec, since'.load.client)
  BY <1>2, <1>3, LoadedMore
<1>5. phase \in Loading =>
        /\ \A z \in dev'.spec \ gone.spec : z.uid \in since'.run.spec
        /\ \A z \in dev'.client \ gone.client : z.uid \in since'.run.client
  BY <1>2 DEF LoadInv
<1> QED
  BY <1>1, <1>4, <1>5 DEF LoadInv

LEMMA LoadNext ==
  ASSUME RefreshTypeOK, Inv, LoadInv, [RefreshNext]_refreshVars
  PROVE  LoadInv'
<1>0. /\ src \in SourceTables /\ export \in SourceTables /\ dev \in Tables /\ new \in Tables
      /\ gone \in Tables /\ stage \in Stages /\ since \in Marks
  BY Zenon DEF RefreshTypeOK
<1>1. Consistent(src) /\ Unique(src.client) /\ Unique(export.client)
  BY DEF LoadInv, Consistent, Unique
<1>2. CASE SourceChanges
  BY <1>2, LoadQuiet DEF SourceChanges, work
<1>3. ASSUME NEW m \in Mail, SignUp(m) PROVE LoadInv'
  <2>1. UNCHANGED <<src, export, stage, gone, new, phase, loaded, since, dev.spec, dev.client, dev.result>>
    BY <1>0, <1>3 DEF SignUp, work, Tables
  <2> QED
    BY <2>1 DEF LoadInv
<1>4. ASSUME NEW x \in dev.auth, Enrol(x) PROVE LoadInv'
  BY <1>4, LoadEnrol
<1>5. CASE Start
  BY <1>1, <1>5, LoadQuiet DEF Start, work
<1>6. CASE ExportSpecialists
  <2>1. export'.client = export.client
    BY <1>0, <1>6 DEF ExportSpecialists, SourceTables
  <2> QED
    BY <1>1, <1>6, <2>1, LoadQuiet DEF ExportSpecialists
<1>7. CASE ExportClients
  <2>1. export'.client = src.client
    BY <1>0, <1>7 DEF ExportClients, SourceTables
  <2> QED
    BY <1>1, <1>7, <2>1, LoadQuiet DEF ExportClients
<1>8. CASE ExportResults
  <2>1. export'.client = export.client
    BY <1>0, <1>8 DEF ExportResults, SourceTables
  <2> QED
    BY <1>1, <1>8, <2>1, LoadQuiet DEF ExportResults
<1>9. CASE StageSpecialists
  <2>1. stage'.spec = StagedSpecialists /\ phase' = "stage clients"
        /\ UNCHANGED <<src, export, dev, loaded, since>>
    BY <1>0, <1>9 DEF StageSpecialists, Stages
  <2>2. Holds(stage'.spec, export.spec) /\ From(stage'.spec, export.spec, {})
    BY <2>1, SpecialistsStaged
  <2> QED
    BY <2>1, <2>2 DEF LoadInv, Writing, Loading
<1>10. CASE StageClients
  <2>1. /\ stage'.client = StagedClients /\ stage'.spec = stage.spec /\ phase = "stage clients" /\ phase' = "auth"
        /\ UNCHANGED <<src, export, dev, loaded, since>>
    BY <1>0, <1>10 DEF StageClients, Stages
  <2>2. Holds(stage.spec, export.spec) /\ From(stage.spec, export.spec, {})
    BY <2>1 DEF LoadInv
  <2>3. /\ HoldsClients(stage'.client, stage'.spec, export)
        /\ From(stage'.client, export.client, {})
    BY <2>1, <2>2, ClientsStaged
  <2> QED
    BY <2>1, <2>2, <2>3 DEF LoadInv, Writing, Loading
<1>11. CASE WriteAuth
  <2>1. phase = "auth" /\ phase' = "delete" /\ UNCHANGED <<src, export, dev, stage, loaded, since>>
    BY <1>11 DEF WriteAuth
  <2> QED
    BY <2>1 DEF LoadInv, Writing, Loading
<1>12. CASE Delete
  <2>1. /\ phase = "delete" /\ phase' = "insert" /\ gone'.spec = dev.spec /\ gone'.client = dev.client
        /\ UNCHANGED <<src, export, dev, stage, loaded>> /\ since'.load = since.load
    BY <1>0, <1>12 DEF Delete, Tables, Marks
  <2> QED
    BY <2>1 DEF LoadInv, Writing, Loading
<1>13. CASE Insert
  <2>1. /\ phase = "insert" /\ phase' = "finish"
        /\ UNCHANGED <<src, export, dev, stage, gone, loaded, since>>
        /\ new'.spec = {[uid |-> x.uid, mail |-> x.mail] : x \in stage.spec}
        /\ new'.client = {[uid |-> x.uid, mail |-> x.mail, spec |-> x.spec] : x \in stage.client}
        /\ new'.result = StagedResults
    BY <1>0, <1>13 DEF Insert, Tables
  <2>2. /\ Holds(stage.spec, export.spec) /\ From(stage.spec, export.spec, {})
        /\ HoldsClients(stage.client, stage.spec, export) /\ From(stage.client, export.client, {})
    BY <2>1 DEF LoadInv, Writing, Loading
  <2>3. Loaded(new'.spec, new'.client, new'.result, export, {}, {})
    BY <1>1, <2>1, <2>2, InsertLoads
  <2> QED
    BY <2>1, <2>2, <2>3 DEF LoadInv, Writing, Loading
<1>14. CASE Finish
  BY <1>14, LoadEnd, LoadCommit, Zenon DEF Finish
<1>15. CASE Fail
  BY <1>15, LoadEnd, LoadCommit, Zenon DEF Fail
<1>16. CASE UNCHANGED refreshVars
  BY <1>1, <1>16, LoadQuiet DEF refreshVars
<1> QED
  BY <1>2, <1>3, <1>4, <1>5, <1>6, <1>7, <1>8, <1>9, <1>10, <1>11, <1>12, <1>13, <1>14, <1>15,
     <1>16, Zenon
     DEF RefreshNext, Transaction

\* Dev is what the last committed run exported and what its users added since,
\* and each result is its owner's: an aborted or a dry run leaves no trace,
\* whatever production and the users of dev do while a run goes on.
THEOREM LoadIsTrue == RefreshSpec => []LoadTrue
<1>1. RefreshInit => RefreshTypeOK /\ Inv /\ LoadInv
  BY TypeInit, InvInit, LoadInit
<1>2. RefreshTypeOK /\ Inv /\ LoadInv /\ [RefreshNext]_refreshVars => (RefreshTypeOK /\ Inv /\ LoadInv)'
  BY TypeNext, InvNext, LoadNext
<1>3. RefreshTypeOK /\ Inv /\ LoadInv => LoadTrue
  BY LoadTrueIsLoaded DEF LoadInv
<1> QED
  BY <1>1, <1>2, <1>3, PTL DEF RefreshSpec
=============================================================================
