-------------------------- MODULE AgentToolsProofs --------------------------
(***************************************************************************)
(* Theorems about the two parts that an agent's tools rest on: AgentPlane, *)
(* for any number of calls, either audit store and any faults, and         *)
(* SessionMemory, for any number and length of files, any faults and any   *)
(* writer.  Each part has variables of its own, and Plane stands before    *)
(* the names that both would use.                                          *)
(***************************************************************************)
EXTENDS AgentPlane, SessionMemory, TLAPS, WellFoundedInduction, FiniteSetTheorems

-----------------------------------------------------------------------------
(* The agent plane *)

\* What Append does to a sequence.
LEMMA AppendFacts ==
  ASSUME NEW S, NEW s \in Seq(S), NEW e \in S
  PROVE  /\ Append(s, e) \in Seq(S)
         /\ Len(s) \in Nat
         /\ Len(Append(s, e)) = Len(s) + 1
         /\ Append(s, e)[Len(s) + 1] = e
         /\ \A n \in 1 .. Len(s) : Append(s, e)[n] = s[n]
OBVIOUS

LEMMA EmptySeq == ASSUME NEW S PROVE <<>> \in Seq(S)
OBVIOUS

LEMMA LineTyped ==
  ASSUME PlaneTypeOK, NEW c \in Call, NEW b \in BOOLEAN
  PROVE  Entry(c, b) \in EntryType
BY DEF PlaneTypeOK, Entry, EntryType

LEMMA PlaneInitTyped == PlaneInit => PlaneTypeOK
BY DEF PlaneInit, PlaneTypeOK, Kind, Status, Answer, Running, Ended, EntryType

LEMMA PlaneStepTyped == PlaneTypeOK /\ [PlaneNext]_planeVars => PlaneTypeOK'
<1> SUFFICES ASSUME PlaneTypeOK, [PlaneNext]_planeVars PROVE PlaneTypeOK'
  OBVIOUS
<1> USE DEF PlaneTypeOK, callVars
<1>1. ASSUME NEW c \in Call, NEW k \in Kind, NEW a \in BOOLEAN, Receive(c, k, a)
      PROVE  PlaneTypeOK'
  BY <1>1 DEF Receive, Answer, Status, Running, Ended
<1>2. ASSUME NEW c \in Call, Dispatch(c) PROVE PlaneTypeOK'
  BY <1>2 DEF Dispatch, Running
<1>3. ASSUME NEW c \in Call, UnknownTool(c) PROVE PlaneTypeOK'
  BY <1>3 DEF UnknownTool, Running, Status
<1>4. ASSUME NEW c \in Call, ToolReturns(c) PROVE PlaneTypeOK'
  BY <1>4 DEF ToolReturns, Running, Status
<1>5. ASSUME NEW c \in Call, Remember(c) PROVE PlaneTypeOK'
  BY <1>5 DEF Remember, Running
<1>6. ASSUME NEW c \in Call, Write(c) \/ Insert(c) PROVE PlaneTypeOK'
  <2>1. PICK l \in EntryType : journal' = Append(journal, l)
    BY <1>6, LineTyped DEF Write, Insert
  <2>2. journal' \in Seq(EntryType)
    BY <2>1, AppendFacts
  <2> QED
    BY <1>6, <2>2 DEF Write, Insert, Running
<1>8. ASSUME NEW c \in Call, RecordFails(c) PROVE PlaneTypeOK'
  <2>1. journal' = journal \/ \E l \in EntryType : journal' = Append(journal, l)
    BY <1>8, LineTyped DEF RecordFails
  <2>2. journal' \in Seq(EntryType)
    BY <2>1, AppendFacts
  <2> QED
    BY <1>8, <2>2 DEF RecordFails, Ended
<1>9. ASSUME NEW c \in Call, Reply(c) PROVE PlaneTypeOK'
  BY <1>9 DEF Reply, Ended, Answer
<1>10. CASE Crash
  <2>1. phase' \in [Call -> Running \cup Ended \cup {"new"}]
    BY <1>10 DEF Crash, Ended
  <2>2. entries' \in Seq(Call) /\ up' \in BOOLEAN
    BY <1>10, EmptySeq DEF Crash
  <2> QED
    BY <1>10, <2>1, <2>2 DEF Crash
<1>11. CASE Restart
  BY <1>11 DEF Restart
<1>12. CASE UNCHANGED planeVars
  BY <1>12 DEF planeVars
<1> QED
  BY <1>1, <1>2, <1>3, <1>4, <1>5, <1>6, <1>8, <1>9, <1>10, <1>11, <1>12
  DEF PlaneNext

(***************************************************************************)
(* Type correctness.                                                       *)
(***************************************************************************)
THEOREM PlaneTypeCorrect == PlaneSpec => []PlaneTypeOK
BY PlaneInitTyped, PlaneStepTyped, PTL DEF PlaneSpec

-----------------------------------------------------------------------------
\* What the step a call is at says of its fields, its effect and its line.
CallInv(c) ==
  /\ phase[c] = "new" => status[c] = "error"
  /\ phase[c] = "call" => Allowed(kind[c], approved[c]) /\ status[c] = "error"
  /\ phase[c] = "tool" => c \in effects
  /\ phase[c] \in {"new", "call"} => c \notin effects
  /\ c \in effects => (kind[c] = "guarded" => approved[c])
  /\ status[c] = "rejected" => c \notin effects /\ phase[c] \notin {"new", "call", "tool"}
  /\ status[c] = "ok" => c \in effects /\ phase[c] \notin {"new", "call", "tool"}
  /\ phase[c] = "reply" => Audited(c)
  /\ answer[c] \in Status =>
       phase[c] = "answered" /\ answer[c] = status[c] /\ Audited(c)

\* Every line carries the status its call has, and the call is past the record.
LineInv(n) ==
  /\ journal[n].status = status[journal[n].call]
  /\ phase[journal[n].call] \in {"reply", "answered", "dropped"}

IInv ==
  /\ PlaneTypeOK
  /\ \A c \in Call : CallInv(c)
  /\ \A n \in 1 .. Len(journal) : LineInv(n)

LEMMA InitInv == PlaneInit => IInv
<1> SUFFICES ASSUME PlaneInit PROVE IInv
  OBVIOUS
<1>1. PlaneTypeOK
  BY PlaneInitTyped
<1>2. \A c \in Call : CallInv(c)
  BY DEF PlaneInit, CallInv, Status
<1>3. \A n \in 1 .. Len(journal) : LineInv(n)
  BY DEF PlaneInit
<1> QED
  BY <1>1, <1>2, <1>3 DEF IInv

LEMMA EntryTyped ==
  ASSUME PlaneTypeOK, NEW n \in 1 .. Len(journal)
  PROVE  journal[n] \in EntryType
BY DEF PlaneTypeOK

\* A call stays audited while the journal only grows and its status stays.
LEMMA StaysAudited ==
  ASSUME PlaneTypeOK, NEW c \in Call,
         journal' = journal \/ \E l \in EntryType : journal' = Append(journal, l),
         status'[c] = status[c],
         Audited(c)
  PROVE  Audited(c)'
<1>1. PICK n \in 1 .. Len(journal) : journal[n] = Entry(c, TRUE)
  BY DEF Audited
<1>2. n \in 1 .. Len(journal') /\ journal'[n] = journal[n]
  <2>1. journal \in Seq(EntryType)
    BY DEF PlaneTypeOK
  <2>2. CASE \E l \in EntryType : journal' = Append(journal, l)
    BY <2>1, <2>2, AppendFacts
  <2> QED
    BY <2>2
<1>3. Entry(c, TRUE)' = Entry(c, TRUE)
  BY DEF Entry
<1> QED
  BY <1>1, <1>2, <1>3 DEF Audited

\* Recorded calls: their status does not change and they do not start again.
Recorded(c) == phase[c] \in {"reply", "answered", "dropped"}

LEMMA KeepLines ==
  ASSUME IInv, journal' = journal,
         \A c \in Call : Recorded(c) => Recorded(c)' /\ status'[c] = status[c]
  PROVE  \A n \in 1 .. Len(journal') : LineInv(n)'
<1> SUFFICES ASSUME NEW n \in 1 .. Len(journal) PROVE LineInv(n)'
  OBVIOUS
<1>1. LineInv(n) /\ journal[n].call \in Call
  BY EntryTyped DEF IInv, EntryType
<1> QED
  BY <1>1 DEF LineInv, Recorded

LEMMA AddLine ==
  ASSUME IInv, NEW c \in Call, NEW b \in BOOLEAN,
         journal' = Append(journal, Entry(c, b)),
         status' = status,
         Recorded(c)',
         \A d \in Call : Recorded(d) => Recorded(d)'
  PROVE  \A n \in 1 .. Len(journal') : LineInv(n)'
<1>1. PlaneTypeOK /\ Entry(c, b) \in EntryType
  BY LineTyped DEF IInv
<1>2. PICK k \in Nat :
        /\ k = Len(journal) /\ Len(journal') = k + 1
        /\ journal'[k + 1] = Entry(c, b)
        /\ \A n \in 1 .. k : journal'[n] = journal[n]
  BY <1>1, AppendFacts DEF PlaneTypeOK
<1>3. LineInv(k + 1)'
  BY <1>2 DEF LineInv, Entry, Recorded
<1>4. ASSUME NEW n \in 1 .. Len(journal) PROVE LineInv(n)'
  <2>1. journal'[n] = journal[n]
    BY <1>2
  <2>2. LineInv(n) /\ journal[n].call \in Call
    BY <1>1, EntryTyped DEF IInv, EntryType
  <2> QED
    BY <2>1, <2>2 DEF LineInv, Recorded
<1> QED
  BY <1>2, <1>3, <1>4

LEMMA StepInv == IInv /\ [PlaneNext]_planeVars => IInv'
<1> SUFFICES ASSUME IInv, [PlaneNext]_planeVars PROVE IInv'
  OBVIOUS
<1>0. PlaneTypeOK /\ PlaneTypeOK'
  BY PlaneStepTyped DEF IInv
<1>a. phase \in [Call -> Running \cup Ended \cup {"new"}] /\ status \in [Call -> Status]
      /\ kind \in [Call -> Kind] /\ approved \in [Call -> BOOLEAN]
      /\ answer \in [Call -> Answer]
  BY <1>0 DEF PlaneTypeOK
<1>b. \A c \in Call : CallInv(c)
  BY DEF IInv
<1>k. ASSUME NEW d \in Call, Audited(d), status'[d] = status[d],
             journal' = journal \/ \E l \in EntryType : journal' = Append(journal, l)
      PROVE  Audited(d)'
  BY <1>0, <1>k, StaysAudited
<1> USE DEF callVars
<1>1. ASSUME NEW c \in Call, NEW k \in Kind, NEW a \in BOOLEAN, Receive(c, k, a)
      PROVE  IInv'
  <2>1. ASSUME NEW d \in Call PROVE CallInv(d)'
    <3>1. CASE d = c
      BY <1>1, <1>a, <1>b, <3>1 DEF Receive, CallInv, Status
    <3>2. CASE d # c
      BY <1>1, <1>a, <1>b, <1>k, <3>2 DEF Receive, CallInv
    <3> QED
      BY <3>1, <3>2
  <2>2. \A n \in 1 .. Len(journal') : LineInv(n)'
    <3>1. \A d \in Call : Recorded(d) => Recorded(d)' /\ status'[d] = status[d]
      BY <1>1, <1>a DEF Receive, Recorded
    <3> QED
      BY <1>1, <3>1, KeepLines DEF Receive
  <2> QED
    BY <1>0, <2>1, <2>2 DEF IInv
<1>2. ASSUME NEW c \in Call, Dispatch(c) PROVE IInv'
  <2>1. \A d \in Call : CallInv(d)'
    BY <1>2, <1>a, <1>b, <1>k DEF Dispatch, CallInv, Allowed
  <2>2. \A n \in 1 .. Len(journal') : LineInv(n)'
    <3>1. \A d \in Call : Recorded(d) => Recorded(d)' /\ status'[d] = status[d]
      BY <1>2, <1>a DEF Dispatch, Recorded
    <3> QED
      BY <1>2, <3>1, KeepLines DEF Dispatch
  <2> QED
    BY <1>0, <2>1, <2>2 DEF IInv
<1>3. ASSUME NEW c \in Call, UnknownTool(c) \/ ToolReturns(c) PROVE IInv'
  <2>1. ASSUME NEW d \in Call PROVE CallInv(d)'
    <3>1. CASE d = c
      BY <1>3, <1>a, <1>b, <3>1 DEF UnknownTool, ToolReturns, CallInv
    <3>2. CASE d # c
      BY <1>3, <1>a, <1>b, <1>k, <3>2 DEF UnknownTool, ToolReturns, CallInv
    <3> QED
      BY <3>1, <3>2
  <2>2. \A n \in 1 .. Len(journal') : LineInv(n)'
    <3>1. \A d \in Call : Recorded(d) => Recorded(d)' /\ status'[d] = status[d]
      BY <1>3, <1>a DEF UnknownTool, ToolReturns, Recorded
    <3>2. journal' = journal
      BY <1>3 DEF UnknownTool, ToolReturns
    <3> QED
      BY <3>1, <3>2, KeepLines
  <2> QED
    BY <1>0, <2>1, <2>2 DEF IInv
<1>4. ASSUME NEW c \in Call, Remember(c) PROVE IInv'
  <2>1. \A d \in Call : CallInv(d)'
    BY <1>4, <1>a, <1>b, <1>k DEF Remember, CallInv
  <2>2. \A n \in 1 .. Len(journal') : LineInv(n)'
    <3>1. \A d \in Call : Recorded(d) => Recorded(d)' /\ status'[d] = status[d]
      BY <1>4, <1>a DEF Remember, Recorded
    <3> QED
      BY <1>4, <3>1, KeepLines DEF Remember
  <2> QED
    BY <1>0, <2>1, <2>2 DEF IInv
<1>5. ASSUME NEW c \in Call, Write(c) \/ Insert(c) PROVE IInv'
  <2>1. /\ journal' = Append(journal, Entry(c, TRUE))
        /\ phase[c] \in {"write", "record"} /\ phase' = [phase EXCEPT ![c] = "reply"]
        /\ UNCHANGED <<kind, approved, status, answer, effects>>
    BY <1>5 DEF Write, Insert
  <2>2. Entry(c, TRUE) \in EntryType
    BY <1>0, LineTyped
  <2>3. Audited(c)'
    <3>1. PICK l \in EntryType : l = Entry(c, TRUE) /\ journal' = Append(journal, l)
      BY <2>1, <2>2
    <3>2. journal \in Seq(EntryType)
      BY <1>0 DEF PlaneTypeOK
    <3>3. PICK k \in Nat : Len(journal') = k + 1 /\ journal'[k + 1] = l
      <4>1. Len(journal) \in Nat
        BY <3>2
      <4>2. Len(journal') = Len(journal) + 1 /\ journal'[Len(journal) + 1] = l
        BY <3>1, <3>2, AppendFacts
      <4> QED
        BY <4>1, <4>2
    <3>4. l = [call |-> c, status |-> status'[c], closed |-> TRUE]
      BY <2>1, <3>1 DEF Entry
    <3> QED
      BY <3>3, <3>4 DEF Audited, Entry
  <2>4. \A d \in Call : Audited(d) => Audited(d)'
    BY <1>k, <2>1, <2>2
  <2>5. \A d \in Call : CallInv(d)'
    BY <1>a, <1>b, <2>1, <2>3, <2>4 DEF CallInv
  <2>6. Recorded(c)' /\ \A d \in Call : Recorded(d) => Recorded(d)'
    BY <1>a, <2>1 DEF Recorded
  <2>7. \A n \in 1 .. Len(journal') : LineInv(n)'
    BY <2>1, <2>6, AddLine
  <2> QED
    BY <1>0, <2>5, <2>7 DEF IInv
<1>6. ASSUME NEW c \in Call, RecordFails(c) PROVE IInv'
  <2>1. /\ journal' = journal \/ journal' = Append(journal, Entry(c, store = "postgres"))
        /\ phase[c] \in {"write", "record"} /\ phase' = [phase EXCEPT ![c] = "dropped"]
        /\ UNCHANGED <<kind, approved, status, answer, effects>>
    BY <1>6 DEF RecordFails
  <2>2. Entry(c, store = "postgres") \in EntryType
    BY <1>0, LineTyped
  <2>4. \A d \in Call : Audited(d) => Audited(d)'
    BY <1>k, <2>1, <2>2
  <2>5. \A d \in Call : CallInv(d)'
    BY <1>a, <1>b, <2>1, <2>4 DEF CallInv
  <2>6. Recorded(c)' /\ \A d \in Call : Recorded(d) => Recorded(d)'
    BY <1>a, <2>1 DEF Recorded
  <2>7. \A n \in 1 .. Len(journal') : LineInv(n)'
    BY <2>1, <2>6, AddLine, KeepLines
  <2> QED
    BY <1>0, <2>5, <2>7 DEF IInv
<1>7. ASSUME NEW c \in Call, Reply(c) PROVE IInv'
  <2>1. \A d \in Call : CallInv(d)'
    BY <1>7, <1>a, <1>b, <1>k DEF Reply, CallInv
  <2>2. \A n \in 1 .. Len(journal') : LineInv(n)'
    <3>1. \A d \in Call : Recorded(d) => Recorded(d)' /\ status'[d] = status[d]
      BY <1>7, <1>a DEF Reply, Recorded
    <3> QED
      BY <1>7, <3>1, KeepLines DEF Reply
  <2> QED
    BY <1>0, <2>1, <2>2 DEF IInv
<1>8. CASE Crash
  <2>1. \A d \in Call : CallInv(d)'
    BY <1>8, <1>a, <1>b, <1>k DEF Crash, CallInv, Running
  <2>2. \A n \in 1 .. Len(journal') : LineInv(n)'
    <3>1. \A d \in Call : Recorded(d) => Recorded(d)' /\ status'[d] = status[d]
      BY <1>8, <1>a DEF Crash, Recorded, Running
    <3> QED
      BY <1>8, <3>1, KeepLines DEF Crash
  <2> QED
    BY <1>0, <2>1, <2>2 DEF IInv
<1>9. CASE Restart \/ UNCHANGED planeVars
  <2>1. UNCHANGED <<phase, kind, approved, status, answer, effects, journal>>
    BY <1>9 DEF Restart, planeVars
  <2>2. \A d \in Call : CallInv(d)'
    BY <1>b, <1>k, <2>1 DEF CallInv
  <2>3. \A n \in 1 .. Len(journal') : LineInv(n)'
    BY <2>1, KeepLines DEF Recorded
  <2> QED
    BY <1>0, <2>2, <2>3 DEF IInv
<1> QED
  BY <1>1, <1>2, <1>3, <1>4, <1>5, <1>6, <1>7, <1>8, <1>9 DEF PlaneNext

LEMMA InvHolds == PlaneSpec => []IInv
BY InitInv, StepInv, PTL DEF PlaneSpec

(***************************************************************************)
(* A caller is only told what the durable journal says.                    *)
(***************************************************************************)
THEOREM AnswersAudited == PlaneSpec => []AnsweredAudited
<1>1. IInv => AnsweredAudited
  BY DEF IInv, CallInv, AnsweredAudited
<1> QED
  BY <1>1, InvHolds, PTL

(***************************************************************************)
(* Mutating tools run only with approval, and no line lies about effects.  *)
(***************************************************************************)
THEOREM JournalTrue == PlaneSpec => []JournalTruthful
<1>1. ASSUME IInv PROVE JournalTruthful
  <2>1. \A c \in effects : kind[c] = "guarded" => approved[c]
    BY <1>1 DEF IInv, CallInv, PlaneTypeOK
  <2>2. ASSUME NEW n \in 1 .. Len(journal)
        PROVE  /\ journal[n].status = "rejected" => journal[n].call \notin effects
               /\ journal[n].status = "ok" => journal[n].call \in effects
    <3>1. journal[n].call \in Call
      BY <1>1, EntryTyped DEF IInv, EntryType
    <3> QED
      BY <1>1, <3>1 DEF IInv, CallInv, LineInv
  <2> QED
    BY <2>1, <2>2 DEF JournalTruthful
<1> QED
  BY <1>1, InvHolds, PTL

(***************************************************************************)
(* No failure and no restart removes or rewrites an audit entry.           *)
(***************************************************************************)
THEOREM AppendOnly == PlaneSpec => JournalAppendOnly
<1> DEFINE Grows == /\ Len(journal') >= Len(journal)
                    /\ \A n \in 1 .. Len(journal) : journal'[n] = journal[n]
<1>1. PlaneTypeOK /\ [PlaneNext]_planeVars => [Grows]_planeVars
  <2> SUFFICES ASSUME PlaneTypeOK, PlaneNext PROVE Grows
    OBVIOUS
  <2>1. journal' = journal \/ \E l \in EntryType : journal' = Append(journal, l)
    BY LineTyped DEF PlaneNext, Receive, Dispatch, UnknownTool, ToolReturns, Remember,
       Write, Insert, RecordFails, Reply, Crash, Restart
  <2> QED
    BY <2>1 DEF PlaneTypeOK
<1> QED
  BY <1>1, PlaneTypeCorrect, PTL DEF PlaneSpec, JournalAppendOnly

-----------------------------------------------------------------------------
(* What a reader of the audit is shown. *)

\* A call has one line at most, and a line that was torn has a call whose record
\* failed.
LinesOnce ==
  /\ IsFiniteSet(failed)
  /\ \A m, n \in 1 .. Len(journal) : journal[m].call = journal[n].call => m = n
  /\ \A n \in 1 .. Len(journal) : journal[n].closed \/ journal[n].call \in failed

\* And what recent() shows is in the journal or about to be.
AuditInv ==
  /\ LinesOnce
  /\ RecentHonest

\* A call that is audited is past its record.
LEMMA AuditedRecorded ==
  ASSUME IInv, NEW c \in Call, Audited(c)
  PROVE  Recorded(c)
<1>1. PICK n \in 1 .. Len(journal) : journal[n] = Entry(c, TRUE)
  BY DEF Audited
<1>2. journal[n].call = c
  BY <1>1 DEF Entry
<1> QED
  BY <1>1, <1>2 DEF IInv, LineInv, Recorded

\* No step takes a call back out of the journal.
LEMMA AuditedForGood ==
  ASSUME IInv, [PlaneNext]_planeVars, NEW c \in Call, Audited(c)
  PROVE  Audited(c)'
<1>1. PlaneTypeOK /\ status \in [Call -> Status]
  BY DEF IInv, PlaneTypeOK
<1>2. Recorded(c)
  BY AuditedRecorded
<1>3. journal' = journal \/ \E l \in EntryType : journal' = Append(journal, l)
  BY <1>1, LineTyped DEF PlaneNext, Receive, Dispatch, UnknownTool, ToolReturns, Remember,
     Write, Insert, RecordFails, Reply, Crash, Restart, planeVars
<1>4. status'[c] = status[c]
  BY <1>1, <1>2 DEF Recorded, PlaneNext, Receive, Dispatch, UnknownTool, ToolReturns, Remember,
     Write, Insert, RecordFails, Reply, Crash, Restart, planeVars, callVars
<1> QED
  BY <1>1, <1>3, <1>4, StaysAudited

\* The journal grows only by the line of a call that had none.
LEMMA GrowsByOne ==
  ASSUME IInv, PlaneNext
  PROVE  \/ UNCHANGED <<journal, failed>>
         \/ \E c \in Call, b \in BOOLEAN :
              /\ journal' = Append(journal, Entry(c, b)) /\ ~Recorded(c)
              /\ b \/ failed' = failed \cup {c}
              /\ failed' \in {failed, failed \cup {c}}
         \/ \E c \in Call : UNCHANGED journal /\ failed' = failed \cup {c}
<1>1. ASSUME NEW c \in Call, Write(c) \/ Insert(c)
      PROVE  /\ journal' = Append(journal, Entry(c, TRUE)) /\ ~Recorded(c)
             /\ failed' = failed
  BY <1>1 DEF Write, Insert, Recorded
<1>2. ASSUME NEW c \in Call, RecordFails(c)
      PROVE  /\ UNCHANGED journal \/ journal' = Append(journal, Entry(c, store = "postgres"))
             /\ ~Recorded(c) /\ failed' = failed \cup {c}
  BY <1>2 DEF RecordFails, Recorded
<1>3. ASSUME NEW c \in Call, NEW k \in Kind, NEW a \in BOOLEAN, Receive(c, k, a)
      PROVE  UNCHANGED <<journal, failed>>
  BY <1>3 DEF Receive
<1>4. ASSUME NEW c \in Call, Dispatch(c) \/ UnknownTool(c) \/ ToolReturns(c) \/ Remember(c) \/ Reply(c)
      PROVE  UNCHANGED <<journal, failed>>
  BY <1>4 DEF Dispatch, UnknownTool, ToolReturns, Remember, Reply
<1>5. ASSUME Crash \/ Restart PROVE UNCHANGED <<journal, failed>>
  BY <1>5 DEF Crash, Restart
<1>6. (store = "postgres") \in BOOLEAN
  OBVIOUS
<1> DEFINE Same == UNCHANGED <<journal, failed>>
           Line1(c, b) == /\ journal' = Append(journal, Entry(c, b)) /\ ~Recorded(c)
                          /\ b \/ failed' = failed \cup {c}
                          /\ failed' \in {failed, failed \cup {c}}
           Failed1(c) == UNCHANGED journal /\ failed' = failed \cup {c}
<1>7. ASSUME NEW c \in Call, RecordFails(c) PROVE Failed1(c) \/ Line1(c, store = "postgres")
  BY <1>2, <1>7
<1>8. ASSUME NEW c \in Call, Write(c) \/ Insert(c) PROVE Line1(c, TRUE)
  BY <1>1, <1>8
<1> HIDE DEF Same, Line1, Failed1
<1>9. Same \/ (\E c \in Call, b \in BOOLEAN : Line1(c, b)) \/ \E c \in Call : Failed1(c)
  BY <1>3, <1>4, <1>5, <1>6, <1>7, <1>8 DEF PlaneNext, Same
<1> QED
  BY <1>9 DEF Same, Line1, Failed1

LEMMA InitAudit == PlaneInit => AuditInv
<1> SUFFICES ASSUME PlaneInit PROVE AuditInv
  OBVIOUS
<1>1. IsFiniteSet(failed)
  BY FS_EmptySet DEF PlaneInit
<1> QED
  BY <1>1 DEF PlaneInit, AuditInv, LinesOnce, RecentHonest

LEMMA StepAudit == IInv /\ AuditInv /\ [PlaneNext]_planeVars => AuditInv'
<1> SUFFICES ASSUME IInv, AuditInv, [PlaneNext]_planeVars PROVE AuditInv'
  OBVIOUS
<1>0. PlaneTypeOK /\ PlaneTypeOK'
  BY PlaneStepTyped DEF IInv
<1>a. \A d \in Call : Audited(d) => Audited(d)'
  BY AuditedForGood
<1>1. LinesOnce'
  <2>1. CASE UNCHANGED <<journal, failed>>
    BY <2>1 DEF AuditInv, LinesOnce
  <2>2. ASSUME NEW c \in Call, NEW b \in BOOLEAN,
               journal' = Append(journal, Entry(c, b)), ~Recorded(c),
               b \/ failed' = failed \cup {c}, failed' \in {failed, failed \cup {c}}
        PROVE  LinesOnce'
    <3>1. IsFiniteSet(failed') /\ failed \subseteq failed'
      BY <2>2, FS_AddElement DEF AuditInv, LinesOnce
    <3>2. Entry(c, b) \in EntryType /\ journal \in Seq(EntryType)
      BY <1>0, LineTyped DEF PlaneTypeOK
    <3>3. PICK k \in Nat :
            /\ k = Len(journal) /\ Len(journal') = k + 1
            /\ journal'[k + 1] = Entry(c, b)
            /\ \A n \in 1 .. k : journal'[n] = journal[n]
      BY <2>2, <3>2, AppendFacts
    <3>4. \A n \in 1 .. k : journal[n].call # c
      BY <2>2, <3>3 DEF IInv, LineInv, Recorded
    <3>5. Entry(c, b).call = c /\ Entry(c, b).closed = b
      BY DEF Entry
    <3>6. \A n \in 1 .. k + 1 : n \in 1 .. k \/ n = k + 1
      OBVIOUS
    <3>7. \A m, n \in 1 .. k + 1 : journal'[m].call = journal'[n].call => m = n
      BY <3>3, <3>4, <3>5, <3>6 DEF AuditInv, LinesOnce
    <3>8. \A n \in 1 .. k + 1 : journal'[n].closed \/ journal'[n].call \in failed'
      BY <2>2, <3>1, <3>3, <3>5, <3>6 DEF AuditInv, LinesOnce
    <3> QED
      BY <3>1, <3>3, <3>7, <3>8 DEF LinesOnce
  <2>3. ASSUME NEW c \in Call, UNCHANGED journal, failed' = failed \cup {c}
        PROVE  LinesOnce'
    BY <2>3, FS_AddElement DEF AuditInv, LinesOnce
  <2>4. CASE UNCHANGED planeVars
    BY <2>1, <2>4 DEF planeVars
  <2> QED
    BY <2>1, <2>2, <2>3, <2>4, GrowsByOne
<1>2. RecentHonest'
  <2>1. ASSUME UNCHANGED entries,
               \A d \in Call : phase[d] = "write" => phase'[d] = "write" \/ Audited(d)' \/ d \in failed',
               failed \subseteq failed'
        PROVE  RecentHonest'
    BY <1>0, <1>a, <2>1 DEF AuditInv, RecentHonest, PlaneTypeOK
  <2> USE DEF PlaneTypeOK
  <2>2. ASSUME NEW c \in Call, NEW k \in Kind, NEW a \in BOOLEAN, Receive(c, k, a)
        PROVE  RecentHonest'
    BY <1>0, <2>1, <2>2 DEF Receive
  <2>3. ASSUME NEW c \in Call, Dispatch(c) \/ UnknownTool(c) \/ ToolReturns(c) \/ Reply(c)
        PROVE  RecentHonest'
    BY <1>0, <2>1, <2>3 DEF Dispatch, UnknownTool, ToolReturns, Reply
  <2>4. ASSUME NEW c \in Call, Remember(c) PROVE RecentHonest'
    <3>1. entries \in Seq(Call)
      BY <1>0
    <3>2. PICK k \in Nat :
            /\ k = Len(entries) /\ Len(entries') = k + 1 /\ entries'[k + 1] = c
            /\ \A n \in 1 .. k : entries'[n] = entries[n] /\ entries[n] \in Call
      BY <2>4, <3>1, AppendFacts DEF Remember
    <3>3. phase'[c] = "write" /\ \A d \in Call : phase[d] = "write" => phase'[d] = "write"
      BY <1>0, <2>4 DEF Remember
    <3>4. \A n \in 1 .. k + 1 : n \in 1 .. k \/ n = k + 1
      OBVIOUS
    <3>5. failed' = failed
      BY <2>4 DEF Remember
    <3>6. ASSUME NEW n \in 1 .. k, NEW d \in Call, d = entries[n]
          PROVE  Audited(d)' \/ phase'[d] = "write" \/ d \in failed'
      <4>1. Audited(d) \/ phase[d] = "write" \/ d \in failed
        BY <3>2, <3>6 DEF AuditInv, RecentHonest
      <4> QED
        BY <1>a, <3>3, <3>5, <4>1
    <3>7. ASSUME NEW n \in 1 .. k + 1, NEW d, d = entries'[n]
          PROVE  Audited(d)' \/ phase'[d] = "write" \/ d \in failed'
      BY <3>2, <3>3, <3>4, <3>6, <3>7
    <3> QED
      BY <3>2, <3>7 DEF RecentHonest
  <2>5. ASSUME NEW c \in Call, Write(c) \/ Insert(c) PROVE RecentHonest'
    <3>1. Audited(c)'
      BY <2>5, StepInv, <1>0 DEF Write, Insert, IInv, CallInv
    <3> QED
      BY <1>0, <2>1, <2>5, <3>1 DEF Write, Insert
  <2>6. ASSUME NEW c \in Call, RecordFails(c) PROVE RecentHonest'
    BY <1>0, <2>1, <2>6 DEF RecordFails
  <2>7. CASE Crash
    BY <2>7 DEF Crash, RecentHonest
  <2>8. CASE Restart
    BY <2>1, <2>8 DEF Restart
  <2>9. CASE UNCHANGED planeVars
    BY <2>1, <2>9 DEF planeVars
  <2> QED
    BY <2>2, <2>3, <2>4, <2>5, <2>6, <2>7, <2>8, <2>9 DEF PlaneNext
<1> QED
  BY <1>1, <1>2 DEF AuditInv

\* Before the line of a call that cannot be read stands the torn line of another,
\* and no two have the same.
LEMMA CostBounded == IInv /\ AuditInv => TornLineCost
<1> SUFFICES ASSUME IInv, AuditInv PROVE TornLineCost
  OBVIOUS
<1> DEFINE Shown(c) == \E n \in 1 .. Len(journal) : journal[n].call = c /\ Readable(n)
           unreadable == {c \in Call : answer[c] \in Status /\ ~Shown(c)}
           At(c) == CHOOSE n \in 1 .. Len(journal) : journal[n] = Entry(c, TRUE)
           f == [c \in unreadable |-> journal[At(c) - 1].call]
<1>1. journal \in Seq(EntryType) /\ Len(journal) \in Nat
  BY DEF IInv, PlaneTypeOK
<1>2. ASSUME NEW c \in unreadable
      PROVE  /\ At(c) \in 1 .. Len(journal) /\ At(c) - 1 \in 1 .. Len(journal)
             /\ journal[At(c)].call = c
             /\ journal[At(c) - 1].call \in failed
  <2>1. Audited(c)
    BY <1>2 DEF IInv, CallInv
  <2>2. At(c) \in 1 .. Len(journal) /\ journal[At(c)] = Entry(c, TRUE)
    BY <2>1 DEF Audited
  <2>3. journal[At(c)].call = c /\ journal[At(c)].closed
    BY <2>2 DEF Entry
  <2>4. ~Readable(At(c))
    BY <1>2, <2>2, <2>3
  <2> HIDE DEF At
  <2>5. At(c) > 1 /\ ~journal[At(c) - 1].closed
    BY <2>3, <2>4 DEF Readable
  <2>6. At(c) - 1 \in 1 .. Len(journal)
    BY <1>1, <2>2, <2>5
  <2> QED
    BY <2>2, <2>3, <2>5, <2>6 DEF AuditInv, LinesOnce
<1> HIDE DEF At
<1>3. f \in [unreadable -> failed]
  BY <1>2
<1>4. ASSUME NEW c \in unreadable, NEW d \in unreadable, f[c] = f[d]
      PROVE  c = d
  <2>1. At(c) - 1 = At(d) - 1
    BY <1>2, <1>4 DEF AuditInv, LinesOnce
  <2>2. At(c) = At(d)
    BY <1>1, <1>2, <2>1
  <2> QED
    BY <1>2, <2>2
<1>5. f \in Injection(unreadable, failed)
  BY <1>3, <1>4 DEF Injection, IsInjective
<1>6. IsFiniteSet(failed)
  BY DEF AuditInv, LinesOnce
<1>7. Cardinality(unreadable) <= Cardinality(failed)
  BY <1>5, <1>6, FS_Injection
<1> QED
  BY <1>7 DEF TornLineCost

(***************************************************************************)
(* A torn line costs one other call its entry at most, and recent() shows  *)
(* no call that the journal will not have, but for records that failed.    *)
(***************************************************************************)
THEOREM AuditIsServed == PlaneSpec => []AuditServes
<1>1. IInv /\ AuditInv => AuditServes
  BY CostBounded DEF AuditServes, AuditInv
<1> QED
  BY <1>1, InitInv, StepInv, InitAudit, StepAudit, PTL DEF PlaneSpec

-----------------------------------------------------------------------------
(* The session memory.  The inductive invariant says of the offsets in     *)
(* memory what the properties say of the saved ones: every message below   *)
(* them was returned, is among the items being collected, or was passed    *)
(* over.                                                                   *)

-----------------------------------------------------------------------------
(* The file being read *)

\* A set of numbers that is not empty has a least element.
LEMMA LeastPath ==
  ASSUME NEW S, S \subseteq Nat, S # {}
  PROVE  \E f \in S : \A g \in S : f <= g
<1>1. IsWellFoundedOn(OpToRel(<, Nat), Nat)
  BY NatLessThanWellFounded
<1>2. PICK f \in S : \A y \in Nat : <<y, f>> \in OpToRel(<, Nat) => y \notin S
  BY <1>1, WFMin
<1>3. \A g \in S : f <= g
  <2> TAKE g \in S
  <2>1. f \in Nat /\ g \in Nat
    OBVIOUS
  <2>2. CASE g < f
    <3>1. <<g, f>> \in OpToRel(<, Nat)
      BY <2>1, <2>2 DEF OpToRel
    <3>2. QED
      BY <2>1, <3>1, <1>2
  <2>3. CASE ~(g < f)
    BY <2>1, <2>3
  <2>4. QED
    BY <2>2, <2>3
<1>4. QED
  BY <1>3

\* The extraction visits a file that it has yet to visit.
LEMMA CurrentVisited ==
  ASSUME todo \subseteq Path, todo # {}
  PROVE  Current \in todo
<1>1. todo \subseteq Nat
  BY SizeAssumption DEF Path
<1>2. \E f \in todo : \A g \in todo : f <= g
  BY <1>1, LeastPath
<1>3. QED
  BY <1>2 DEF Current

-----------------------------------------------------------------------------
(* Types *)

\* What an extraction makes of a file are items.
LEMMA ExtractedTyped ==
  ASSUME NEW f \in Path, NEW n \in Size, size \in [Path -> Size]
  PROVE  Extracted(f, n) \subseteq Item
<1> DEFINE K == Messages(f, n)
<1>1. ASSUME NEW k \in K PROVE k \in Line /\ Number(k, n) \in Line
  <2>1. k \in Int /\ n \in Int /\ k >= 1 /\ k <= MaxLines /\ 2 * (k - 1) >= n /\ n >= 0
    BY SizeAssumption DEF Messages, Line, Size
  <2>2. n \div 2 \in Int /\ n \div 2 <= k - 1 /\ n \div 2 >= 0
    BY <2>1
  <2>3. QED
    BY <2>1, <2>2, SizeAssumption DEF Number, Line, Messages
<1>2. {Message(f, k, n) : k \in K} \subseteq Item
  BY <1>1 DEF Message, Item
<1>3. Summary(f, K, n) \subseteq Item
  <2> SUFFICES ASSUME NEW ab \in K \X K
               PROVE  [kind |-> "summary", path |-> f, first |-> ab[1],
                       line |-> ab[2], number |-> Number(ab[2], n)] \in Item
    BY DEF Summary
  <2>1. ab[1] \in K /\ ab[2] \in K
    OBVIOUS
  <2>2. QED
    BY <2>1, <1>1 DEF Item
<1>4. QED
  BY <1>2, <1>3 DEF Extracted

\* Where a read starts is a size.
LEMMA StartTyped ==
  ASSUME TypeOK, todo # {}
  PROVE  /\ StartOffset \in Size
         /\ StartOffset = 0 \/ StartOffset = mem.off[Current]
<1>1. Current \in Path
  BY CurrentVisited DEF TypeOK
<1>2. mem.off[Current] \in Size
  BY <1>1 DEF TypeOK, Data
<1>3. 0 \in Size
  BY SizeAssumption DEF Size
<1>4. QED
  BY <1>2, <1>3 DEF StartOffset

\* An offset that moves stays an offset.
LEMMA OffsetTyped ==
  ASSUME mem \in Data, NEW f \in Path, NEW n \in Size
  PROVE  /\ SetOffset(f, n) \in Data
         /\ SetOffset(f, n).hashes = mem.hashes
         /\ SetOffset(f, n).off = [mem.off EXCEPT ![f] = n]
  BY DEF SetOffset, Data

LEMMA EmptyTyped == Empty \in Data /\ Empty.off = [f \in Path |-> 0] /\ Empty.hashes = {}
  BY SizeAssumption DEF Empty, Data, Size

\* A file is being read: its size has been measured, and it is read from its
\* offset or from its start.
Reading ==
  pc = "read" =>
    /\ todo # {}
    /\ upto <= size[Current]
    /\ from = 0 \/ from = mem.off[Current]

Typed == TypeOK /\ Reading

LEMMA InitTyped == Init => Typed
<1> SUFFICES ASSUME Init PROVE Typed
  OBVIOUS
<1>1. 0 \in Size
  BY SizeAssumption DEF Size
<1>2. disk \in File
  BY EmptyTyped DEF Init, Whole, File
<1>3. QED
  BY <1>1, <1>2, EmptyTyped, HabitAssumption DEF Init, TypeOK, Typed, Reading

LEMMA StepReading == Typed /\ [Next]_vars => Reading'
<1> SUFFICES ASSUME TypeOK, Reading, [Next]_vars, pc' = "read"
             PROVE  /\ todo' # {}
                    /\ upto' <= size'[Current']
                    /\ from' = 0 \/ from' = mem'.off[Current']
  BY DEF Typed, Reading
<1>1. ASSUME NEW f \in Path, WriterAppends(f)
      PROVE  /\ todo' # {}
             /\ upto' <= size'[Current']
             /\ from' = 0 \/ from' = mem'.off[Current']
  <2>1. PICK n \in {1, 2} : size' = [size EXCEPT ![f] = @ + n]
    BY <1>1 DEF WriterAppends
  <2>2. /\ pc = "read" /\ todo' = todo /\ Current' = Current /\ upto' = upto
        /\ from' = from /\ mem' = mem
    BY <1>1 DEF WriterAppends, reader, Current
  <2>3. Current \in Path /\ upto \in Int /\ todo # {}
    BY <2>2, CurrentVisited, SizeAssumption DEF TypeOK, Reading, Size
  <2>4. \A g \in Path : size[g] \in Int
    BY SizeAssumption DEF TypeOK, Size
  <2>5. size'[Current] >= size[Current]
    BY <2>1, <2>3, <2>4 DEF TypeOK
  <2>6. size'[Current] \in Int
    BY <2>1, <2>3, <2>4 DEF TypeOK
  <2>7. upto <= size'[Current]
    BY <2>2, <2>3, <2>4, <2>5, <2>6 DEF Reading
  <2>8. QED
    BY <2>2, <2>3, <2>7 DEF Reading
<1>2. CASE Measure
  <2>1. todo' = todo /\ size' = size /\ mem' = mem /\ from' = StartOffset /\ upto' = size[Current]
    BY <1>2 DEF Measure
  <2>2. Current' = Current /\ todo # {}
    BY <1>2, <2>1 DEF Current, Measure
  <2>3. size[Current] \in Int
    BY <2>2, CurrentVisited, SizeAssumption DEF TypeOK, Size
  <2>4. QED
    BY <2>1, <2>2, <2>3, StartTyped
<1>3. CASE UNCHANGED vars
  BY <1>3 DEF vars, reader, Reading, Current
<1>4. QED
  BY <1>1, <1>2, <1>3
  DEF Next, Open, Begin, Read, Return, Raise, Mark, Rewrite, Replace, SaveFails, Exit

LEMMA StepTyped == Typed /\ [Next]_vars => Typed'
<1> SUFFICES ASSUME TypeOK, Reading, [Next]_vars PROVE TypeOK'
  BY StepReading DEF Typed
<1>0. 0 \in Size /\ Empty \in Data
  BY EmptyTyped, SizeAssumption DEF Size
<1>1. ASSUME NEW f \in Path, WriterAppends(f) PROVE TypeOK'
  <2>1. PICK n \in {1, 2} : size[f] + n <= 2 * MostLines /\ size' = [size EXCEPT ![f] = @ + n]
    BY <1>1 DEF WriterAppends
  <2>0. MostLines \in Nat /\ MostLines <= MaxLines
    BY SizeAssumption DEF MostLines
  <2>2. size[f] + n \in Size
    BY <2>0, <2>1, SizeAssumption DEF TypeOK, Size
  <2>3. size' \in [Path -> Size]
    BY <2>1, <2>2 DEF TypeOK
  <2>4. QED
    BY <1>1, <2>3 DEF TypeOK, WriterAppends, reader
<1>2. CASE Open
  BY <1>2, ScopeAssumption DEF TypeOK, Open, File
<1>3. CASE Begin
  BY <1>3 DEF TypeOK, Begin
<1>4. CASE Measure
  <2>1. Current \in Path /\ StartOffset \in Size /\ size[Current] \in Size
    BY <1>4, CurrentVisited, StartTyped DEF Measure, TypeOK
  <2>2. SetOffset(Current, size[Current]) \in Data
    BY <2>1, OffsetTyped DEF TypeOK
  <2>3. Begun(Current, size[Current]) \subseteq Path \X Line
    BY <2>1 DEF Begun
  <2>4. /\ mem' \in Data /\ todo' \in SUBSET Path /\ from' \in Size /\ upto' \in Size
        /\ passed' \in SUBSET (Path \X Line) /\ pc' \in {"next", "read"}
    BY <1>4, <2>1, <2>2, <2>3 DEF Measure, TypeOK
  <2>5. QED
    BY <1>4, <2>4 DEF Measure, TypeOK
<1>5. CASE Read
  <2>1. Current \in Path
    BY <1>5, CurrentVisited DEF TypeOK, Read, Reading
  <2>2. Extracted(Current, from) \subseteq Item
    BY <2>1, ExtractedTyped DEF TypeOK
  <2>3. SetOffset(Current, upto) \in Data
    BY <2>1, OffsetTyped DEF TypeOK
  <2>4. Torn(Current) \subseteq Path \X Line
    BY <2>1 DEF Torn
  <2>5. got' \in SUBSET Item /\ mem' \in Data /\ passed' \in SUBSET (Path \X Line)
    BY <1>5, <2>2, <2>3, <2>4 DEF Read, TypeOK
  <2>6. QED
    BY <1>5, <1>0, <2>5 DEF Read, TypeOK
<1>6. CASE Return
  BY <1>6 DEF TypeOK, Return
<1>7. CASE Raise
  <2>1. {<<i.path, i.line>> : i \in got} \subseteq Path \X Line
    BY DEF TypeOK, Item
  <2>2. QED
    BY <1>7, <1>0, <2>1 DEF TypeOK, Raise
<1>8. CASE Mark
  <2>1. PICK S \in SUBSET out : mem' = [mem EXCEPT !.hashes = @ \cup S] /\ out' = out \ S
    BY <1>8 DEF Mark
  <2>2. mem' \in Data
    BY <2>1 DEF TypeOK, Data
  <2>3. QED
    BY <1>8, <2>1, <2>2 DEF TypeOK, Mark
<1>9. CASE Rewrite
  BY <1>9 DEF TypeOK, Rewrite, reader
<1>10. CASE Replace
  <2>1. disk' \in File
    BY <1>10 DEF Replace, Whole, File, TypeOK
  <2>2. QED
    BY <1>10, <2>1 DEF TypeOK, Replace, reader
<1>11. CASE SaveFails
  BY <1>11 DEF TypeOK, SaveFails, reader
<1>12. CASE Exit
  BY <1>12, <1>0 DEF TypeOK, Exit
<1>13. CASE UNCHANGED vars
  BY <1>13 DEF TypeOK, vars, reader
<1>14. QED
  BY <1>1, <1>2, <1>3, <1>4, <1>5, <1>6, <1>7, <1>8, <1>9, <1>10, <1>11, <1>12, <1>13
  DEF Next

\* Every variable has its type: a read starts at an offset of its file, and the
\* numbers of its lines are line numbers.
THEOREM TypeCorrect == Spec => []TypeOK
<1>1. Typed => TypeOK
  BY DEF Typed
<1>2. QED
  BY InitTyped, StepTyped, <1>1, PTL DEF Spec
-----------------------------------------------------------------------------
(* The messages below the offsets *)

LEMMA AccountedMore ==
  ASSUME NEW I, NEW J, NEW off, NEW P, NEW Q, I \subseteq J, P \subseteq Q,
         Accounted(I, off, P)
  PROVE  Accounted(J, off, Q)
  BY DEF Accounted

\* Nothing lies below the offsets of an empty state.
LEMMA AccountedEmpty ==
  ASSUME NEW I, NEW P
  PROVE  Accounted(I, Empty.off, P)
<1> SUFFICES ASSUME NEW f \in Path, NEW k \in Line, k > 1, 2 * k - 1 <= 0 PROVE FALSE
  BY EmptyTyped DEF Accounted
<1>1. QED
  BY SizeAssumption DEF Line

\* The offset of one file moves.
LEMMA OffsetMoves ==
  ASSUME mem \in Data, NEW f \in Path, NEW n \in Size, NEW I, NEW P,
         Accounted(I, mem.off, P),
         \A k \in Line : (k > 1 /\ 2 * k - 1 <= n) =>
           \/ \E i \in I : i.kind = "message" /\ i.path = f /\ i.line = k
           \/ <<f, k>> \in P
  PROVE  Accounted(I, SetOffset(f, n).off, P)
<1>1. SetOffset(f, n).off = [mem.off EXCEPT ![f] = n] /\ mem.off \in [Path -> Size]
  BY OffsetTyped DEF Data
<1>2. \A g \in Path : SetOffset(f, n).off[g] = IF g = f THEN n ELSE mem.off[g]
  BY <1>1
<1> SUFFICES ASSUME NEW g \in Path, NEW k \in Line, k > 1, 2 * k - 1 <= SetOffset(f, n).off[g]
             PROVE  \/ \E i \in I : i.kind = "message" /\ i.path = g /\ i.line = k
                    \/ <<g, k>> \in P
  BY DEF Accounted
<1>3. CASE g = f
  BY <1>2, <1>3
<1>4. CASE g # f
  BY <1>2, <1>4 DEF Accounted
<1>5. QED
  BY <1>3, <1>4

\* A file that is measured is passed over whole, or keeps its offset.
LEMMA MeasureAccounts ==
  ASSUME TypeOK, Measure, NEW I, Accounted(I, mem.off, passed)
  PROVE  Accounted(I, mem'.off, passed')
<1>1. CASE mem' = mem /\ passed' = passed
  BY <1>1
<1>2. CASE mem' = SetOffset(Current, size[Current]) /\ passed' = passed \cup Begun(Current, size[Current])
  <2>1. Current \in Path /\ size[Current] \in Size
    BY CurrentVisited DEF TypeOK, Measure
  <2>2. Accounted(I, mem.off, passed')
    BY <1>2, AccountedMore
  <2>3. \A k \in Line : 2 * k - 1 <= size[Current] => <<Current, k>> \in passed'
    BY <1>2 DEF Begun
  <2>4. Accounted(I, SetOffset(Current, size[Current]).off, passed')
    BY <2>1, <2>2, <2>3, OffsetMoves DEF TypeOK
  <2>5. QED
    BY <1>2, <2>4
<1>3. QED
  BY <1>1, <1>2 DEF Measure

LEMMA MeasureKeeps ==
  ASSUME TypeOK, Measure
  PROVE  passed \subseteq passed' /\ mem'.hashes = mem.hashes
<1>1. Current \in Path
  BY CurrentVisited DEF TypeOK, Measure
<1>2. mem \in Data /\ size[Current] \in Size
  BY <1>1 DEF TypeOK
<1>3. SetOffset(Current, size[Current]).hashes = mem.hashes
  BY <1>1, <1>2, OffsetTyped
<1>4. QED
  BY <1>3 DEF Measure

\* A line below the measured size lies below the offset where the read began,
\* or was read, or was half written.
LEMMA LineRead ==
  ASSUME TypeOK, Reading, pc = "read", NEW k \in Line, k > 1, 2 * k - 1 <= upto
  PROVE  \/ 2 * k - 1 <= mem.off[Current]
         \/ k \in Messages(Current, from)
         \/ <<Current, k>> \in Torn(Current)
<1>1. k \in Int /\ upto \in Int /\ from \in Int /\ from >= 0
  BY SizeAssumption DEF TypeOK, Size, Line
<1>2. size[Current] \in Int
  BY CurrentVisited, SizeAssumption DEF TypeOK, Reading, Size
<1>3. upto <= size[Current] /\ (from = 0 \/ from = mem.off[Current])
  BY DEF Reading
<1>4. CASE 2 * (k - 1) < from
  <2>1. from = mem.off[Current] /\ 2 * k - 1 <= from
    BY <1>1, <1>3, <1>4
  <2>2. QED
    BY <2>1
<1>5. CASE 2 * (k - 1) >= from /\ 2 * k <= size[Current]
  BY <1>5 DEF Messages
<1>6. CASE 2 * k > size[Current]
  <2>1. upto = 2 * k - 1 /\ size[Current] < 2 * k
    BY <1>1, <1>2, <1>3, <1>6
  <2>2. QED
    BY <2>1 DEF Torn
<1>7. QED
  BY <1>1, <1>2, <1>4, <1>5, <1>6

\* What a read collects, and what it drops because its hash is known, accounts
\* for the lines it moves the offset over.
LEMMA ReadAccounts ==
  ASSUME TypeOK, Reading, Read, NEW I, Accounted(I, mem.off, passed), mem.hashes \subseteq I
  PROVE  Accounted(I \cup got', mem'.off, passed')
<1> DEFINE f == Current
<1>1. pc = "read" /\ mem' = SetOffset(f, upto) /\ passed' = passed \cup Torn(f)
      /\ got' = got \cup (Extracted(f, from) \ mem.hashes)
  BY DEF Read
<1>2. f \in Path /\ upto \in Size /\ mem \in Data
  BY <1>1, CurrentVisited DEF TypeOK, Reading
<1>3. Accounted(I \cup got', mem.off, passed')
  BY <1>1, AccountedMore
<1>4. ASSUME NEW k \in Line, k > 1, 2 * k - 1 <= upto
      PROVE  \/ \E i \in I \cup got' : i.kind = "message" /\ i.path = f /\ i.line = k
             \/ <<f, k>> \in passed'
  <2>1. CASE 2 * k - 1 <= mem.off[f]
    BY <1>2, <1>3, <1>4, <2>1 DEF Accounted
  <2>2. CASE k \in Messages(f, from)
    <3>1. Message(f, k, from) \in Extracted(f, from)
      BY <2>2 DEF Extracted
    <3>2. Message(f, k, from) \in I \cup got'
      BY <3>1, <1>1
    <3>3. /\ Message(f, k, from).kind = "message"
          /\ Message(f, k, from).path = f
          /\ Message(f, k, from).line = k
      BY DEF Message
    <3>4. QED
      BY <3>2, <3>3
  <2>3. CASE <<f, k>> \in Torn(f)
    BY <1>1, <2>3
  <2>4. QED
    BY <1>1, <1>4, <2>1, <2>2, <2>3, LineRead
<1>5. Accounted(I \cup got', SetOffset(f, upto).off, passed')
  <2> HIDE DEF f
  <2>1. QED
    BY <1>2, <1>3, <1>4, OffsetMoves
<1>6. QED
  BY <1>1, <1>5

\* An extraction that raises passes over the lines of its items.
LEMMA RaiseAccounts ==
  ASSUME Raise, NEW I, Accounted(I \cup got, mem.off, passed)
  PROVE  Accounted(I, mem'.off, passed')
<1>1. mem' = mem /\ passed' = passed \cup {<<i.path, i.line>> : i \in got}
  BY DEF Raise
<1> SUFFICES ASSUME NEW f \in Path, NEW k \in Line, k > 1, 2 * k - 1 <= mem.off[f]
             PROVE  \/ \E i \in I : i.kind = "message" /\ i.path = f /\ i.line = k
                    \/ <<f, k>> \in passed'
  BY <1>1 DEF Accounted
<1>2. CASE <<f, k>> \in passed
  BY <1>1, <1>2
<1>3. CASE \E i \in I \cup got : i.kind = "message" /\ i.path = f /\ i.line = k
  BY <1>1, <1>3
<1>4. QED
  BY <1>2, <1>3 DEF Accounted
-----------------------------------------------------------------------------
(* Nothing is withheld *)

\* What is stored, marked or on its way was returned; the messages below the
\* offsets in memory were returned or are being collected.
Withheld ==
  /\ disk.whole
  /\ mem.hashes \cup disk.data.hashes \cup out \subseteq given
  /\ pc \notin {"next", "read"} => got = {}
  /\ Accounted(given, disk.data.off, passed)
  /\ Accounted(given \cup got, mem.off, passed)

LEMMA InitWithheld == Init => Withheld
<1> SUFFICES ASSUME Init PROVE Withheld
  OBVIOUS
<1>1. mem = Empty /\ disk.data = Empty /\ disk.whole
  BY DEF Init, Whole
<1>2. QED
  BY <1>1, EmptyTyped, AccountedEmpty DEF Init, Withheld

LEMMA StepWithheld == Typed /\ Withheld /\ [Next]_vars => Withheld'
<1> SUFFICES ASSUME Typed, Withheld, [Next]_vars PROVE Withheld'
  OBVIOUS
<1> USE DEF Typed
<1>1. ASSUME NEW f \in Path, WriterAppends(f) PROVE Withheld'
  BY <1>1 DEF WriterAppends, reader, Withheld, Accounted
<1>2. CASE Open
  <2>1. mem' = disk.data /\ got' = got /\ given' = given /\ disk' = disk /\ out' = out /\ passed' = passed
    BY <1>2 DEF Open
  <2>2. Accounted(given' \cup got', mem'.off, passed')
    BY <2>1, AccountedMore DEF Withheld
  <2>3. QED
    BY <1>2, <2>1, <2>2 DEF Open, Withheld
<1>3. CASE Begin
  BY <1>3 DEF Begin, Withheld
<1>4. CASE Measure
  <2>1. Accounted(given \cup got, mem'.off, passed')
    BY <1>4, MeasureAccounts DEF Withheld
  <2>2. passed \subseteq passed' /\ mem'.hashes = mem.hashes
    BY <1>4, MeasureKeeps
  <2>3. Accounted(given, disk.data.off, passed')
    BY <2>2, AccountedMore DEF Withheld
  <2>4. pc' \in {"next", "read"}
    BY <1>4 DEF Measure
  <2>5. QED
    BY <1>4, <2>1, <2>2, <2>3, <2>4 DEF Measure, Withheld
<1>5. CASE Read
  <2>1. Accounted((given \cup got) \cup got', mem'.off, passed')
    BY <1>5, ReadAccounts DEF Withheld
  <2>2. got \subseteq got' /\ passed \subseteq passed' /\ pc' = "next"
    BY <1>5 DEF Read
  <2>3. Accounted(given \cup got', mem'.off, passed')
    BY <2>1, <2>2, AccountedMore
  <2>4. Accounted(given, disk.data.off, passed')
    BY <2>2, AccountedMore DEF Withheld
  <2>5. mem'.hashes = mem.hashes
    BY <1>5, CurrentVisited, OffsetTyped DEF Read, Reading, TypeOK
  <2>6. QED
    BY <1>5, <2>2, <2>3, <2>4, <2>5 DEF Read, Withheld
<1>6. CASE Return
  <2>1. given' = given \cup got /\ got' = {} /\ out' = got /\ mem' = mem /\ disk' = disk /\ passed' = passed
    BY <1>6 DEF Return
  <2>2. Accounted(given', disk'.data.off, passed')
    BY <2>1, AccountedMore DEF Withheld
  <2>3. Accounted(given' \cup got', mem'.off, passed')
    BY <2>1, AccountedMore DEF Withheld
  <2>4. QED
    BY <2>1, <2>2, <2>3 DEF Withheld
<1>7. CASE Raise
  <2>1. Accounted(given, mem'.off, passed')
    BY <1>7, RaiseAccounts DEF Withheld
  <2>2. passed \subseteq passed' /\ got' = {} /\ given' = given /\ mem' = mem /\ disk' = disk /\ out' = out
    BY <1>7 DEF Raise
  <2>3. Accounted(given, disk.data.off, passed')
    BY <2>2, AccountedMore DEF Withheld
  <2>4. given \cup got' = given
    BY <2>2
  <2>5. QED
    BY <2>1, <2>2, <2>3, <2>4 DEF Withheld
<1>8. CASE Mark
  <2>1. PICK S \in SUBSET out : mem' = [mem EXCEPT !.hashes = @ \cup S] /\ out' = out \ S
    BY <1>8 DEF Mark
  <2>2. mem'.off = mem.off /\ mem'.hashes = mem.hashes \cup S
    BY <2>1 DEF TypeOK, Data
  <2>3. pc = "idle" /\ got' = got /\ given' = given /\ disk' = disk /\ passed' = passed
    BY <1>8 DEF Mark
  <2>4. QED
    BY <2>1, <2>2, <2>3 DEF Withheld
<1>9. CASE Rewrite
  BY <1>9 DEF Rewrite, reader, Withheld
<1>10. CASE Replace
  <2>1. got = {} /\ disk'.data = mem /\ disk'.whole /\ mem' = mem /\ got' = got /\ out' = out
        /\ given' = given /\ passed' = passed
    BY <1>10 DEF Replace, Whole, reader, Withheld
  <2>2. given \cup got = given
    BY <2>1
  <2>3. QED
    BY <2>1, <2>2 DEF Withheld
<1>11. CASE SaveFails
  BY <1>11 DEF SaveFails, reader, Withheld
<1>12. CASE Exit
  <2>1. mem' = Empty /\ got' = {} /\ out' = {} /\ given' = given /\ passed' = passed /\ disk' = disk
    BY <1>12 DEF Exit
  <2>2. QED
    BY <2>1, EmptyTyped, AccountedEmpty DEF Withheld
<1>13. CASE UNCHANGED vars
  BY <1>13 DEF vars, reader, Withheld
<1>14. QED
  BY <1>1, <1>2, <1>3, <1>4, <1>5, <1>6, <1>7, <1>8, <1>9, <1>10, <1>11, <1>12, <1>13
  DEF Next

\* Whatever interrupts a save, the next start can load the state file.
THEOREM StateAlwaysLoads == Spec => []StateLoads
<1>1. Withheld => StateLoads
  BY DEF Withheld, StateLoads
<1>2. QED
  BY InitTyped, StepTyped, InitWithheld, StepWithheld, <1>1, PTL DEF Spec

\* No message below a saved offset was kept from the caller, but for the lines
\* that were passed over.
THEOREM NothingIsWithheld == Spec => []NothingWithheld
<1>1. Withheld => NothingWithheld
  BY DEF Withheld, NothingWithheld
<1>2. QED
  BY InitTyped, StepTyped, InitWithheld, StepWithheld, <1>1, PTL DEF Spec

-----------------------------------------------------------------------------
(* What is saved is stored *)

\* The messages below the saved offsets are stored; those below the offsets in
\* memory are marked, being collected, or with the caller, who marks them before
\* the next extraction.
Stored ==
  /\ pc \notin {"off", "idle"} => out = {}
  /\ pc \notin {"next", "read"} => got = {}
  /\ Accounted(disk.data.hashes, disk.data.off, passed)
  /\ Accounted(mem.hashes \cup got \cup out, mem.off, passed)

StoredIfMarked == "picky" \in habit \/ Stored

LEMMA InitStored == Init => Stored
<1> SUFFICES ASSUME Init PROVE Stored
  OBVIOUS
<1>1. mem = Empty /\ disk.data = Empty
  BY DEF Init, Whole
<1>2. QED
  BY <1>1, EmptyTyped, AccountedEmpty DEF Init, Stored

\* Habits do not change.
LEMMA HabitKept == [Next]_vars => habit' = habit
  BY DEF Next, vars, WriterAppends, Open, Begin, Measure, Read, Return, Raise, Mark, Rewrite,
         Replace, SaveFails, Exit

LEMMA StepStored == Typed /\ StoredIfMarked /\ [Next]_vars => StoredIfMarked'
<1> SUFFICES ASSUME Typed, Stored, [Next]_vars, "picky" \notin habit PROVE Stored'
  BY HabitKept DEF StoredIfMarked
<1> USE DEF Typed
<1>1. ASSUME NEW f \in Path, WriterAppends(f) PROVE Stored'
  BY <1>1 DEF WriterAppends, reader, Stored, Accounted
<1>2. CASE Open
  <2>1. mem' = disk.data /\ got' = got /\ disk' = disk /\ out' = out /\ passed' = passed /\ pc' = "idle"
    BY <1>2 DEF Open
  <2>2. Accounted(mem'.hashes \cup got' \cup out', mem'.off, passed')
    BY <2>1, AccountedMore DEF Stored
  <2>3. QED
    BY <1>2, <2>1, <2>2 DEF Open, Stored
<1>3. CASE Begin
  <2>1. out = {} /\ got = {} /\ out' = {} /\ got' = {} /\ mem' = mem /\ disk' = disk /\ passed' = passed
        /\ pc' = "next"
    BY <1>3 DEF Begin, Stored
  <2>2. QED
    BY <2>1 DEF Stored
<1>4. CASE Measure
  <2>1. Accounted(mem.hashes \cup got \cup out, mem'.off, passed')
    BY <1>4, MeasureAccounts DEF Stored
  <2>2. passed \subseteq passed' /\ mem'.hashes = mem.hashes
    BY <1>4, MeasureKeeps
  <2>3. Accounted(disk.data.hashes, disk.data.off, passed')
    BY <2>2, AccountedMore DEF Stored
  <2>4. pc = "next" /\ pc' \in {"next", "read"} /\ got' = got /\ out' = out /\ disk' = disk
    BY <1>4 DEF Measure
  <2>5. QED
    BY <2>1, <2>2, <2>3, <2>4 DEF Stored
<1>5. CASE Read
  <2>1. Accounted((mem.hashes \cup got \cup out) \cup got', mem'.off, passed')
    BY <1>5, ReadAccounts DEF Stored
  <2>2. /\ got \subseteq got' /\ passed \subseteq passed' /\ pc = "read" /\ pc' = "next"
        /\ out' = out /\ disk' = disk
    BY <1>5 DEF Read
  <2>3. mem'.hashes = mem.hashes
    BY <1>5, CurrentVisited, OffsetTyped DEF Read, Reading, TypeOK
  <2>4. Accounted(mem'.hashes \cup got' \cup out', mem'.off, passed')
    BY <2>1, <2>2, <2>3, AccountedMore
  <2>5. Accounted(disk.data.hashes, disk.data.off, passed')
    BY <2>2, AccountedMore DEF Stored
  <2>6. QED
    BY <2>2, <2>4, <2>5 DEF Stored
<1>6. CASE Return
  <2>1. /\ pc = "next" /\ pc' = "idle" /\ got' = {} /\ out' = got /\ mem' = mem
        /\ disk' = disk /\ passed' = passed
    BY <1>6 DEF Return
  <2>2. out = {}
    BY <2>1 DEF Stored
  <2>3. mem'.hashes \cup got' \cup out' = mem.hashes \cup got \cup out
    BY <2>1, <2>2
  <2>4. QED
    BY <2>1, <2>3 DEF Stored
<1>7. CASE Raise
  <2>1. out = {} /\ out' = out /\ got' = {} /\ mem' = mem /\ disk' = disk /\ passed \subseteq passed'
    BY <1>7 DEF Raise, Stored
  <2>2. Accounted(mem.hashes, mem'.off, passed')
    <3>1. Accounted(mem.hashes \cup got, mem.off, passed)
      BY <2>1, AccountedMore DEF Stored
    <3>2. QED
      BY <1>7, <3>1, RaiseAccounts
  <2>3. Accounted(disk.data.hashes, disk.data.off, passed')
    BY <2>1, AccountedMore DEF Stored
  <2>4. mem'.hashes \cup got' \cup out' = mem.hashes
    BY <2>1
  <2>5. QED
    BY <2>1, <2>2, <2>3, <2>4 DEF Stored
<1>8. CASE Mark
  <2>1. mem' = [mem EXCEPT !.hashes = @ \cup out] /\ out' = {}
    BY <1>8 DEF Mark
  <2>2. mem'.off = mem.off /\ mem'.hashes = mem.hashes \cup out
    BY <2>1 DEF TypeOK, Data
  <2>3. got' = got /\ got = {} /\ disk' = disk /\ passed' = passed /\ pc' = "save"
    BY <1>8 DEF Mark, Stored
  <2>4. mem'.hashes \cup got' \cup out' = mem.hashes \cup got \cup out
    BY <2>1, <2>2, <2>3
  <2>5. QED
    BY <2>1, <2>2, <2>3, <2>4 DEF Stored
<1>9. CASE Rewrite
  BY <1>9 DEF Rewrite, reader, Stored
<1>10. CASE Replace
  <2>1. /\ got = {} /\ out = {} /\ disk'.data = mem /\ mem' = mem /\ got' = got /\ out' = out
        /\ passed' = passed
    BY <1>10 DEF Replace, Whole, reader, Stored
  <2>2. mem.hashes \cup got \cup out = mem.hashes
    BY <2>1
  <2>3. QED
    BY <2>1, <2>2 DEF Stored
<1>11. CASE SaveFails
  BY <1>11 DEF SaveFails, reader, Stored
<1>12. CASE Exit
  <2>1. mem' = Empty /\ got' = {} /\ out' = {} /\ passed' = passed /\ disk' = disk
    BY <1>12 DEF Exit
  <2>2. QED
    BY <2>1, EmptyTyped, AccountedEmpty DEF Stored
<1>13. CASE UNCHANGED vars
  BY <1>13 DEF vars, reader, Stored
<1>14. QED
  BY <1>1, <1>2, <1>3, <1>4, <1>5, <1>6, <1>7, <1>8, <1>9, <1>10, <1>11, <1>12, <1>13
  DEF Next

\* With a caller that stores and marks all it gets, every message below a saved
\* offset is stored, wherever the reader was killed or a save failed.
THEOREM SavedAreStored == Spec => []SavedIsStored
<1>1. StoredIfMarked => SavedIsStored
  BY DEF StoredIfMarked, Stored, SavedIsStored
<1>2. Init => StoredIfMarked
  BY InitStored DEF StoredIfMarked
<1>3. QED
  BY InitTyped, StepTyped, StepStored, <1>1, <1>2, PTL DEF Spec
-----------------------------------------------------------------------------
(* No message is stored twice *)

\* Files rest while they are read, and the caller marks what incremental
\* extractions give.
Resting == habit \cap {"growing", "full", "picky"} = {}

\* The messages of I end below the offsets, and there is one of each line.
Below(I, off) == \A i \in I : i.kind = "message" => 2 * i.line <= off[i.path]

Single(I) ==
  \A i, j \in I :
    (i.kind = "message" /\ j.kind = "message" /\ i.path = j.path /\ i.line = j.line) => i = j

\* A read begins where the last one ended, above all that was ever extracted.
Once ==
  /\ full = FALSE
  /\ pc = "off" => out = {}
  /\ \A f \in Path : mem.off[f] <= size[f] /\ disk.data.off[f] <= size[f]
  /\ pc = "read" => from = mem.off[Current] /\ upto = size[Current]
  /\ Below(mem.hashes \cup got \cup out, mem.off)
  /\ Single(mem.hashes \cup got \cup out)
  /\ Below(disk.data.hashes, disk.data.off)
  /\ Single(disk.data.hashes)

OnceIfResting == Resting => Once

\* A message that is read begins after the offset and ends with the file.
LEMMA FreshMessages ==
  ASSUME TypeOK, NEW f \in Path, NEW i \in Extracted(f, mem.off[f]), i.kind = "message"
  PROVE  /\ i.path = f
         /\ i = Message(f, i.line, mem.off[f])
         /\ 2 * i.line > mem.off[f] /\ 2 * i.line <= size[f]
<1> DEFINE n == mem.off[f]
<1>1. i \notin Summary(f, Messages(f, n), n)
  BY DEF Summary
<1>2. PICK k \in Messages(f, n) : i = Message(f, k, n)
  BY <1>1 DEF Extracted
<1>3. i.path = f /\ i.line = k
  BY <1>2 DEF Message
<1>4. k \in Int /\ n \in Int /\ size[f] \in Int /\ 2 * (k - 1) >= n /\ 2 * k <= size[f]
  BY SizeAssumption DEF Messages, Line, TypeOK, Data, Size
<1>5. 2 * k > n
  BY <1>4
<1> QED
  BY <1>2, <1>3, <1>4, <1>5

\* Items that lie below higher offsets as well.
LEMMA BelowHigher ==
  ASSUME NEW I \in SUBSET Item, NEW off \in [Path -> Int], NEW high \in [Path -> Int],
         \A f \in Path : off[f] <= high[f], Below(I, off)
  PROVE  Below(I, high)
<1> SUFFICES ASSUME NEW i \in I, i.kind = "message" PROVE 2 * i.line <= high[i.path]
  BY DEF Below
<1>1. i.path \in Path /\ 2 * i.line \in Int
  BY SizeAssumption DEF Item, Line
<1>2. 2 * i.line <= off[i.path]
  BY DEF Below
<1> QED
  BY <1>1, <1>2

\* The offset of a file moves to its end.
LEMMA EndOffset ==
  ASSUME TypeOK, NEW f \in Path, \A g \in Path : mem.off[g] <= size[g]
  PROVE  /\ SetOffset(f, size[f]).off \in [Path -> Int] /\ mem.off \in [Path -> Int]
         /\ SetOffset(f, size[f]).off[f] = size[f]
         /\ SetOffset(f, size[f]).hashes = mem.hashes
         /\ \A g \in Path : /\ mem.off[g] <= SetOffset(f, size[f]).off[g]
                            /\ SetOffset(f, size[f]).off[g] <= size[g]
<1>1. mem.off \in [Path -> Int] /\ size \in [Path -> Int] /\ size[f] \in Size /\ mem \in Data
  BY SizeAssumption DEF TypeOK, Data, Size
<1>2. /\ SetOffset(f, size[f]).off = [mem.off EXCEPT ![f] = size[f]]
      /\ SetOffset(f, size[f]).hashes = mem.hashes
  BY <1>1, OffsetTyped
<1> QED
  BY <1>1, <1>2

\* What a read adds to what was extracted before has one item of each line.
LEMMA ReadOnce ==
  ASSUME TypeOK, NEW f \in Path, \A g \in Path : mem.off[g] <= size[g],
         NEW I \in SUBSET Item, Below(I, mem.off), Single(I)
  PROVE  /\ Below(I \cup Extracted(f, mem.off[f]), SetOffset(f, size[f]).off)
         /\ Single(I \cup Extracted(f, mem.off[f]))
<1> DEFINE E == Extracted(f, mem.off[f])
           new == SetOffset(f, size[f]).off
<1>1. /\ new \in [Path -> Int] /\ mem.off \in [Path -> Int] /\ new[f] = size[f]
      /\ \A g \in Path : mem.off[g] <= new[g]
  BY EndOffset
<1>2. \A i \in E : i.kind = "message" =>
        /\ i.path = f /\ i = Message(f, i.line, mem.off[f])
        /\ 2 * i.line > mem.off[f] /\ 2 * i.line <= size[f]
  BY FreshMessages
<1> HIDE DEF E, new
<1>3. Below(I, new)
  BY <1>1, BelowHigher
<1>4. Below(I \cup E, new)
  BY <1>1, <1>2, <1>3 DEF Below
<1>5. ASSUME NEW i \in I \cup E, NEW j \in E, i.kind = "message", j.kind = "message",
             i.path = j.path, i.line = j.line
      PROVE  i = j
  <2>1. j.path = f /\ j = Message(f, j.line, mem.off[f]) /\ 2 * j.line > mem.off[f]
    BY <1>2, <1>5
  <2>2. i \notin I
    <3>1. CASE i \in I
      <4>1. 2 * i.line <= mem.off[f] /\ 2 * i.line > mem.off[f]
        BY <1>5, <2>1, <3>1 DEF Below
      <4>2. 2 * i.line \in Int /\ mem.off[f] \in Int
        BY <1>1, <3>1, SizeAssumption DEF Item, Line
      <4> QED
        BY <4>1, <4>2
    <3> QED
      BY <3>1
  <2>3. i = Message(f, i.line, mem.off[f])
    BY <1>2, <1>5, <2>2
  <2> QED
    BY <1>5, <2>1, <2>3
<1>6. Single(I \cup E)
  BY <1>5 DEF Single
<1> QED
  BY <1>4, <1>6 DEF E, new

LEMMA InitOnce == Init => Once
<1> SUFFICES ASSUME Init PROVE Once
  OBVIOUS
<1>1. mem = Empty /\ disk.data = Empty
  BY DEF Init, Whole
<1>2. mem.hashes \cup got \cup out = {} /\ disk.data.hashes = {}
  BY <1>1, EmptyTyped DEF Init
<1>3. Below({}, mem.off) /\ Single({}) /\ Below({}, disk.data.off)
  BY DEF Below, Single
<1>4. \A f \in Path : mem.off[f] <= size[f] /\ disk.data.off[f] <= size[f]
  BY <1>1, EmptyTyped DEF Init
<1> QED
  BY <1>2, <1>3, <1>4 DEF Init, Once

LEMMA StepOnce == Typed /\ StoredIfMarked /\ OnceIfResting /\ [Next]_vars => OnceIfResting'
<1> SUFFICES ASSUME Typed, Stored, Once, [Next]_vars, Resting PROVE Once'
  BY HabitKept DEF OnceIfResting, StoredIfMarked, Resting
<1> DEFINE all == mem.hashes \cup got \cup out
<1>0. /\ TypeOK /\ mem \in Data /\ disk.data \in Data
      /\ all \in SUBSET Item /\ size \in [Path -> Int]
      /\ mem.off \in [Path -> Int] /\ disk.data.off \in [Path -> Int]
  BY SizeAssumption DEF Typed, TypeOK, File, Data, Size
<1>a. "growing" \notin habit /\ "full" \notin habit /\ "picky" \notin habit
  BY DEF Resting
<1>b. /\ \A f \in Path : mem.off[f] <= size[f] /\ disk.data.off[f] <= size[f]
      /\ Below(all, mem.off) /\ Single(all)
      /\ Below(disk.data.hashes, disk.data.off) /\ Single(disk.data.hashes)
  BY DEF Once
<1>c. \A I, J, off : I \subseteq J => /\ Below(J, off) => Below(I, off)
                                      /\ Single(J) => Single(I)
  BY DEF Below, Single
<1>d. pc \notin {"off", "idle"} => out = {}
  BY DEF Stored
<1>1. ASSUME NEW f \in Path, WriterAppends(f) PROVE Once'
  <2>1. PICK n \in {1, 2} : size' = [size EXCEPT ![f] = @ + n]
    BY <1>1 DEF WriterAppends
  <2>2. \A g \in Path : mem.off[g] <= size'[g] /\ disk.data.off[g] <= size'[g]
    BY <1>0, <1>b, <2>1
  <2>3. /\ pc \notin {"next", "read"} /\ pc' = pc /\ mem' = mem /\ disk' = disk
        /\ got' = got /\ out' = out /\ full' = full
    BY <1>a, <1>1 DEF WriterAppends, reader
  <2> QED
    BY <2>2, <2>3 DEF Once, Below, Single
<1>2. CASE Open
  <2>1. mem' = disk.data /\ got' = got /\ disk' = disk /\ out' = out /\ pc' = "idle" /\ size' = size /\ full' = full
    BY <1>2 DEF Open
  <2>2. got \cup out = {}
    BY <1>2 DEF Open, Stored, Once
  <2>3. mem'.hashes \cup got' \cup out' = disk.data.hashes
    BY <2>1, <2>2
  <2> QED
    BY <1>b, <2>1, <2>3 DEF Once, Below, Single
<1>3. CASE Begin
  <2>1. /\ got' = {} /\ out' = {} /\ mem' = mem /\ disk' = disk /\ size' = size /\ pc' = "next"
        /\ full' = FALSE
    BY <1>a, <1>3 DEF Begin
  <2>2. mem'.hashes \cup got' \cup out' \subseteq all
    BY <2>1
  <2>3. Below(mem'.hashes \cup got' \cup out', mem.off) /\ Single(mem'.hashes \cup got' \cup out')
    BY <1>b, <1>c, <2>2
  <2> QED
    BY <1>b, <2>1, <2>3 DEF Once
<1>4. CASE Measure
  <2>1. Current \in Path
    BY <1>0, <1>4, CurrentVisited DEF TypeOK, Measure
  <2>2. got' = got /\ out' = out /\ disk' = disk /\ size' = size /\ full' = full
    BY <1>4 DEF Measure
  <2>3. CASE mem' = mem /\ (pc' = "read" => todo' = todo /\ from' = StartOffset /\ upto' = size[Current])
    <3>1. StartOffset = mem.off[Current]
      BY <1>0, <1>b, <2>1 DEF StartOffset, Once
    <3>2. todo' = todo => Current' = Current
      BY DEF Current
    <3>3. pc' = "read" => from' = mem'.off[Current'] /\ upto' = size'[Current']
      BY <2>2, <2>3, <3>1, <3>2
    <3>4. /\ pc' # "off" /\ mem'.hashes \cup got' \cup out' = all /\ mem'.off = mem.off
          /\ disk'.data = disk.data
      BY <1>4, <2>2, <2>3 DEF Measure
    <3>5. full' = FALSE
      BY <2>2 DEF Once
    <3> HIDE DEF all
    <3> QED
      BY <1>b, <2>2, <2>3, <3>3, <3>4, <3>5 DEF Once
  <2>4. CASE mem' = SetOffset(Current, size[Current]) /\ pc' = "next"
    <3>1. /\ mem'.off \in [Path -> Int] /\ mem'.hashes = mem.hashes
          /\ \A g \in Path : mem.off[g] <= mem'.off[g] /\ mem'.off[g] <= size[g]
      BY <1>0, <1>b, <2>1, <2>4, EndOffset
    <3>2. Below(all, mem'.off)
      BY <1>0, <1>b, <3>1, BelowHigher
    <3> QED
      BY <1>b, <2>2, <2>4, <3>1, <3>2 DEF Once
  <2>5. pc = "next"
    BY <1>4 DEF Measure
  <2> QED
    BY <1>4, <2>3, <2>4, <2>5 DEF Measure
<1>5. CASE Read
  <2>1. /\ Current \in Path /\ from = mem.off[Current] /\ upto = size[Current] /\ pc' = "next"
        /\ out' = out /\ disk' = disk /\ size' = size /\ full' = full
        /\ mem' = SetOffset(Current, size[Current])
        /\ got' = got \cup (Extracted(Current, mem.off[Current]) \ mem.hashes)
    BY <1>0, <1>5, CurrentVisited DEF TypeOK, Read, Once, Reading, Typed
  <2>2. /\ mem'.hashes = mem.hashes /\ \A g \in Path : mem'.off[g] <= size[g]
    BY <1>0, <1>b, <2>1, EndOffset
  <2>3. mem'.hashes \cup got' \cup out' \subseteq all \cup Extracted(Current, mem.off[Current])
    BY <2>1, <2>2
  <2>4. /\ Below(all \cup Extracted(Current, mem.off[Current]), mem'.off)
        /\ Single(all \cup Extracted(Current, mem.off[Current]))
    <3> HIDE DEF all
    <3> QED
      BY <1>0, <1>b, <2>1, ReadOnce
  <2>5. Below(mem'.hashes \cup got' \cup out', mem'.off) /\ Single(mem'.hashes \cup got' \cup out')
    BY <1>c, <2>3, <2>4
  <2> QED
    BY <1>b, <2>1, <2>2, <2>5 DEF Once
<1>6. CASE Return \/ Raise
  <2>1. /\ pc' = "idle" /\ got' = {} /\ out' \subseteq got \cup out /\ mem' = mem /\ disk' = disk
        /\ size' = size /\ full' = FALSE
    BY <1>6 DEF Return, Raise
  <2>2. mem'.hashes \cup got' \cup out' \subseteq all
    BY <2>1
  <2>3. Below(mem'.hashes \cup got' \cup out', mem.off) /\ Single(mem'.hashes \cup got' \cup out')
    BY <1>b, <1>c, <2>2
  <2> QED
    BY <1>b, <2>1, <2>3 DEF Once
<1>7. CASE Mark
  <2>1. PICK S \in SUBSET out : mem' = [mem EXCEPT !.hashes = @ \cup S] /\ out' = out \ S
    BY <1>7 DEF Mark
  <2>2. mem'.off = mem.off /\ mem'.hashes = mem.hashes \cup S
    BY <1>0, <2>1 DEF Data
  <2>3. got' = got /\ disk' = disk /\ size' = size /\ full' = full /\ pc' = "save"
    BY <1>7 DEF Mark
  <2>4. mem'.hashes \cup got' \cup out' = all
    BY <2>1, <2>2, <2>3
  <2> QED
    BY <1>b, <2>2, <2>3, <2>4 DEF Once
<1>8. CASE Replace
  <2>1. disk'.data = mem /\ mem' = mem /\ got' = got /\ out' = out /\ size' = size /\ full' = full /\ pc' = "idle"
    BY <1>8 DEF Replace, Whole, reader
  <2>2. Below(mem.hashes, mem.off) /\ Single(mem.hashes)
    BY <1>b, <1>c
  <2> QED
    BY <1>b, <2>1, <2>2 DEF Once
<1>9. CASE Rewrite \/ SaveFails
  BY <1>9 DEF Rewrite, SaveFails, reader, Once
<1>10. CASE Exit
  <2>1. mem' = Empty /\ got' = {} /\ out' = {} /\ disk' = disk /\ size' = size /\ full' = FALSE /\ pc' = "off"
    BY <1>10 DEF Exit
  <2>2. mem'.hashes \cup got' \cup out' = {}
    BY <2>1, EmptyTyped
  <2>3. \A f \in Path : mem'.off[f] <= size[f]
    <3>1. \A f \in Path : size[f] >= 0
      BY <1>0, SizeAssumption DEF TypeOK, Size
    <3> QED
      BY <1>0, <2>1, <3>1, EmptyTyped
  <2>4. Below({}, mem'.off) /\ Single({})
    BY DEF Below, Single
  <2> QED
    BY <1>b, <2>1, <2>2, <2>3, <2>4 DEF Once
<1>11. CASE UNCHANGED vars
  BY <1>11 DEF vars, reader, Once, Current
<1> QED
  BY <1>1, <1>2, <1>3, <1>4, <1>5, <1>6, <1>7, <1>8, <1>9, <1>10, <1>11 DEF Next

\* A caller that marks all it gets from incremental extractions of files that
\* rest while they are read stores no message twice: two items of one line are
\* one item, whatever is killed, raised or not saved in between.
THEOREM StoredIsOnce == Spec => []StoredOnce
<1>1. OnceIfResting => StoredOnce
  BY DEF OnceIfResting, Resting, Once, Single, StoredOnce
<1>2. Init => StoredIfMarked /\ OnceIfResting
  BY InitStored, InitOnce DEF StoredIfMarked, OnceIfResting
<1>3. QED
  BY InitTyped, StepTyped, StepStored, StepOnce, <1>1, <1>2, PTL DEF Spec
=============================================================================
