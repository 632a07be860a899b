--------------------------- MODULE ApprovalReceipt ---------------------------
(***************************************************************************)
(* BridgeOAuthRegistrationApprovalReceiptV1: the Backend approves the      *)
(* registration of a client with a receipt, the Bridge presents it with a  *)
(* request, and a verifier accepts each of the two once (evaluate), by the *)
(* rows of what it accepted, which are kept for a time.                    *)
(***************************************************************************)
EXTENDS Naturals, FiniteSets

CONSTANTS
  Jti, Request,       \* identifiers of receipts and of requests
  Metadata,           \* canonical registration metadata
  Kid,                \* admitted keys
  Authority, Expected,\* issuers with their audience; the one of the profile
                      \* or of the InstallationLockV1
  MaxSkew,            \* clock skew that a verifier may admit (30 s)
  Ttl,                \* longest life of a receipt (60 s)
  Age, Ahead,         \* what a request may be old, or in the future (300 s, 30 s)
  Kept,               \* how long its row is kept (360 s)
  MaxRows,            \* rows that a verifier takes (64)
  MaxNow              \* bound on the clock

VARIABLES
  now,
  kids,      \* kids[k]: "active" or "retired"
  revision,  \* the membership revision of the organization
  receipts,  \* receipts that were issued
  made,      \* made[r]: when the request was made, MaxNow + 2 if it was not
  rows,      \* replay rows: [request, receipt, metadata, until]
  accepted   \* history: [request, receipt, at]

vars == <<now, kids, revision, receipts, made, rows, accepted>>

Larger(a, b) == IF a > b THEN a ELSE b
NotMade == MaxNow + 2

Init ==
  /\ now = 0
  /\ kids = [k \in Kid |-> "active"]
  /\ revision = 0
  /\ receipts = {}
  /\ made = [r \in Request |-> NotMade]
  /\ rows = {}
  /\ accepted = {}

-----------------------------------------------------------------------------
Tick ==
  /\ now < MaxNow
  /\ now' = now + 1
  /\ UNCHANGED <<kids, revision, receipts, made, rows, accepted>>

RetireKey(k) ==
  /\ kids' = [kids EXCEPT ![k] = "retired"]
  /\ UNCHANGED <<now, revision, receipts, made, rows, accepted>>

\* The membership or the entitlement of the organization changes.
Revise ==
  /\ revision = 0
  /\ revision' = 1
  /\ UNCHANGED <<now, kids, receipts, made, rows, accepted>>

\* The Backend signs a receipt; its clock may be ahead of the verifier's.
Issue(j, k) ==
  /\ \A r \in receipts : r.jti # j
  /\ \E m \in Metadata, iss \in Authority, iat \in {now, now + 1}, life \in 1 .. Ttl, wait \in {0, 1} :
       /\ wait < life
       /\ receipts' = receipts \cup
            {[jti |-> j, kid |-> k, iss |-> iss, revision |-> revision, metadata |-> m,
              iat |-> iat, nbf |-> iat + wait, exp |-> iat + life]}
  /\ UNCHANGED <<now, kids, revision, made, rows, accepted>>

\* The Bridge makes a request: a UUIDv7, which tells its time.
MakeRequest(r) ==
  /\ made[r] = NotMade
  /\ \E t \in {now, now + 1} : made' = [made EXCEPT ![r] = t]
  /\ UNCHANGED <<now, kids, revision, receipts, rows, accepted>>

-----------------------------------------------------------------------------
\* validate_header, and the authority and the projection of the claims.
Admitted(c) == kids[c.kid] = "active" /\ c.iss = Expected /\ c.revision = revision

\* chronology, ttl, future-iat, future-nbf, expired
InTime(c, skew) ==
  /\ c.iat <= c.nbf /\ c.nbf < c.exp
  /\ c.exp <= c.iat + Ttl
  /\ c.iat <= now + skew
  /\ c.nbf <= now + skew
  /\ c.exp + skew > now

\* request-jti-stale, request-jti-future
Fresh(r) == made[r] + Age >= now /\ made[r] <= now + Ahead

\* The mutant keeps the row as long as the receipt lives.
RetentionUntil_Receipt(c, r) == c.exp + MaxSkew
RetentionUntil(c, r) == Larger(c.exp + MaxSkew, made[r] + Kept)

\* replay-binding-mismatch, replayed-jti
Replayed(c, r) == \E row \in rows : row.request = r \/ row.receipt = c.jti

\* The Bridge presents a receipt, and a verifier that admits this skew accepts
\* it and keeps a row.  With more rows than it takes it refuses everything.
Accept(c, r, m, skew) ==
  /\ made[r] # NotMade
  /\ Cardinality(rows) <= MaxRows
  /\ Admitted(c)
  /\ InTime(c, skew)
  /\ c.metadata = m
  /\ Fresh(r)
  /\ ~Replayed(c, r)
  /\ rows' = rows \cup
       {[request |-> r, receipt |-> c.jti, metadata |-> m, until |-> RetentionUntil(c, r)]}
  /\ accepted' = accepted \cup {[request |-> r, receipt |-> c.jti, at |-> now]}
  /\ UNCHANGED <<now, kids, revision, receipts, made>>

\* A row is removed when its time has come.
Purge(row) ==
  /\ row.until <= now
  /\ rows' = rows \ {row}
  /\ UNCHANGED <<now, kids, revision, receipts, made, accepted>>

Next ==
  \/ Tick \/ Revise
  \/ \E k \in Kid : RetireKey(k)
  \/ \E j \in Jti, k \in Kid : Issue(j, k)
  \/ \E r \in Request : MakeRequest(r)
  \/ \E c \in receipts, r \in Request, m \in Metadata, skew \in 0 .. MaxSkew : Accept(c, r, m, skew)
  \/ \E row \in rows : Purge(row)

Spec == Init /\ [][Next]_vars

-----------------------------------------------------------------------------
\* validate_semantics, with the rows it is given: a receipt is accepted once and
\* a request is accepted once, however long after, and whatever was purged.
SingleUse ==
  \A a, b \in accepted : a.request = b.request \/ a.receipt = b.receipt => a = b

-----------------------------------------------------------------------------
\* What is assumed of the constants.  A request is refused as stale before the
\* row is dropped that names it.
Assumed == /\ MaxSkew \in Nat /\ Ttl \in Nat /\ Age \in Nat /\ Ahead \in Nat
           /\ Kept \in Nat /\ MaxNow \in Nat /\ Age < Kept

\* The invariant, that rows are kept long enough: what was accepted has a row, or
\* the time is past in which its receipt or its request could be accepted again.
Claims(j) == {c \in receipts : c.jti = j}
Held(a) ==
  \E row \in rows : /\ row.request = a.request /\ row.receipt = a.receipt
                    /\ row.until >= made[a.request] + Kept
                    /\ \A c \in Claims(a.receipt) : row.until >= c.exp + MaxSkew
Past(a) ==
  now >= made[a.request] + Kept /\ \A c \in Claims(a.receipt) : now >= c.exp + MaxSkew

Types ==
  /\ now \in 0 .. MaxNow
  /\ made \in [Request -> Nat]
  /\ \A c \in receipts : c.exp \in Nat
  /\ \A row \in rows : row.until \in Nat
OneReceipt == \A c, d \in receipts : c.jti = d.jti => c = d
Remembered ==
  \A a \in accepted : /\ a.request \in Request /\ made[a.request] # NotMade
                      /\ Claims(a.receipt) # {}
                      /\ Held(a) \/ Past(a)
Safe == Types /\ OneReceipt /\ Remembered /\ SingleUse
=============================================================================
