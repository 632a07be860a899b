----------------------------- MODULE ConnectorGrant -----------------------------
(***************************************************************************)
(* contracts/connectors/experimental-v0/reference.py: a connector does the *)
(* effect of a plan if it is shown a grant for it.  Grants are signed by   *)
(* an issuer and name the snapshot of revoked nonces that they were issued *)
(* under; a connector has the one snapshot that it was made with, and      *)
(* remembers in memory which nonces it has seen.                           *)
(*                                                                         *)
(* A digest of a document is the document.                                 *)
(***************************************************************************)
EXTENDS Naturals, Sequences, FiniteSets

CONSTANTS
  Plan,         \* [name, kind, known]: kind is that of its operation, known
                \* if the connector has it
  Nonce,
  GrantLife,    \* how long a grant is valid
  SnapLife,     \* how long a snapshot is
  MaxNow,       \* bound on the clock
  MaxSnaps,     \* bound on the snapshots
  MaxGrants,    \* bound on the grants
  MaxLives      \* bound on the connectors made one after the other

VARIABLES
  now,
  snaps,      \* what the issuer published: [issued, expires, revoked]
  grants,     \* grants in anybody's hands
  life,       \* number of the connector
  context,    \* its snapshot: a place in snaps, 0 if it was given none
  consumed,   \* _consumed_nonces
  effects     \* what connectors accepted

vars == <<now, snaps, grants, life, context, consumed, effects>>

Snapshot(revoked) == [issued |-> now, expires |-> now + SnapLife, revoked |-> revoked]

Init ==
  /\ now = 0
  /\ snaps = <<[issued |-> 0, expires |-> SnapLife, revoked |-> {}]>>
  /\ grants = {}
  /\ life = 1
  /\ context \in {0, 1}
  /\ consumed = {}
  /\ effects = {}

-----------------------------------------------------------------------------
(* The issuer, and who has a grant *)

Tick ==
  /\ now < MaxNow
  /\ now' = now + 1
  /\ UNCHANGED <<snaps, grants, life, context, consumed, effects>>

\* A snapshot follows the last one, with the same nonces or one more.
Publish ==
  /\ Len(snaps) < MaxSnaps
  /\ \E n \in SUBSET Nonce :
       snaps' = Append(snaps, Snapshot(snaps[Len(snaps)].revoked \cup n))
  /\ UNCHANGED <<now, grants, life, context, consumed, effects>>

Count == Cardinality(grants)

\* "starts" may be ahead; a nonce may serve two grants by mistake.
Issue(p, n) ==
  /\ Count < MaxGrants
  /\ \E start \in {now, now + 1} :
       grants' = grants \cup
         {[plan |-> p, nonce |-> n, from |-> start, until |-> start + GrantLife,
           snap |-> Len(snaps), signed |-> TRUE]}
  /\ UNCHANGED <<now, snaps, life, context, consumed, effects>>

\* Somebody writes another plan, nonce, time or snapshot into a grant, and
\* digests that fit; the signature does not.
Alter(g) ==
  /\ Count < MaxGrants
  /\ \/ \E p \in Plan : grants' = grants \cup {[g EXCEPT !.plan = p, !.signed = FALSE]}
     \/ \E n \in Nonce : grants' = grants \cup {[g EXCEPT !.nonce = n, !.signed = FALSE]}
     \/ \E s \in DOMAIN snaps : grants' = grants \cup {[g EXCEPT !.snap = s, !.signed = FALSE]}
     \/ grants' = grants \cup {[g EXCEPT !.until = @ + 1, !.signed = FALSE]}
  /\ UNCHANGED <<now, snaps, life, context, consumed, effects>>

-----------------------------------------------------------------------------
(* The connector *)

\* plan_effect
Grantable(p) == p.known /\ p.kind = "provider_effect"

\* Mutant: the age of the snapshot is not looked at.
CurrentContext_AnyAge(g) ==
  /\ context # 0
  /\ g.snap = context
  /\ g.nonce \notin snaps[context].revoked

\* _validate_revocation_context
CurrentContext(g) ==
  /\ context # 0
  /\ g.snap = context
  /\ snaps[context].issued <= now
  /\ now < snaps[context].expires
  /\ g.nonce \notin snaps[context].revoked

\* validate_grant_for_plan, _verify_jws
Valid(g, p) ==
  /\ g.plan = p
  /\ g.from <= now /\ now < g.until
  /\ g.signed
  /\ CurrentContext(g)
  /\ g.nonce \notin consumed

\* execute_effect; whatever is refused changes nothing.
Execute(g, p) ==
  /\ Grantable(p) /\ Valid(g, p)
  /\ consumed' = consumed \cup {g.nonce}
  /\ effects' = effects \cup {[grant |-> g, plan |-> p, at |-> now, life |-> life]}
  /\ UNCHANGED <<now, snaps, grants, life, context>>

\* A connector is made anew, with any snapshot so far or none.
Remake ==
  /\ life < MaxLives
  /\ life' = life + 1
  /\ context' \in {0} \cup DOMAIN snaps
  /\ consumed' = {}
  /\ UNCHANGED <<now, snaps, grants, effects>>

Next ==
  \/ Tick \/ Publish \/ Remake
  \/ \E p \in Plan, n \in Nonce : Issue(p, n)
  \/ \E g \in grants : Alter(g)
  \/ \E g \in grants, p \in Plan : Execute(g, p)

Spec == Init /\ [][Next]_vars

-----------------------------------------------------------------------------
\* Once a nonce is revoked, effects with it end when the last snapshot that did
\* not have it yet runs out, whatever grants are about and however often the
\* connector is made anew with an old snapshot; and a nonce serves one effect
\* of one connector.
RevocationTakesHold ==
  /\ \A e \in effects : \E s \in DOMAIN snaps :
       e.grant.nonce \notin snaps[s].revoked /\ e.at < snaps[s].expires
  /\ \A e, f \in effects : e.life = f.life /\ e.grant.nonce = f.grant.nonce => e = f

-----------------------------------------------------------------------------
\* What is assumed of the constants.
Assumed == SnapLife \in Nat

\* The invariant: the connector has a snapshot that was published, or none, and
\* remembers what it accepted.
Types ==
  /\ now \in Nat /\ life \in Nat
  /\ snaps \in Seq([issued : Nat, expires : Nat, revoked : SUBSET Nonce]) /\ snaps # <<>>
  /\ context \in 0 .. Len(snaps)
Remembered ==
  \A e \in effects : e.life <= life /\ e.life \in Nat /\ (e.life = life => e.grant.nonce \in consumed)
Safe == Types /\ Remembered /\ RevocationTakesHold
=============================================================================
