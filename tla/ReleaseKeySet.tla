---------------------------- MODULE ReleaseKeySet ----------------------------
(***************************************************************************)
(* ReleaseVerificationKeySetV1: a chain of signed sets of release keys.    *)
(* Release offices edit a published set, each at its own pace and not      *)
(* without mistakes; consumers accept the sets that                        *)
(* validate_keyset_semantics lets pass.                                    *)
(***************************************************************************)
EXTENDS Naturals, Sequences, FiniteSets

CONSTANTS
  Consumer,
  KeyId,
  Key,       \* [pk, from, until, state, retired, revoked] that a set may hold
  RootKeys,  \* public keys of the bootstrap root set
  Time,      \* times that matter, natural numbers
  Null,      \* no time (it is none of them)
  MaxSets    \* bound on the sets that are published

\* How a set is signed: genuine root keys under it, and the root set it names.
Signature == [roots : {1, 2}, pin : {"pinned", "other"}]
Good      == [roots |-> 2, pin |-> "pinned"]

VARIABLES
  sets,  \* the published sets: [revision, previous, keys, by]; previous is a
         \* place in this sequence, 0 at revision 1
  at,    \* at[c]: the set that the consumer uses, 0 if none
  past   \* history: past[c]: the sets it accepted

vars == <<sets, at, past>>

NoKeys == [i \in {} |-> Null]
KeysOf(s) == IF s = 0 THEN NoKeys ELSE sets[s].keys
Revision(s) == IF s = 0 THEN 0 ELSE sets[s].revision

Init ==
  /\ sets = <<>>
  /\ at = [c \in Consumer |-> 0]
  /\ past = [c \in Consumer |-> {}]

-----------------------------------------------------------------------------
\* What an office makes of the keys of a set: it adds a key, takes one out, or
\* puts a key, under this id or another, in the place of one.
Put(keys, i, k) == [j \in DOMAIN keys \cup {i} |-> IF j = i THEN k ELSE keys[j]]
Without(keys, i) == [j \in DOMAIN keys \ {i} |-> keys[j]]
Edits(keys) ==
  {Put(keys, i, k) : i \in KeyId, k \in Key}
    \cup {Without(keys, i) : i \in KeyId}
    \cup {Put(Without(keys, i), j, k) : i, j \in KeyId, k \in Key}

\* The next set after s.  Offices may follow the same set, or an old one.
Publish(s) ==
  /\ Len(sets) < MaxSets
  /\ \E by \in Signature, keys \in Edits(KeysOf(s)) \cup {KeysOf(s)} :
       /\ by = Good \/ keys = KeysOf(s)
       /\ DOMAIN keys # {}
       /\ sets' = Append(sets, [revision |-> Revision(s) + 1, previous |-> s, keys |-> keys, by |-> by])
  /\ UNCHANGED <<at, past>>

-----------------------------------------------------------------------------
\* What the schema says of a key of each state.
Stated(k) ==
  /\ k.state = "active" => k.retired = Null /\ k.revoked = Null
  /\ k.state = "retired" => k.retired # Null /\ k.revoked = Null
  /\ k.state = "revoked" => k.revoked # Null

\* lifecycle_time
Timed(k) ==
  /\ k.from < k.until
  /\ k.retired # Null => k.from <= k.retired /\ k.retired <= k.until
  /\ k.revoked # Null => k.from <= k.revoked /\ k.revoked <= k.until
  /\ k.retired # Null /\ k.revoked # Null => k.retired <= k.revoked

\* root_online_alias, online_key_alias
Distinct(keys) ==
  /\ \A i \in DOMAIN keys : keys[i].pk \notin RootKeys
  /\ \A i, j \in DOMAIN keys : keys[i].pk = keys[j].pk => i = j

\* key_resurrection
Later(state) ==
  CASE state = "active"  -> {"active", "retired", "revoked"}
    [] state = "retired" -> {"retired", "revoked"}
    [] state = "revoked" -> {"revoked"}

\* The mutant looks only at the keys that the new set still has.
Continues_Deletes(old, keys) ==
  \A i \in DOMAIN old \cap DOMAIN keys :
    /\ keys[i].pk = old[i].pk /\ keys[i].from = old[i].from
    /\ keys[i].state \in Later(old[i].state)

\* key_deletion, key_identity, key_resurrection
Continues(old, keys) ==
  \A i \in DOMAIN old :
    /\ i \in DOMAIN keys
    /\ keys[i].pk = old[i].pk /\ keys[i].from = old[i].from
    /\ keys[i].state \in Later(old[i].state)

\* revision; the mutant does not compare previous_digest.
Follows_ByNumber(s, t) == sets[t].revision = Revision(s) + 1

\* revision, previous_digest: equal digests are taken for equal sets.
Follows(s, t) == sets[t].revision = Revision(s) + 1 /\ sets[t].previous = s

Acceptable(s, t) ==
  /\ sets[t].by.pin = "pinned"
  /\ Follows(s, t)
  /\ sets[t].by.roots >= 2
  /\ Distinct(sets[t].keys)
  /\ \A i \in DOMAIN sets[t].keys : Stated(sets[t].keys[i]) /\ Timed(sets[t].keys[i])
  /\ Continues(KeysOf(s), sets[t].keys)

Accept(c, t) ==
  /\ Acceptable(at[c], t)
  /\ at' = [at EXCEPT ![c] = t]
  /\ past' = [past EXCEPT ![c] = @ \cup {t}]
  /\ UNCHANGED sets

Next ==
  \/ \E s \in 0 .. Len(sets) : Publish(s)
  \/ \E c \in Consumer, t \in 1 .. Len(sets) : Accept(c, t)

Spec == Init /\ [][Next]_vars

-----------------------------------------------------------------------------
\* A release signed by key k at time t verifies (revoked_key, retired_cutoff,
\* key_validity).
Verifies(k, t) ==
  /\ k.state # "revoked"
  /\ k.state = "retired" => t <= k.retired
  /\ k.from <= t /\ t <= k.until

\* validate_keyset_semantics: once a consumer has accepted a set that revokes a
\* public key, nothing that is signed with it verifies any more, under any id.
RevokedForEver ==
  \A c \in Consumer : \A s \in past[c] :
    \A i \in DOMAIN sets[s].keys : sets[s].keys[i].state = "revoked" =>
      \A j \in DOMAIN KeysOf(at[c]) :
        KeysOf(at[c])[j].pk = sets[s].keys[i].pk => \A t \in Time : ~Verifies(KeysOf(at[c])[j], t)

\* previous_digest: consumers that use the same set came to it through the same
\* sets, even if two offices published different ones of one revision.
OneHistory == \A c, d \in Consumer : at[c] = at[d] => past[c] = past[d]

-----------------------------------------------------------------------------
\* The invariant.  What a consumer accepted is a chain that ends in the set that
\* it uses: none is missing in between, and keys were revoked for good.
Types ==
  /\ sets \in Seq({sets[t] : t \in 1 .. Len(sets)})
  /\ at \in [Consumer -> 0 .. Len(sets)] /\ past \in [Consumer -> SUBSET (1 .. Len(sets))]
  /\ \A t \in 1 .. Len(sets) : sets[t].previous \in 0 .. t - 1
Chain(c) ==
  /\ IF at[c] = 0 THEN past[c] = {} ELSE at[c] \in past[c] /\ Distinct(sets[at[c]].keys)
  /\ \A t \in past[c] :
       /\ t <= at[c]
       /\ sets[t].previous \in past[c] \cup {0}
       /\ \A s \in past[c] : s < t => s <= sets[t].previous
Revoked(c) ==
  \A s \in past[c] : \A i \in DOMAIN sets[s].keys : sets[s].keys[i].state = "revoked" =>
    LET keys == sets[at[c]].keys
    IN i \in DOMAIN keys /\ keys[i].state = "revoked" /\ keys[i].pk = sets[s].keys[i].pk
Common == \A c, d \in Consumer : at[c] \in past[d] => past[c] = {s \in past[d] : s <= at[c]}
Safe == Types /\ (\A c \in Consumer : Chain(c) /\ Revoked(c)) /\ Common
=============================================================================
