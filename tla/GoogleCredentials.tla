--------------------------- MODULE GoogleCredentials ---------------------------
(***************************************************************************)
(* codex/tools/prointdata-google-credentials/prointdata_google.py: one     *)
(* Google refresh token is kept in the native store of each machine,       *)
(* copied to the consumers there (the token files of Hermes and the        *)
(* keyring of gog), and replicated to another machine.  A refresh may      *)
(* return another refresh token, which has to find its way to the store.   *)
(*                                                                         *)
(* A token is the number of its issue; 0 is no token.                      *)
(***************************************************************************)
EXTENDS Naturals

CONSTANTS
  Local, Remote,  \* the two machines
  Home,           \* Hermes homes of a machine
  Proc,           \* commands that may run at the same time
  MaxRuns,        \* bound on the commands
  MaxTokens       \* bound on the refresh tokens that Google issues

Machine == {Local, Remote}

VARIABLES
  revokes,  \* Google revokes a token when it issues another for it
  valid,    \* tokens it honours
  issued,   \* tokens it has issued
  store,    \* store[m]: the native store
  home,     \* home[m][h]: google_token.json
  gog,      \* gog[m]: the keyring of gog
  state,    \* state[m]: the token the state file tells of
  cmd,      \* cmd[p]: the command
  runs,     \* commands so far
  slip,     \* history: a rotated token was dropped, or commands overlapped
  mixed     \* history: mixed[m]: an apply broke off in a way that nothing undid

google  == <<revokes, valid, issued>>
machine == <<store, home, gog, state>>
vars    == <<google, machine, cmd, runs, slip, mixed>>

Assumed == Local # Remote /\ MaxTokens \in Nat

Idle == [op |-> "none", stage |-> "none", m |-> Local, sent |-> 0, token |-> 0, pc |-> "idle",
         snap |-> [h \in Home |-> 0], todo |-> {}]

Init ==
  /\ revokes \in BOOLEAN
  /\ valid = {1}
  /\ issued = 1
  /\ store = [m \in Machine |-> IF m = Local THEN 1 ELSE 0]
  /\ home = [m \in Machine |-> [h \in Home |-> 0]]
  /\ gog = [m \in Machine |-> 0]
  /\ state = [m \in Machine |-> 0]
  /\ cmd = [p \in Proc |-> Idle]
  /\ runs = 0
  /\ slip = FALSE
  /\ mixed = [m \in Machine |-> FALSE]

Busy(p) == cmd[p].pc # "idle"

\* The consumers of machine m are being changed by p.
Applying(p, m) == cmd[p].m = m /\ cmd[p].pc \in {"homes", "restore", "gog", "state"}

Alone(p) == \A q \in Proc \ {p} : ~Busy(q)

Set(p, c)   == cmd' = [cmd EXCEPT ![p] = c]
Goto(p, at) == Set(p, [cmd[p] EXCEPT !.pc = at])

\* The token of p is newer than what it began with, and in no store yet.
Holds(p) == cmd[p].token \in valid /\ \A m \in Machine : store[m] # cmd[p].token

-----------------------------------------------------------------------------
\* main: what each command does first
Start(p, op) ==
  /\ ~Busy(p)
  /\ runs < MaxRuns
  /\ runs' = runs + 1
  /\ slip' = (slip \/ ~Alone(p))
  /\ \/ /\ op \in {"apply", "gws", "replicate"}
        /\ \E m \in IF op = "replicate" THEN {Local} ELSE Machine :
             Set(p, [Idle EXCEPT !.op = op, !.m = m, !.pc = "read",
                                 !.stage = IF op = "gws" THEN "gws" ELSE "apply"])
        /\ UNCHANGED google
     \/ /\ op \in {"create", "check"}   \* of an authorized-user payload
        /\ issued < MaxTokens
        /\ issued' = issued + 1
        /\ valid' = valid \cup {issued + 1}
        /\ UNCHANGED revokes
        /\ \E m \in Machine :
             Set(p, [Idle EXCEPT !.op = op, !.m = m, !.stage = op, !.pc = "verify",
                                 !.sent = issued + 1, !.token = issued + 1])
  /\ UNCHANGED <<machine, mixed>>

\* store_read
ReadStore(p) ==
  /\ cmd[p].pc = "read"
  /\ LET t == store[cmd[p].m]
     IN  Set(p, IF t = 0 THEN Idle ELSE [cmd[p] EXCEPT !.sent = t, !.token = t, !.pc = "verify"])
  /\ UNCHANGED <<google, machine, runs, slip, mixed>>

\* What follows refresh_and_verify, which left token t.
Verified(p, t) ==
  LET c == [cmd[p] EXCEPT !.token = t]
  IN  CASE c.stage = "check"   -> Idle
        [] c.stage = "create"  -> [c EXCEPT !.pc = "store"]
        [] c.stage = "gws"     -> [c EXCEPT !.pc = "store"]
        [] c.stage \in {"apply", "remote"} -> [c EXCEPT !.pc = "snapshot"]
        [] c.stage = "probe"   -> [c EXCEPT !.stage = "receive", !.token = c.sent]  \* receive --check-only
        [] c.stage = "receive" -> [c EXCEPT !.stage = "remote"]                     \* apply_consumers verifies again

\* The same token is good, or another is issued for it.  Checks drop that one.
Verify(p) ==
  /\ cmd[p].pc = "verify"
  /\ cmd[p].token \in valid
  /\ \/ /\ Set(p, Verified(p, cmd[p].token))
        /\ UNCHANGED <<google, slip>>
     \/ /\ issued < MaxTokens
        /\ issued' = issued + 1
        /\ valid' = (IF revokes THEN valid \ {cmd[p].token} ELSE valid) \cup {issued + 1}
        /\ Set(p, Verified(p, issued + 1))
        /\ slip' = (slip \/ cmd[p].stage \in {"check", "probe"})
        /\ UNCHANGED revokes
  /\ UNCHANGED <<machine, runs, mixed>>

\* The token is refused, the network fails or the answer is lost.  A command
\* that ends drops what is in no store.
VerifyFails(p) ==
  /\ cmd[p].pc = "verify"
  /\ \/ UNCHANGED google /\ slip' = (slip \/ Holds(p))
     \/ /\ cmd[p].token \in valid /\ issued < MaxTokens
        /\ issued' = issued + 1
        /\ valid' = (IF revokes THEN valid \ {cmd[p].token} ELSE valid) \cup {issued + 1}
        /\ slip' = TRUE
        /\ UNCHANGED revokes
  /\ Set(p, Idle)
  /\ UNCHANGED <<machine, runs, mixed>>

-----------------------------------------------------------------------------
(* apply_consumers *)

Snapshot(p) ==
  /\ cmd[p].pc = "snapshot"
  /\ Set(p, [cmd[p] EXCEPT !.snap = home[cmd[p].m], !.todo = Home, !.pc = "homes"])
  /\ mixed' = [mixed EXCEPT ![cmd[p].m] = @ \/ \E q \in Proc \ {p} : Applying(q, cmd[p].m)]
  /\ UNCHANGED <<google, machine, runs, slip>>

\* _materialize_hermes, and _restore_token_files: a file that was not there is
\* removed.
WriteHome(p, h) ==
  /\ cmd[p].pc \in {"homes", "restore"} /\ h \in cmd[p].todo
  /\ home' = [home EXCEPT ![cmd[p].m][h] =
       IF cmd[p].pc = "homes" THEN cmd[p].token ELSE cmd[p].snap[h]]
  /\ Set(p, [cmd[p] EXCEPT !.todo = @ \ {h}])
  /\ UNCHANGED <<google, store, gog, state, runs, slip, mixed>>

HomesWritten(p) ==
  /\ cmd[p].pc = "homes" /\ cmd[p].todo = {}
  /\ Goto(p, "gog")
  /\ UNCHANGED <<google, machine, runs, slip, mixed>>

\* A home cannot be written, gog is missing or fails: what was written is
\* restored, all homes of it.
ConsumerFails(p) ==
  /\ cmd[p].pc \in {"homes", "gog"}
  /\ Set(p, [cmd[p] EXCEPT !.todo = Home, !.pc = "restore"])
  /\ UNCHANGED <<google, machine, runs, slip, mixed>>

Restored(p) ==
  /\ cmd[p].pc = "restore" /\ cmd[p].todo = {}
  /\ Set(p, Idle)
  /\ slip' = (slip \/ Holds(p))
  /\ UNCHANGED <<google, machine, runs, mixed>>

\* _gog_import
ImportGog(p) ==
  /\ cmd[p].pc = "gog"
  /\ gog' = [gog EXCEPT ![cmd[p].m] = cmd[p].token]
  /\ Goto(p, "state")
  /\ UNCHANGED <<google, store, home, state, runs, slip, mixed>>

\* The keyring took the token although gog failed.
GogFailsLate(p) ==
  /\ cmd[p].pc = "gog"
  /\ gog' = [gog EXCEPT ![cmd[p].m] = cmd[p].token]
  /\ mixed' = [mixed EXCEPT ![cmd[p].m] = TRUE]
  /\ Set(p, [cmd[p] EXCEPT !.todo = Home, !.pc = "restore"])
  /\ UNCHANGED <<google, store, home, state, runs, slip>>

\* _write_state.  An apply that nobody disturbed leaves the machine in order.
WriteState(p) ==
  /\ cmd[p].pc = "state"
  /\ state' = [state EXCEPT ![cmd[p].m] = cmd[p].token]
  /\ mixed' = [mixed EXCEPT ![cmd[p].m] = @ /\ (slip \/ ~Alone(p))]
  /\ Goto(p, "store")
  /\ UNCHANGED <<google, store, home, gog, runs, slip>>

-----------------------------------------------------------------------------
\* Mutant: gws does not keep the token that it got.
WriteStore_NotGws(p) ==
  /\ cmd[p].pc = "store"
  /\ LET c == cmd[p]
     IN  /\ store' = [store EXCEPT ![c.m] =
              IF c.stage \in {"create", "remote"} \/ (c.token # c.sent /\ c.op # "gws") THEN c.token ELSE @]
         /\ Set(p, IF c.op = "replicate" /\ c.stage = "apply"
                   THEN [c EXCEPT !.stage = "probe", !.m = Remote, !.sent = c.token, !.pc = "verify"]
                   ELSE Idle)
  /\ UNCHANGED <<google, home, gog, state, runs, slip, mixed>>

\* store_write: of apply, gws and the local half of replicate only if the
\* bundle is another one.
WriteStore(p) ==
  /\ cmd[p].pc = "store"
  /\ LET c == cmd[p]
     IN  /\ store' = [store EXCEPT ![c.m] =
              IF c.stage \in {"create", "remote"} \/ c.token # c.sent THEN c.token ELSE @]
         /\ Set(p, IF c.op = "replicate" /\ c.stage = "apply"
                   THEN [c EXCEPT !.stage = "probe", !.m = Remote, !.sent = c.token, !.pc = "verify"]
                   ELSE Idle)
  /\ UNCHANGED <<google, home, gog, state, runs, slip, mixed>>

\* A write fails or the command is killed.  (If ssh is cut off, the command on
\* the other machine goes on.)
BreakOff(p) ==
  /\ Busy(p)
  /\ Set(p, Idle)
  /\ slip' = (slip \/ Holds(p))
  /\ mixed' = [mixed EXCEPT ![cmd[p].m] = @ \/ Applying(p, cmd[p].m)]
  /\ UNCHANGED <<google, machine, runs>>

Command(p) ==
  \/ \E op \in {"create", "check", "apply", "gws", "replicate"} : Start(p, op)
  \/ ReadStore(p) \/ Verify(p) \/ VerifyFails(p)
  \/ Snapshot(p) \/ HomesWritten(p) \/ ConsumerFails(p) \/ Restored(p)
  \/ \E h \in Home : WriteHome(p, h)
  \/ ImportGog(p) \/ GogFailsLate(p) \/ WriteState(p)
  \/ WriteStore(p) \/ BreakOff(p)

Next == \E p \in Proc : Command(p)

Spec == Init /\ [][Next]_vars

-----------------------------------------------------------------------------
\* However tokens rotate, one that Google honours is in a store or in the hands
\* of a command, unless a check or a broken command dropped it or commands
\* overlapped: no refused or outdated token replaces the last good one.
TokenKept ==
  slip \/ \E t \in valid : (\E m \in Machine : store[m] = t) \/ (\E p \in Proc : cmd[p].token = t)

\* Between applies all consumers of a machine have the token that its state
\* file tells of: a failed apply leaves the machine as it was.
ConsumersAgree ==
  \A m \in Machine :
    ~mixed[m] /\ (\A p \in Proc : ~Applying(p, m)) =>
      gog[m] = state[m] /\ \A h \in Home : home[m][h] = state[m]

-----------------------------------------------------------------------------
\* The inductive invariant.
Before == {"idle", "read", "verify"}
After  == {"snapshot", "homes", "restore", "gog", "state", "store"}

Commands ==
  [op : {"none", "create", "check", "apply", "gws", "replicate"},
   stage : {"none", "create", "check", "apply", "gws", "probe", "receive", "remote"},
   m : Machine, sent : Nat, token : Nat, pc : Before \cup After, snap : [Home -> Nat], todo : SUBSET Home]

Types ==
  /\ issued \in Nat /\ valid \subseteq 1 .. issued
  /\ store \in [Machine -> Nat] /\ gog \in [Machine -> Nat] /\ state \in [Machine -> Nat]
  /\ home \in [Machine -> [Home -> Nat]]
  /\ cmd \in [Proc -> Commands]
  /\ slip \in BOOLEAN /\ mixed \in [Machine -> BOOLEAN]

\* Where a command can be;
Placed(c) ==
  /\ c.pc \in {"idle", "read"} => c.token = 0
  /\ c.pc = "idle" <=> c.stage = "none"
  /\ c.stage = "check" <=> c.op = "check"
  /\ c.stage \in {"check", "probe", "receive"} => c.pc = "verify"
  /\ c.stage = "probe" => c.sent = c.token

\* while nothing slipped, there is one command; it has a token that Google
\* honours once that was verified, and began with the token of its store;
Sole == ~slip => \A p, q \in Proc : Busy(p) /\ Busy(q) => p = q
HasValid == ~slip => \A p \in Proc : cmd[p].pc \in After => cmd[p].token \in valid
FromStore ==
  ~slip => \A p \in Proc : cmd[p].stage \in {"apply", "gws"} /\ cmd[p].pc # "read" => store[cmd[p].m] = cmd[p].sent
Kept ==
  ~slip => \/ \E m \in Machine : store[m] \in valid
           \/ \E p \in Proc : cmd[p].stage # "check" /\ cmd[p].token \in valid

\* a machine that is not mixed is changed by one command, which knows what was
\* there, and what a command changes on such a machine, or while it is the only
\* one, is as far as it came.
SoleOn == \A m \in Machine : ~mixed[m] => \A p, q \in Proc : Applying(p, m) /\ Applying(q, m) => p = q
Came(c, files, ring) ==  \* with files and ring for home and gog
  /\ c.pc \in {"homes", "gog", "state"} => \A h \in Home \ c.todo : files[c.m][h] = c.token
  /\ c.pc = "restore" => \A h \in Home \ c.todo : files[c.m][h] = c.snap[h]
  /\ c.pc \in {"gog", "state"} => c.todo = {}
  /\ c.pc = "state" => ring[c.m] = c.token
Knows(c, ring, told) ==  \* with ring and told for gog and state
  c.pc \in {"homes", "gog", "restore"} => ring[c.m] = told[c.m] /\ \A h \in Home : c.snap[h] = told[c.m]
Changes ==
  \A p \in Proc : /\ ~mixed[cmd[p].m] => Came(cmd[p], home, gog) /\ Knows(cmd[p], gog, state)
                  /\ ~slip => Came(cmd[p], home, gog)

TokensSafe == (\A p \in Proc : Placed(cmd[p])) /\ Sole /\ HasValid /\ FromStore /\ Kept
MachinesSafe == SoleOn /\ Changes /\ ConsumersAgree

Safe == Types /\ TokensSafe /\ MachinesSafe
=============================================================================
