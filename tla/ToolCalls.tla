------------------------------- MODULE ToolCalls -------------------------------
(***************************************************************************)
(* codex/bin/mcp-intdata-cli.py runs a program for each tool call, one     *)
(* call at a time, and kills it after a timeout; ssh_execute runs          *)
(* int_ssh_exec.py, which picks a route (int_ssh_resolve.py, with a probe  *)
(* that is not under its timeout) and ends ssh after a timeout of its own. *)
(* Only the program itself is killed: what it started, and what runs on    *)
(* the other side of ssh, may go on.  Each client has a server of its own. *)
(***************************************************************************)
EXTENDS Naturals

CONSTANTS
  Server,      \* one server for each client
  Requests,    \* the calls a client may make: tool, argument and what the program
               \* does with it, flags, confirmation
  MaxCalls     \* bound on the calls

Slack == 5     \* the seconds that the outer timeout of ssh_execute has over the inner one

VARIABLES
  calls,       \* how many calls were made
  job,         \* by call: its server, request, place, progress (of 2), how its program
               \* ended, how much of the slack is used, whether something of it runs
               \* that nobody waits for
  answer,      \* by call
  change       \* the change that openspec_new makes: none, with a README, without

vars == <<calls, job, answer, change>>

Call == 1..MaxCalls
NoRequest == [tool |-> "none", arg |-> "none", changes |-> FALSE, deep |-> FALSE, dry |-> TRUE,
              flags |-> {}, confirmed |-> FALSE, level |-> "none", auto |-> FALSE]
NoJob == [server |-> "none", q |-> NoRequest, at |-> "none", progress |-> 0, end |-> "none", spent |-> 0, loose |-> FALSE]

-----------------------------------------------------------------------------
SafeDba == {"none", "doctor", "help", "migrate status"}
ReadOnly == {"list", "show", "validate", "status", "change list", "spec show"}
VaultTools == {"intdata_vault_sanitize", "intdata_runtime_vault_gc"}
MutateTools == {"openspec_change_mutate", "openspec_spec_mutate", "openspec_exec_mutate"}

\* Every migrate command is taken for its status.
NeedsConfirmation_Migrate(q) ==
  \/ q.tool \in MutateTools \cup {"openspec_archive", "openspec_new", "host_bootstrap", "recovery_bundle",
                                  "ssh_execute", "browser_profile_launch"}
  \/ q.tool = "intdata_cli" /\ q.arg \notin SafeDba \cup {"migrate data"}
  \/ q.tool \in VaultTools /\ ~q.dry

\* The calls that _require_mutation stands before.
NeedsConfirmation(q) ==
  \/ q.tool \in MutateTools \cup {"openspec_archive", "openspec_new", "host_bootstrap", "recovery_bundle",
                                  "ssh_execute", "browser_profile_launch"}
  \/ q.tool = "intdata_cli" /\ q.arg \notin SafeDba
  \/ q.tool \in VaultTools /\ ~q.dry

\* A vault tool must not get both flags, a mutating openspec tool nothing that
\* only reads, and openspec_new names its level.
Accepted(q) ==
  /\ NeedsConfirmation(q) => q.confirmed
  /\ q.tool \in MutateTools => q.arg \notin ReadOnly
  /\ q.tool \in VaultTools => (IF q.dry THEN "--apply" ELSE "--dry-run") \notin q.flags
  /\ q.tool = "openspec_new" => q.level \in {"delta", "full"}

\* _openspec_profile_errors: the delta profile forbids a README.
ProfileErrors(level) == change = "none" \/ (level = "delta" /\ change = "readme")

\* What the programs are: they change something only when they are told to.
MayChange(q) ==
  \/ q.tool \in {"openspec_change_mutate", "openspec_spec_mutate", "openspec_exec_mutate", "openspec_archive",
                "openspec_new", "host_bootstrap", "recovery_bundle", "ssh_execute", "browser_profile_launch"}
  \/ q.tool = "intdata_cli" /\ q.arg \notin {"none", "doctor", "help", "migrate status"}
  \/ q.tool \in {"intdata_vault_sanitize", "intdata_runtime_vault_gc"} /\ (q.dry => "--apply" \in q.flags)

Assumed ==
  /\ MaxCalls \in Nat
  /\ \A q \in Requests : q.changes \in BOOLEAN /\ (q.changes => MayChange(q))

-----------------------------------------------------------------------------
Init ==
  /\ calls = 0
  /\ job = [n \in Call |-> NoJob]
  /\ answer = [n \in Call |-> "none"]
  /\ change = "none"

Serving(s) == {n \in Call : job[n].server = s /\ answer[n] = "none"}
Put(n, place) == job' = [job EXCEPT ![n].at = place]
Answer(n, a) == answer' = [answer EXCEPT ![n] = a]

\* A server reads its next request when it has answered the one before.
Receive(s, q) ==
  /\ calls < MaxCalls /\ Serving(s) = {}
  /\ calls' = calls + 1
  /\ IF Accepted(q)
     THEN /\ job' = [job EXCEPT ![calls'] = [NoJob EXCEPT !.server = s, !.q = q, !.at = IF q.auto THEN "probe" ELSE "running"]]
          /\ UNCHANGED answer
     ELSE /\ job' = [job EXCEPT ![calls'] = [NoJob EXCEPT !.server = s, !.q = q, !.at = "over"]]
          /\ Answer(calls', "refused")
  /\ UNCHANGED change

\* resolve_target: the probe decides which route is taken; it may take longer
\* than the slack of the outer timeout.
Probe(n) ==
  /\ job[n].at = "probe"
  /\ \E spent \in {0, Slack + 1} : job' = [job EXCEPT ![n].spent = spent, ![n].at = "running"]
  /\ UNCHANGED <<calls, answer, change>>

Alive(n) == job[n].at = "running" \/ job[n].loose

\* The program, or what is left of it, goes on.  Only one change has that name.
Work(n) ==
  /\ Alive(n) /\ job[n].progress < 2
  /\ job[n].q.tool = "openspec_new" => job[n].progress > 0 \/ change = "none"
  /\ job' = [job EXCEPT ![n].progress = @ + 1, ![n].loose = @ /\ job[n].progress = 0]
  /\ change' = IF job[n].q.tool = "openspec_new" /\ job[n].progress = 0 THEN "readme" ELSE change
  /\ UNCHANGED <<calls, answer>>

\* The program ends by itself: with 0, which programs do when their work is done
\* (codex-host-verify may tell of a failure in its text then), or with an error; or
\* it could not be started.
EndProgram(n) ==
  /\ job[n].at = "running"
  /\ \E end \in {"zero", "told", "error", "absent"} :
       /\ end \in {"zero", "told"} => job[n].progress = 2
       /\ end = "told" => job[n].q.tool = "host_verify"
       /\ end = "absent" => job[n].progress = 0
       /\ job' = [job EXCEPT ![n].at = "ended", ![n].end = end]
  /\ UNCHANGED <<calls, answer, change>>

\* _run_bounded: ssh is told to end, killed after 2 s, and its pipes are waited
\* for, 2 s each; the command on the other side may not notice.
InnerTimeout(n) ==
  /\ job[n].at = "running" /\ job[n].q.tool = "ssh_execute"
  /\ \E killed \in {0, 2}, pipes \in {0, 2, 4}, goes \in BOOLEAN :
       job' = [job EXCEPT ![n].at = "stopped", ![n].spent = IF @ + killed + pipes > Slack THEN Slack + 1 ELSE 0,
                          ![n].loose = goes /\ job[n].progress < 2]
  /\ UNCHANGED <<calls, answer, change>>

\* A host_preflight that ran is ok whatever it ended with; what a validation with
\* a profile finds in the change counts too.
ReplyTo(j) ==
  IF j.end = "absent" \/ (j.end # "zero" /\ j.q.tool # "host_preflight") THEN "failed"
  ELSE IF j.q.tool = "openspec_validate" /\ j.q.level # "none" /\ ProfileErrors(j.q.level) THEN "profile_errors"
  ELSE "ok"
Made(j) == j.q.tool = "openspec_new" /\ j.end = "zero"

\* A command that was told to end counts as done.
Reply_Zero(n) ==
  /\ answer[n] = "none" /\ job[n].at \in {"ended", "stopped"}
  /\ Answer(n, IF job[n].at = "stopped" THEN "ok" ELSE ReplyTo(job[n]))
  /\ change' = IF Made(job[n]) THEN "clean" ELSE change
  /\ Put(n, "over")
  /\ UNCHANGED calls

\* The README is only removed for the full profile.
Reply_Full(n) ==
  /\ answer[n] = "none" /\ job[n].at \in {"ended", "stopped"}
  /\ Answer(n, IF job[n].at = "stopped" THEN "timed_out" ELSE ReplyTo(job[n]))
  /\ change' = IF Made(job[n]) /\ job[n].q.level = "full" THEN "clean" ELSE change
  /\ Put(n, "over")
  /\ UNCHANGED calls

\* The program's end is the answer; the README of a new change is removed first.
Reply(n) ==
  /\ answer[n] = "none" /\ job[n].at \in {"ended", "stopped"}
  /\ Answer(n, IF job[n].at = "stopped" THEN "timed_out" ELSE ReplyTo(job[n]))
  /\ change' = IF Made(job[n]) THEN "clean" ELSE change
  /\ Put(n, "over")
  /\ UNCHANGED calls

\* _run: subprocess.run kills the program; what the program had started goes on.
\* That of ssh_execute comes first only when the slack is used up.
OuterTimeout(n) ==
  /\ answer[n] = "none" /\ job[n].at \in {"probe", "running", "stopped"}
  /\ job[n].q.tool = "ssh_execute" => job[n].at = "probe" \/ job[n].spent > Slack
  /\ \E goes \in BOOLEAN :
       job' = [job EXCEPT ![n].at = "over",
                 ![n].loose = @ \/ (goes /\ job[n].q.deep /\ job[n].at = "running" /\ job[n].progress < 2)]
  /\ Answer(n, "timeout")
  /\ UNCHANGED <<calls, change>>

\* The client ends its server during a call; the program goes on by itself.
KillServer(n) ==
  /\ answer[n] = "none" /\ job[n].at = "running"
  /\ job' = [job EXCEPT ![n].at = "over", ![n].loose = job[n].progress < 2]
  /\ Answer(n, "lost")
  /\ UNCHANGED <<calls, change>>

Next ==
  \/ \E s \in Server, q \in Requests : Receive(s, q)
  \/ \E n \in Call : \/ Probe(n) \/ Work(n) \/ EndProgram(n) \/ InnerTimeout(n)
                     \/ Reply(n) \/ OuterTimeout(n) \/ KillServer(n)

Spec == Init /\ [][Next]_vars

-----------------------------------------------------------------------------
Unsure == {"timeout", "timed_out", "lost"}

\* A call answered ok had a program that ended by itself, with 0 and no failure in
\* its text; the ok of host_preflight only says that it ran.  Of a call that has any
\* answer but a timeout nothing goes on; what changes something was confirmed; and
\* two calls of a client are at work together only when the first one's answer was a
\* timeout or none.
CallsHonest ==
  \A n \in Call :
    /\ answer[n] = "ok" => job[n].end \in IF job[n].q.tool = "host_preflight" THEN {"zero", "error"} ELSE {"zero"}
    /\ Alive(n) => answer[n] \in Unsure \cup {"none"}
    /\ job[n].q.changes /\ job[n].progress > 0 => job[n].q.confirmed
    /\ \A m \in Call : n < m /\ job[n].server = job[m].server /\ Alive(n) /\ Alive(m) => answer[n] \in Unsure

\* A change whose openspec_new was answered ok never keeps the README that the
\* delta profile refuses, and one that has it comes of a call that is not over,
\* that timed out, or that failed half-way.
ScaffoldRemoved ==
  change = "readme" =>
    /\ \E n \in Call : job[n].q.tool = "openspec_new" /\ job[n].progress > 0 /\ answer[n] \in Unsure \cup {"none", "failed"}
    /\ \A n \in Call : job[n].q.tool = "openspec_new" => answer[n] # "ok"

-----------------------------------------------------------------------------
\* The inductive invariant.  What a call has come to goes with its answer;
Job ==
  [server : Server, q : Requests, at : {"probe", "running", "ended", "stopped", "over"},
   progress : 0 .. 2, end : {"none", "zero", "told", "error", "absent"}, spent : {0, Slack + 1}, loose : BOOLEAN]
Answers == Unsure \cup {"none", "refused", "ok", "profile_errors", "failed"}

Fits(j, a) ==
  /\ a = "none" <=> j.at # "over"
  /\ j.loose => j.at = "stopped" \/ (j.at = "over" /\ a \in Unsure)
  /\ j.at = "ended" => j.end # "none"
  /\ j.end # "none" => j.at \in {"ended", "over"} /\ ~j.loose
  /\ j.end = "zero" => j.progress = 2
  /\ j.end = "told" => j.q.tool = "host_verify"
  /\ a = "ok" => j.end \in IF j.q.tool = "host_preflight" THEN {"zero", "error"} ELSE {"zero"}
  /\ IF a = "refused" THEN j.progress = 0 ELSE Accepted(j.q)

Types ==
  /\ calls \in Nat
  /\ change \in {"none", "readme", "clean"}
  /\ DOMAIN job = Call /\ answer \in [Call -> Answers]
  /\ \A n \in Call : IF n <= calls THEN job[n] \in Job /\ Fits(job[n], answer[n])
                     ELSE job[n] = NoJob /\ answer[n] = "none"

\* a server came to a call when it had answered those before;
InTurn ==
  \A n, m \in Call : n < m /\ m <= calls /\ job[n].server = job[m].server => answer[n] # "none"

\* and one call makes the change, and has not been answered ok while its README is there.
Begun(j) == j.q.tool = "openspec_new" /\ j.progress > 0
Scaffold ==
  /\ \A n, m \in Call : Begun(job[n]) /\ Begun(job[m]) => n = m
  /\ change = "none" <=> \A n \in Call : ~Begun(job[n])
  /\ change = "readme" => \A n \in Call : Begun(job[n]) => answer[n] \in Unsure \cup {"none", "failed"}

Safe == Types /\ InTurn /\ Scaffold
=============================================================================
