-------------------------------- MODULE Redeploy --------------------------------
(***************************************************************************)
(* delivery/devops/dev-redeploy.sh and local-redeploy.sh: rebuild and      *)
(* restart the services, take the last 400 lines of their logs, look for   *)
(* errors in them, ask their URLs, and say whether all went well.  What is *)
(* restarted depends on the host: a compose project, systemd units, or     *)
(* (from dev-redeploy.sh) local-redeploy.sh, with its own fallback.  Runs  *)
(* may overlap, and those of one second share their directory of reports;  *)
(* maintainers change the source, services log errors and fail.            *)
(***************************************************************************)
EXTENDS Naturals, Sequences

CONSTANTS
  Proc,        \* runs, each of one script
  Units,       \* the services, in the order of the restart
  Hosts,       \* branch, configured and found compose files, units and whether to
               \* skip them, executable bits of scripts and of log-scan.py, URLs
  Dir,         \* directories of reports, named by the second
  MaxSource,   \* bound on the revisions of the source
  MaxFaults    \* bound on the steps that fail and the services that do

Unit == {Units[i] : i \in DOMAIN Units}
Assumed == Units \in Seq(Unit) /\ Units # <<>>

Fresh(rev) == [rev |-> rev, ok |-> TRUE, err |-> FALSE]
Down == [rev |-> 0, ok |-> FALSE, err |-> FALSE]

VARIABLES
  host,
  source,    \* the revision of the working tree
  image,     \* the revision that the image of a service was built from
  up,        \* the process of a service: revision, whether it answers, has logged an error
  past,      \* the last lines of the journal, or of the file in var/logs, hold an
             \* error of a process before that
  dir,       \* by directory and service: the log that was put there last
  proc,      \* by run: script, mode, place, unit at work, directory, verdict so far,
             \* collected logs; the source when it began, what failed, the logs
             \* as it took them, services and logs that another run wrote
  faults

vars == <<host, source, image, up, past, dir, proc, faults>>

NoLogs == [u \in Unit |-> "none"]
Idle == [script |-> "none", mode |-> "none", pc |-> "idle", i |-> 1, dir |-> 1, bad |-> FALSE, logs |-> {},
         since |-> 0, fails |-> {}, seen |-> NoLogs, crossed |-> {}, mixed |-> FALSE]

Init ==
  /\ host \in Hosts
  /\ source = 1
  /\ image = [u \in Unit |-> 1]
  /\ up = [u \in Unit |-> Fresh(1)]
  /\ past = [u \in Unit |-> FALSE]
  /\ dir = [d \in Dir |-> NoLogs]
  /\ proc = [p \in Proc |-> Idle]
  /\ faults = 0

MayFail(failed) == IF failed THEN faults < MaxFaults /\ faults' = faults + 1 ELSE UNCHANGED faults

-----------------------------------------------------------------------------
\* Each script looks for its runtime in an order of its own; dev-redeploy.sh
\* may be told to leave systemd alone.
DevMode ==
  IF host.configured THEN "compose" ELSE IF host.units /\ ~host.skip THEN "systemd"
  ELSE IF host.compose THEN "compose" ELSE IF host.runnable THEN "local" ELSE "none"
LocalMode == IF host.compose THEN "compose" ELSE IF host.units THEN "systemd" ELSE "fallback"

\* The containers are restarted and not rebuilt.
FirstStep_Up(mode) ==
  CASE mode = "compose" -> "up" [] mode = "systemd" -> "deps" [] OTHER -> "fallback"

FirstStep(mode) ==
  CASE mode = "compose" -> "services" [] mode = "systemd" -> "deps" [] OTHER -> "fallback"

\* dev-redeploy.sh only runs on dev, and only where it finds something to restart.
StartDev(p, d) ==
  LET begun == [Idle EXCEPT !.script = "dev", !.mode = DevMode, !.dir = d, !.since = source]
  IN proc' = [proc EXCEPT ![p] =
       IF host.branch # "dev" \/ DevMode = "none" THEN [begun EXCEPT !.pc = "refused"]
       ELSE IF DevMode = "compose" THEN [begun EXCEPT !.pc = "build"]
       ELSE IF DevMode = "systemd" THEN [begun EXCEPT !.pc = "restart"]
       ELSE [begun EXCEPT !.mode = LocalMode, !.script = "dev by local", !.pc = FirstStep(LocalMode)]]

StartLocal(p, d) ==
  proc' = [proc EXCEPT ![p] = [Idle EXCEPT !.script = "local", !.mode = LocalMode, !.dir = d,
                                           !.since = source, !.pc = FirstStep(LocalMode)]]

Start(p) ==
  /\ proc[p].pc = "idle"
  /\ \E d \in Dir : StartDev(p, d) \/ StartLocal(p, d)
  /\ UNCHANGED <<host, source, image, up, past, dir, faults>>

\* A run goes on from a step that failed or did not; the step counts for the
\* verdict if `counts`.  It wrote services, and runs in progress see that.
Go(p, pc, step, failed, counts, wrote) ==
  proc' = [q \in Proc |->
    IF q # p THEN [proc[q] EXCEPT !.crossed = @ \cup IF proc[q].pc = "idle" THEN {} ELSE wrote]
    ELSE [proc[p] EXCEPT !.pc = pc, !.i = 1, !.bad = @ \/ (failed /\ counts),
                         !.fails = IF failed THEN @ \cup {step} ELSE @]]

\* local-redeploy.sh lists the services; a failure is counted, and all services
\* are built.
Services(p) ==
  /\ proc[p].pc = "services"
  /\ \E failed \in BOOLEAN : Go(p, "build", "services", failed, TRUE, {}) /\ MayFail(failed)
  /\ UNCHANGED <<host, source, image, up, past, dir>>

\* docker compose build: services that could not be built keep their image.  In
\* dev-redeploy.sh the build and the restart are one group before ||, where
\* only the last command counts.
Build(p) ==
  /\ proc[p].pc = "build"
  /\ \E built \in SUBSET Unit :
       /\ image' = [u \in Unit |-> IF u \in built THEN source ELSE image[u]]
       /\ Go(p, "up", "build", built # Unit, proc[p].script # "dev", {}) /\ MayFail(built # Unit)
  /\ UNCHANGED <<host, source, up, past, dir>>

\* docker compose up --force-recreate: the containers and their logs are new.
Up(p) ==
  /\ proc[p].pc = "up"
  /\ \E made \in SUBSET Unit, rest \in {"kept", "down"} :
       /\ up' = [u \in Unit |-> IF u \in made THEN Fresh(image[u]) ELSE IF rest = "kept" THEN up[u] ELSE Down]
       /\ Go(p, "collect", "up", made # Unit, TRUE, Unit) /\ MayFail(made # Unit)
  /\ UNCHANGED <<host, source, image, past, dir>>

\* A failure is not counted.
Dependencies_Ignored(p) ==
  /\ proc[p].pc = "deps"
  /\ \E failed \in BOOLEAN : Go(p, "restart", "deps", failed, FALSE, {}) /\ MayFail(failed)
  /\ UNCHANGED <<host, source, image, up, past, dir>>

\* local-redeploy.sh: the dependencies and the frontend; a failure is counted
\* and the restarts go on.
Dependencies(p) ==
  /\ proc[p].pc = "deps"
  /\ \E failed \in BOOLEAN : Go(p, "restart", "deps", failed, TRUE, {}) /\ MayFail(failed)
  /\ UNCHANGED <<host, source, image, up, past, dir>>

AtUnit(p) == Units[proc[p].i]
LastUnit(p) == proc[p].i = Len(Units)

\* systemctl restart; dev-redeploy.sh takes the log right after each, the other
\* script after all of them.
Restart(p) ==
  LET u == AtUnit(p)
      dev == proc[p].script = "dev"
      next == [proc[p] EXCEPT !.pc = IF dev \/ LastUnit(p) THEN "collect" ELSE "restart",
                              !.i = IF dev THEN @ ELSE IF LastUnit(p) THEN 1 ELSE @ + 1]
  IN /\ proc[p].pc = "restart"
     /\ \E new \in {Fresh(source), up[u], Down} :
          LET failed == new # Fresh(source)
          IN /\ MayFail(failed)
             /\ up' = [up EXCEPT ![u] = new]
             /\ past' = [past EXCEPT ![u] = @ \/ (new # up[u] /\ up[u].err)]
             /\ proc' = [q \in Proc |->
                  IF q # p THEN [proc[q] EXCEPT !.crossed = @ \cup IF proc[q].pc = "idle" THEN {} ELSE {u}]
                  ELSE [next EXCEPT !.bad = @ \/ failed, !.fails = IF failed THEN @ \cup {"restart"} ELSE @]]
     /\ UNCHANGED <<host, source, image, dir>>

\* local-redeploy.sh where there is neither: another script, if it may be run.
\* The service goes on with the file it logs to.
Fallback(p) ==
  LET u == Units[1]
      Rebuilt(new, failed) ==
        /\ host.runnable
        /\ up' = [up EXCEPT ![u] = new]
        /\ past' = [past EXCEPT ![u] = @ \/ up[u].err]
        /\ Go(p, "collect", "rebuild", failed, TRUE, {u})
        /\ MayFail(failed)
  IN /\ proc[p].pc = "fallback"
     /\ \/ Rebuilt(Fresh(source), FALSE) \/ Rebuilt(Down, TRUE)
        \/ ~host.runnable /\ UNCHANGED <<up, past>> /\ Go(p, "collect", "rebuild", TRUE, TRUE, {}) /\ MayFail(FALSE)
     /\ UNCHANGED <<host, source, image, dir>>

-----------------------------------------------------------------------------
\* The last lines of a container are its own, those of a unit the journal's and
\* those of a file in var/logs the file's.
LogOf(p, u) ==
  IF up[u].err THEN "error" ELSE IF proc[p].mode \in {"systemd", "fallback"} /\ past[u] THEN "old" ELSE "clean"

\* After service u, whose log is taken or not: the next, or the end of the logs.
Taken(p, u, log, listed) ==
  LET dev == proc[p].script = "dev"
      failed == log = "none"
      then == IF ~LastUnit(p) THEN (IF dev /\ proc[p].mode = "systemd" THEN "restart" ELSE "collect")
              ELSE IF dev THEN "smoke" ELSE "scan"
  IN [proc[p] EXCEPT !.pc = then, !.i = IF LastUnit(p) THEN 1 ELSE @ + 1,
                     !.seen = IF listed THEN [@ EXCEPT ![u] = log] ELSE @,
                     !.logs = IF listed /\ (dev \/ ~failed) THEN @ \cup {u} ELSE @,
                     !.bad = @ \/ (failed /\ listed /\ ~dev /\ proc[p].mode # "fallback"),
                     !.fails = IF failed THEN @ \cup {"logs"} ELSE @]

\* A log that cannot be had counts only in local-redeploy.sh, and not there if it
\* is a file.
TakeLog(p) ==
  LET u == AtUnit(p)
  IN /\ proc[p].pc = "collect"
     /\ \E log \in {LogOf(p, u), "none"} :
          /\ MayFail(log = "none")
          /\ dir' = [dir EXCEPT ![proc[p].dir][u] = log]
          /\ proc' = [q \in Proc |->
               IF q = p THEN Taken(p, u, log, TRUE)
               ELSE [proc[q] EXCEPT !.mixed = @ \/ (proc[q].pc # "idle" /\ proc[q].dir = proc[p].dir)]]
     /\ UNCHANGED <<host, source, image, up, past>>

\* ps --services names what runs; dev-redeploy.sh asks it first, the other script
\* if it could not list the services.  A service that is not named has no log.
SkipLog(p) ==
  LET u == AtUnit(p)
  IN /\ proc[p].pc = "collect"
     /\ proc[p].mode = "compose"
     /\ proc[p].script = "dev" \/ "services" \in proc[p].fails
     /\ MayFail(up[u].ok)
     /\ proc' = [proc EXCEPT ![p] = Taken(p, u, "none", FALSE)]
     /\ UNCHANGED <<host, source, image, up, past, dir>>

Collect(p) == TakeLog(p) \/ SkipLog(p)

\* The URLs, and in dev-redeploy.sh smoke.sh, which asks other services too.
Smoke(p) ==
  LET url == \A u \in host.urls : up[u].ok
      next == IF proc[p].pc = "smoke" THEN "dev scan" ELSE IF proc[p].script = "dev by local" THEN "smoke" ELSE "end"
  IN /\ proc[p].pc \in {"smoke", "local smoke"}
     /\ \E script \in IF proc[p].pc = "smoke" THEN BOOLEAN ELSE {TRUE} :
          Go(p, next, "smoke", ~url \/ ~script, TRUE, {}) /\ MayFail(~script)
     /\ UNCHANGED <<host, source, image, up, past, dir>>

\* The collected logs are read from the directory; local-redeploy.sh has none
\* of its own for dev-redeploy.sh to read, and needs log-scan.py to read them.
Scan(p) ==
  LET local == proc[p].pc = "scan"
      found == \E u \in proc[p].logs : dir[proc[p].dir][u] \in {"old", "error"}
      blind == local /\ ~host.scanner
      mine == local \/ proc[p].script = "dev"
  IN /\ proc[p].pc \in {"scan", "dev scan"}
     /\ proc' = [proc EXCEPT ![p].bad = @ \/ blind \/ (mine /\ found),
                             ![p].fails = IF blind THEN @ \cup {"scanner"} ELSE @,
                             ![p].pc = IF local THEN "local smoke" ELSE "end"]
     /\ UNCHANGED <<host, source, image, up, past, dir, faults>>

-----------------------------------------------------------------------------
ChangeSource ==
  /\ source < MaxSource
  /\ source' = source + 1
  /\ UNCHANGED <<host, image, up, past, dir, proc, faults>>

\* A service logs an error, stops answering, or writes so much that what was
\* there before is not among the last lines.
Live(u) ==
  /\ \/ up' = [up EXCEPT ![u].err = TRUE] /\ UNCHANGED past /\ MayFail(TRUE)
     \/ up' = [up EXCEPT ![u].ok = FALSE] /\ UNCHANGED past /\ MayFail(TRUE)
     \/ past' = [past EXCEPT ![u] = FALSE] /\ UNCHANGED <<up, faults>>
  /\ UNCHANGED <<host, source, image, dir, proc>>

Next ==
  \/ ChangeSource
  \/ \E u \in Unit : Live(u)
  \/ \E p \in Proc : \/ Start(p) \/ Services(p) \/ Build(p) \/ Up(p) \/ Dependencies(p) \/ Restart(p) \/ Fallback(p)
                     \/ Collect(p) \/ Smoke(p) \/ Scan(p)

Spec == Init /\ [][Next]_vars

-----------------------------------------------------------------------------
Restarted(p) == IF proc[p].mode = "fallback" THEN {Units[1]} ELSE Unit

\* The failures that do not count.
Lenient(p) ==
  IF proc[p].script = "dev" THEN {"build", "logs"} ELSE IF proc[p].mode = "fallback" THEN {"logs"} ELSE {}

\* A run that ends well restarted its services from the source it found or a
\* later one, after every step was done and no log it took had an error; but
\* dev-redeploy.sh does not notice an image that was not built or a log it could
\* not take, nor local-redeploy.sh a file in var/logs, and another run may restart
\* the services or, in one directory, replace the logs.  A run that ends badly had
\* a step that failed or a log with an error, which in the journal and in a file
\* may be that of a process before the restart.
VerdictTrue ==
  \A p \in Proc : proc[p].pc = "end" =>
    LET unbuilt == proc[p].script = "dev" /\ "build" \in proc[p].fails
        found == {proc[p].seen[u] : u \in Unit}
    IN /\ ~proc[p].bad =>
            /\ proc[p].fails \subseteq Lenient(p)
            /\ ~unbuilt => \A u \in Restarted(p) \ proc[p].crossed : up[u].rev >= proc[p].since
            /\ ~proc[p].mixed => "error" \notin found
       /\ proc[p].bad /\ ~proc[p].mixed =>
            \/ proc[p].fails \ Lenient(p) # {}
            \/ "error" \in found
            \/ proc[p].mode \in {"systemd", "fallback"} /\ "old" \in found
-----------------------------------------------------------------------------
\* What holds in every state, of which the property is a part.
Runs == [script : {"none", "dev", "dev by local", "local"}, mode : {"none", "compose", "systemd", "local", "fallback"},
         pc : {"idle", "refused", "services", "build", "up", "deps", "restart", "fallback", "collect", "scan", "local smoke",
               "smoke", "dev scan", "end"},
         i : DOMAIN Units, dir : Dir \cup {1}, bad : BOOLEAN, logs : SUBSET Unit, since : Nat,
         fails : SUBSET {"services", "build", "up", "deps", "restart", "rebuild", "logs", "scanner", "smoke"},
         seen : [Unit -> {"none", "clean", "old", "error"}], crossed : SUBSET Unit, mixed : BOOLEAN]

Types ==
  /\ source \in Nat /\ image \in [Unit -> Nat] /\ up \in [Unit -> [rev : Nat, ok : BOOLEAN, err : BOOLEAN]]
  /\ past \in [Unit -> BOOLEAN] /\ dir \in [Dir -> [Unit -> {"none", "clean", "old", "error"}]]
  /\ proc \in [Proc -> Runs]

Place(p) ==
  LET pc == proc[p].pc
      mode == proc[p].mode
  IN /\ pc # "idle" => proc[p].dir \in Dir /\ proc[p].since <= source
     /\ pc \in {"services", "deps", "fallback", "scan", "local smoke"} => proc[p].script # "dev"
     /\ pc \in {"services", "build", "up"} => mode = "compose"
     /\ pc \in {"deps", "restart"} => mode = "systemd"
     /\ mode = "fallback" /\ pc # "fallback" => pc \in {"collect", "scan", "local smoke", "smoke", "dev scan", "end"}
     /\ pc = "fallback" => mode = "fallback"

\* Whether the logs have been searched.
Scanned(p) ==
  proc[p].pc = "end" \/ (proc[p].script # "dev" /\ proc[p].pc \in {"local smoke", "smoke", "dev scan"})
Blamed(p) == proc[p].fails \ Lenient(p) # {}
Found(p) == {proc[p].seen[u] : u \in Unit}

Verdict(p) ==
  /\ ~proc[p].bad => ~Blamed(p)
  /\ proc[p].bad /\ ~Scanned(p) => Blamed(p)
  /\ proc[p].bad /\ ~proc[p].mixed =>
       Blamed(p) \/ "error" \in Found(p) \/ (proc[p].mode \in {"systemd", "fallback"} /\ "old" \in Found(p))
  /\ Scanned(p) /\ ~proc[p].bad /\ ~proc[p].mixed => Found(p) \cap {"old", "error"} = {}

LogsTrue(p) ==
  /\ \A u \in Unit : proc[p].seen[u] \in {"old", "error"} => u \in proc[p].logs
  /\ proc[p].pc # "idle" /\ ~proc[p].mixed => \A u \in proc[p].logs : dir[proc[p].dir][u] = proc[p].seen[u]
  /\ "old" \in Found(p) => proc[p].mode \in {"systemd", "fallback"}
  /\ proc[p].pc = "idle" => proc[p].logs = {}

\* The services that were restarted so far.
Reached(p) ==
  LET byUnit == proc[p].pc = "restart" \/ (proc[p].pc = "collect" /\ proc[p].mode = "systemd" /\ proc[p].script = "dev")
      last == IF proc[p].pc = "collect" THEN proc[p].i ELSE proc[p].i - 1
  IN CASE proc[p].pc \in {"idle", "refused", "services", "build", "up", "deps", "fallback"} -> {}
       [] byUnit -> {Units[j] : j \in 1..last}
       [] OTHER -> Restarted(p)

Renewed(p) ==
  ~proc[p].bad /\ "build" \notin proc[p].fails =>
    /\ proc[p].pc = "up" => \A u \in Unit : image[u] >= proc[p].since
    /\ \A u \in Reached(p) \ proc[p].crossed : up[u].rev >= proc[p].since

RunSafe(p) == Place(p) /\ Verdict(p) /\ LogsTrue(p) /\ Renewed(p)
Safe == Types /\ \A p \in Proc : RunSafe(p)
=============================================================================
