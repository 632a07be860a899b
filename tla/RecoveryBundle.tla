----------------------------- MODULE RecoveryBundle -----------------------------
(***************************************************************************)
(* codex/bin/codex_recovery_bundle.py: export copies the secrets of three  *)
(* places, file by file, and has openssl write the encrypted archive       *)
(* straight to the bundle's path; import decrypts it and copies the files  *)
(* over the live ones, and takes none away.  Other programs write the live *)
(* files all the time, and either command may be stopped.                  *)
(***************************************************************************)
EXTENDS Naturals

CONSTANTS
  File,        \* the secrets
  Place,       \* where each is: "codex", "cloud" or "openclaw"
  Config,      \* rclone.conf, without which no file of cloud-access counts
  MaxWrites,   \* bound on what other programs write
  MaxRuns      \* bound on the commands

Copying == {"codex", "cloud", "openclaw"}
In(place) == {f \in File : Place[f] = place}
Assumed == Place \in [File -> Copying] /\ Config \in In("cloud")

VARIABLES
  live,      \* the version of each live file; 0 is none
  bundle,    \* the file at the bundle's path: "none", "whole", "torn", and its content
  pc,        \* "idle", the place that is copied, "encrypt", "restore"
  cloud,     \* the export found a configuration and copies cloud-access
  temp,      \* the temporary directory
  todo,      \* files that the command has yet to copy
  writes, runs,
  before,    \* the live files when the command began
  crossed,   \* files that another program wrote since
  torn,      \* an export did not finish what it wrote over the bundle
  exported   \* an export has ended well

vars == <<live, bundle, pc, cloud, temp, todo, writes, runs, before, crossed, torn, exported>>

Nothing == [f \in File |-> 0]

Init ==
  /\ live \in [File -> {0, 1}]
  /\ bundle = [state |-> "none", files |-> Nothing]
  /\ pc = "idle"
  /\ cloud = FALSE
  /\ temp = Nothing
  /\ todo = {}
  /\ writes = 1 /\ runs = 0
  /\ before = live
  /\ crossed = {}
  /\ torn = FALSE /\ exported = FALSE

\* Another program writes or removes a secret.
Write(f) ==
  /\ writes < MaxWrites
  /\ writes' = writes + 1
  /\ \E v \in {writes', 0} : live' = [live EXCEPT ![f] = v]
  /\ crossed' = crossed \cup {f}
  /\ UNCHANGED <<bundle, pc, cloud, temp, todo, runs, before, torn, exported>>

Begin ==
  /\ pc = "idle" /\ runs < MaxRuns
  /\ runs' = runs + 1
  /\ before' = live /\ crossed' = {}
  /\ temp' = Nothing

\* export_bundle: the files that are there are found and copied one by one, first
\* those of codex-secrets.
Export ==
  /\ Begin
  /\ pc' = "codex" /\ todo' = In("codex")
  /\ UNCHANGED <<live, bundle, cloud, writes, torn, exported>>

CopyOut(f) ==
  /\ pc \in Copying /\ f \in todo
  /\ temp' = [temp EXCEPT ![f] = live[f]]
  /\ todo' = todo \ {f}
  /\ UNCHANGED <<live, bundle, pc, cloud, writes, runs, before, crossed, torn, exported>>

\* Only the configuration is taken of the cloud access.
CloudAccess_Config ==
  /\ pc = "codex" /\ todo = {}
  /\ pc' = "cloud"
  /\ cloud' = (live[Config] # 0)
  /\ todo' = IF cloud' THEN {Config} ELSE {}
  /\ UNCHANGED <<live, bundle, temp, writes, runs, before, crossed, torn, exported>>

\* Then the cloud access, if its configuration is there by now.
CloudAccess ==
  /\ pc = "codex" /\ todo = {}
  /\ pc' = "cloud"
  /\ cloud' = (live[Config] # 0)
  /\ todo' = IF cloud' THEN In("cloud") ELSE {}
  /\ UNCHANGED <<live, bundle, temp, writes, runs, before, crossed, torn, exported>>

Openclaw ==
  /\ pc = "cloud" /\ todo = {}
  /\ pc' = "openclaw" /\ todo' = In("openclaw")
  /\ UNCHANGED <<live, bundle, cloud, temp, writes, runs, before, crossed, torn, exported>>

\* openssl opens the bundle's path for writing.
Encrypt ==
  /\ pc = "openclaw" /\ todo = {}
  /\ pc' = "encrypt"
  /\ bundle' = [state |-> "torn", files |-> Nothing]
  /\ torn' = TRUE
  /\ UNCHANGED <<live, cloud, temp, todo, writes, runs, before, crossed, exported>>

Encrypted ==
  /\ pc = "encrypt"
  /\ pc' = "idle"
  /\ bundle' = [state |-> "whole", files |-> temp]
  /\ torn' = FALSE /\ exported' = TRUE
  /\ UNCHANGED <<live, cloud, temp, todo, writes, runs, before, crossed>>

\* Live files that the bundle does not have are taken away.
CopyIn_Mirror(f) ==
  /\ pc = "restore" /\ f \in todo
  /\ live' = [g \in File |-> IF g = f THEN bundle.files[f] ELSE IF bundle.files[g] = 0 THEN 0 ELSE live[g]]
  /\ todo' = todo \ {f}
  /\ UNCHANGED <<bundle, pc, cloud, temp, writes, runs, before, crossed, torn, exported>>

\* import_bundle: a bundle that is not whole, or another passphrase, ends it
\* before it has touched a live file.
Import ==
  /\ Begin
  /\ IF bundle.state = "whole"
     THEN \E opens \in BOOLEAN :
            /\ pc' = IF opens THEN "restore" ELSE "idle"
            /\ todo' = IF opens THEN {f \in File : bundle.files[f] # 0} ELSE {}
     ELSE pc' = "idle" /\ todo' = {}
  /\ UNCHANGED <<live, bundle, cloud, writes, torn, exported>>

CopyIn(f) ==
  /\ pc = "restore" /\ f \in todo
  /\ live' = [live EXCEPT ![f] = bundle.files[f]]
  /\ todo' = todo \ {f}
  /\ UNCHANGED <<bundle, pc, cloud, temp, writes, runs, before, crossed, torn, exported>>

Imported ==
  /\ pc = "restore" /\ todo = {}
  /\ pc' = "idle"
  /\ UNCHANGED <<live, bundle, cloud, temp, todo, writes, runs, before, crossed, torn, exported>>

\* A command stops: a file is gone when it is to be copied, openssl fails, the disk
\* is full, or it is killed.
Stop ==
  /\ pc # "idle"
  /\ pc' = "idle" /\ todo' = {}
  /\ UNCHANGED <<live, bundle, cloud, temp, writes, runs, before, crossed, torn, exported>>

Next ==
  \/ Export \/ CloudAccess \/ Openclaw \/ Encrypt \/ Encrypted \/ Import \/ Imported \/ Stop
  \/ \E f \in File : Write(f) \/ CopyOut(f) \/ CopyIn(f)

Spec == Init /\ [][Next]_vars

-----------------------------------------------------------------------------
\* What the bundle is to have of a file.
Taken(f) == IF Place[f] = "cloud" /\ ~cloud THEN 0 ELSE before[f]

\* Once an export has ended well there is a whole bundle, unless a later one
\* stopped while it wrote; a bundle about to be written has what was there when
\* the export began, but for files that were written meanwhile, and a cloud access
\* all or nothing: all if its configuration was there, which only a write of the
\* configuration changes; an import that comes to its end restores what the bundle
\* has and changes nothing else.
BundleFaithful ==
  /\ exported /\ ~torn => bundle.state = "whole"
  /\ pc = "encrypt" =>
       /\ \A f \in File \ crossed : temp[f] = Taken(f)
       /\ Config \in crossed \/ cloud = (before[Config] # 0)
  /\ pc = "restore" /\ todo = {} => \A f \in File \ crossed :
       live[f] = IF bundle.files[f] # 0 THEN bundle.files[f] ELSE before[f]

-----------------------------------------------------------------------------
\* The invariant.  What an export has copied, place by place, and what an import
\* has restored, so far.
Types ==
  /\ live \in [File -> Nat] /\ temp \in [File -> Nat] /\ before \in [File -> Nat]
  /\ bundle \in [state : {"none", "whole", "torn"}, files : [File -> Nat]]
  /\ writes \in Nat /\ todo \subseteq File /\ cloud \in BOOLEAN
  /\ pc \in Copying \cup {"idle", "encrypt", "restore"}
Written == exported /\ ~torn => bundle.state = "whole"
Ahead(f) ==
  f \in todo \/ (pc = "codex" /\ Place[f] # "codex") \/ (pc = "cloud" /\ Place[f] = "openclaw")
Copied ==
  pc \in Copying \cup {"encrypt"} =>
    /\ \A f \in todo : Place[f] = pc /\ (pc = "cloud" => cloud)
    /\ \A f \in File \ crossed : live[f] = before[f] /\ temp[f] = IF Ahead(f) THEN 0 ELSE Taken(f)
    /\ pc = "codex" \/ Config \in crossed \/ cloud = (before[Config] # 0)
Restored ==
  pc = "restore" =>
    /\ \A f \in todo : bundle.files[f] # 0
    /\ \A f \in File \ crossed : live[f] = IF bundle.files[f] # 0 /\ f \notin todo THEN bundle.files[f] ELSE before[f]
Safe == Types /\ Written /\ Copied /\ Restored
=============================================================================
