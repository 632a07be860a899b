------------------------------ MODULE BizonSession ------------------------------
(***************************************************************************)
(* codex/bin/mcp-bizon365.py: tools of a Bizon365 project over one browser *)
(* session.  A session that ran out shows in several ways: 401, an empty   *)
(* answer or {}; the client then logs in again and repeats the request.    *)
(* The tools of a server are those of its role, and raw calls are kept to  *)
(* a list of paths.  Calls come one after the other.                       *)
(***************************************************************************)
EXTENDS Naturals, FiniteSets

CONSTANTS
  Recording,  \* files of the archive
  MaxCalls,   \* bound on the calls
  MaxSteps    \* bound on what happens to the archive

\* The tools, by the least role (0 viewer, 1 operator, 2 admin) and by what
\* they do: "requests" GETs of the project.
Tools ==
  {[min |-> 0, does |-> "read", requests |-> n] : n \in {1, 2}}                   \* project, rooms, staff
    \cup {[min |-> 1, does |-> "read", requests |-> 1],                           \* disk files
          [min |-> 1, does |-> "download", requests |-> 1],
          [min |-> 1, does |-> "record", requests |-> 0],
          [min |-> 2, does |-> "refresh", requests |-> 0]}
    \cup {[min |-> 2, does |-> m, requests |-> 1] : m \in {"raw get", "raw post"}}

VARIABLES
  role,     \* role of the server
  sid,      \* the cookie: "none", "live" or "dead" (Bizon365 forgot it)
  files,    \* the archive
  index,    \* _archive_index; {"none"} before it is built
  saved,    \* the download directory: "none", "part" or "whole"
  call,     \* the call under way
  answer,   \* what the last call answered
  posts,    \* times its POST took effect
  odd,      \* history: in this call a refused login kept the old cookie, or
            \* the session ran out again
  calls, steps

session == <<role, sid>>
archive == <<files, index, steps>>
vars    == <<session, archive, saved, call, answer, posts, odd, calls>>

Idle == [tool |-> [min |-> 0, does |-> "read", requests |-> 0], pc |-> "idle",
         left |-> 0, retry |-> TRUE, force |-> FALSE, empty |-> FALSE]

Init ==
  /\ role \in 0 .. 2
  /\ sid = "none"
  /\ files \in SUBSET Recording
  /\ index = {"none"}
  /\ saved = "none"
  /\ call = Idle
  /\ answer = "none"
  /\ posts = 0
  /\ odd = FALSE
  /\ calls = 0
  /\ steps = 0

-----------------------------------------------------------------------------
(* Bizon365 and the archive on their own *)

RunOut ==
  /\ sid = "live"
  /\ sid' = "dead"
  /\ odd' = (odd \/ (call.pc # "idle" /\ ~call.retry))
  /\ UNCHANGED <<role, archive, saved, call, answer, posts, calls>>

ArchiveChanges(f) ==
  /\ steps < MaxSteps
  /\ steps' = steps + 1
  /\ files' = IF f \in files THEN files \ {f} ELSE files \cup {f}
  /\ UNCHANGED <<session, index, saved, call, answer, posts, odd, calls>>

-----------------------------------------------------------------------------
(* BizonMCPServices.execute *)

Return(a) ==
  /\ answer' = a
  /\ call' = Idle

\* _validate_path: a raw path is off the list, on it, or on it and unsafe,
\* which those of POSTs may not be.
Blocked(tool, path) ==
  \/ tool.does \in {"raw get", "raw post"} /\ path = "off"
  \/ tool.does = "raw post" /\ path = "unsafe"

\* A tool that build_server has registered for the role.
Call(tool, path) ==
  /\ call.pc = "idle"
  /\ calls < MaxCalls
  /\ calls' = calls + 1
  /\ tool.min <= role
  /\ posts' = 0
  /\ odd' = FALSE
  /\ \/ /\ Blocked(tool, path)
        /\ Return("error")
     \/ /\ ~Blocked(tool, path)
        /\ answer' = "none"
        /\ call' = [tool |-> tool, left |-> tool.requests, retry |-> TRUE,
                    force |-> tool.does = "refresh", empty |-> FALSE,
                    pc |-> IF tool.does = "record" THEN "record" ELSE "login"]
  /\ UNCHANGED <<session, archive, saved>>

-----------------------------------------------------------------------------
(* BizonClient.login *)

LoggedIn ==
  IF call.tool.does = "refresh" THEN Return("data")
  ELSE call' = [call EXCEPT !.pc = "request", !.force = FALSE] /\ UNCHANGED answer

LoginSkipped ==
  /\ call.pc = "login" /\ ~call.force /\ sid # "none"
  /\ LoggedIn
  /\ UNCHANGED <<session, archive, saved, posts, odd, calls>>

LoginDone ==
  /\ call.pc = "login" /\ (call.force \/ sid = "none")
  /\ sid' = "live"
  /\ LoggedIn
  /\ UNCHANGED <<role, archive, saved, posts, odd, calls>>

\* A login that is refused with a message counts as done if there is a cookie.
LoginRefused ==
  /\ call.pc = "login" /\ (call.force \/ sid = "none")
  /\ \/ sid = "none" /\ Return("error") /\ UNCHANGED odd
     \/ sid # "none" /\ LoggedIn /\ odd' = TRUE
  /\ UNCHANGED <<session, archive, saved, posts, calls>>

\* The page or the login is answered with an error status, or not at all.
LoginFails ==
  /\ call.pc = "login" /\ (call.force \/ sid = "none")
  /\ Return("error")
  /\ UNCHANGED <<session, archive, saved, posts, odd, calls>>

-----------------------------------------------------------------------------
(* BizonClient._request_json *)

Relogin == call' = [call EXCEPT !.pc = "login", !.force = TRUE, !.retry = FALSE] /\ UNCHANGED answer

\* The next request of the tool may be repeated again; what it answers lacks what
\* either request did not bring.
Answered(a) ==
  LET empty == call.empty \/ a = "nothing"
  IN IF call.left > 1
     THEN call' = [call EXCEPT !.left = @ - 1, !.retry = TRUE, !.pc = "login", !.empty = empty] /\ UNCHANGED answer
     ELSE IF call.tool.does = "download"
     THEN call' = [call EXCEPT !.pc = "download", !.empty = empty] /\ UNCHANGED answer
     ELSE Return(IF empty THEN "nothing" ELSE a)

Posting == call.tool.does = "raw post"

\* Mutant: an empty answer is repeated, whatever was asked.
OnEmpty_Any == IF call.retry THEN Relogin ELSE Answered(IF Posting THEN "posted" ELSE "nothing")

\* An empty answer, or {} to a GET: the session may have run out.
OnEmpty ==
  IF Posting THEN Answered("posted")
  ELSE IF call.retry THEN Relogin
  ELSE Answered("nothing")

Request(reply) ==
  /\ call.pc = "request"
  /\ posts' = IF Posting /\ sid = "live" THEN posts + 1 ELSE posts
  /\ \/ reply = "data" /\ sid = "live" /\ Answered("data")
     \/ reply = "nothing" /\ (Posting \/ sid = "dead") /\ OnEmpty
     \/ reply = "401" /\ sid = "dead" /\ (IF call.retry THEN Relogin ELSE Return("error"))
     \/ reply = "error" /\ Return("error")
  /\ UNCHANGED <<session, archive, saved, odd, calls>>

\* The request does not arrive.
RequestFails ==
  /\ call.pc = "request"
  /\ Return("error")
  /\ UNCHANGED <<session, archive, saved, posts, odd, calls>>

-----------------------------------------------------------------------------
(* download_file and tool_get_archive_room_rec *)

Download ==
  /\ call.pc = "download"
  /\ \/ Return("error") /\ UNCHANGED saved                    \* not found, or HTTP errors
     \/ Return("error") /\ saved' = "part"                    \* it breaks off
     \/ ~call.empty /\ Return("data") /\ saved' = "whole"
  /\ UNCHANGED <<session, archive, posts, odd, calls>>

\* By its name, or as the best match of the index, which is built only once.
Record(f) ==
  /\ call.pc = "record"
  /\ \/ Return(IF f \in files THEN "data" ELSE "error") /\ UNCHANGED index
     \/ LET entries == IF index = {"none"} THEN files ELSE index
        IN  /\ index' = entries
            /\ Return(IF f \in entries \cap files THEN "data" ELSE "error")
  /\ UNCHANGED <<session, files, steps, saved, posts, odd, calls>>

Next ==
  \/ RunOut \/ \E f \in Recording : ArchiveChanges(f)
  \/ \E tool \in Tools, path \in {"on", "off", "unsafe"} : Call(tool, path)
  \/ LoginSkipped \/ LoginDone \/ LoginRefused \/ LoginFails
  \/ \E reply \in {"data", "nothing", "401", "error"} : Request(reply)
  \/ RequestFails \/ Download \/ \E f \in Recording : Record(f)

Spec == Init /\ [][Next]_vars

-----------------------------------------------------------------------------
\* However often a session runs out, a POST takes effect once at most, and a
\* GET of data that is there is answered with it or with an error, not with
\* nothing, unless Bizon365 refused the login that the client believes it made
\* or the session ran out again between the login and the repeated request.
SessionsMended ==
  /\ posts <= 1
  /\ answer = "nothing" => odd

-----------------------------------------------------------------------------
\* The invariant: a call that goes on has posted nothing yet, and where it
\* repeats a request, it has logged in for that; what it lacks is excused.
Types ==
  /\ sid \in {"none", "live", "dead"} /\ posts \in 0 .. 1 /\ odd \in BOOLEAN
  /\ call.tool \in Tools \cup {Idle.tool}
  /\ call = [tool |-> call.tool, pc |-> call.pc, left |-> call.left, retry |-> call.retry, force |-> call.force,
             empty |-> call.empty]
  /\ call.pc \in {"idle", "login", "request", "download", "record"}
  /\ call.left \in 0 .. call.tool.requests
  /\ call.retry \in BOOLEAN /\ call.force \in BOOLEAN /\ call.empty \in BOOLEAN
Unposted == call.pc # "idle" => posts = 0
Repeats ==
  /\ call.pc = "login" /\ ~call.retry => call.force
  /\ call.pc = "request" /\ ~call.retry /\ sid = "dead" => odd
  /\ call.empty => odd
Safe == Types /\ Unposted /\ Repeats /\ SessionsMended
=============================================================================
