------------------------------ MODULE ToolRouting ------------------------------
(***************************************************************************)
(* codex/bin/agent_tool_routing.py: the registry of high-risk capabilities *)
(* and the files that serve them.  validate_registry is run by hand and by *)
(* tests; resolve_capability finds the binding that serves an intent on a  *)
(* platform; the program of a binding calls assert_binding when it starts. *)
(* Each reads the registry anew: maintainers change it, and files of the   *)
(* repository come and go, between a resolution and the program's start.   *)
(***************************************************************************)
EXTENDS Naturals, Sequences, SequencesExt

CONSTANTS
  Registries,    \* the registries a maintainer may write: sequences of capabilities
  Files,         \* the files that bindings may name
  Platforms,     \* the platforms of the callers: SUPPORTED_PLATFORMS
  MaxEdits       \* bound on what maintainers change

VARIABLES registry, files, route, check, edits

vars == <<registry, files, route, check, edits>>

-----------------------------------------------------------------------------
\* A search of a list finds places in it; the first one, if it is not alone.
First(places) == CHOOSE n \in places : \A m \in places \ {n} : n < m
Twice(places) == \E m, n \in places : m # n

\* The bindings of a capability: those of an origin.
Of(c, origin) == {n \in DOMAIN c.bindings : c.bindings[n].origin = origin}

\* The first thing validate_capability finds wrong with a binding.
BindingError(c, b) ==
  IF b.kind \notin {"engine", "adapter"} \/ b.role \notin {"primary", "compatibility", "canonical"}
     \/ b.platforms \ Platforms # {}                        THEN "BLOCKED"
  ELSE IF b.origin \notin files /\ b.kind = "engine"        THEN "MISSING_ENGINE"
  ELSE IF b.origin \notin files                             THEN "MISSING_ADAPTER"
  ELSE IF b.kind = "adapter" /\ b.target # c.engine         THEN "ADAPTER_DRIFT"
  ELSE IF b.kind = "engine" /\ b.target # "none"            THEN "BLOCKED" ELSE "none"

Serving(c, platform)   == {n \in DOMAIN c.bindings : platform \in c.bindings[n].platforms}
Primaries(c, platform) == {n \in Serving(c, platform) : c.bindings[n].role = "primary"}

\* The first thing it finds wrong with a capability: resolve names it by its code.
CapabilityError(c) ==
  LET wrong  == {n \in DOMAIN c.bindings : BindingError(c, c.bindings[n]) # "none"}
      engine == Of(c, c.engine)
  IN IF c.intents = {} \/ c.bindings = <<>>                        THEN "BLOCKED"
     ELSE IF c.engine \notin files                                 THEN "MISSING_ENGINE"
     ELSE IF Twice(engine) \/ \A n \in engine : c.bindings[n].kind # "engine" THEN "BLOCKED"
     ELSE IF wrong # {}                                            THEN BindingError(c, c.bindings[First(wrong)])
     ELSE IF \E p \in Platforms : Twice(Primaries(c, p))           THEN "BLOCKED" ELSE "none"

\* Two capabilities may declare an intent.
Valid_Shared ==
  /\ \A i, j \in DOMAIN registry : i # j => registry[i].id # registry[j].id
  /\ \A i \in DOMAIN registry : CapabilityError(registry[i]) = "none"

\* validate_registry: no capability twice, no intent with two owners.
Valid ==
  /\ \A i, j \in DOMAIN registry : i # j => /\ registry[i].id # registry[j].id
                                            /\ registry[i].intents \cap registry[j].intents = {}
  /\ \A i \in DOMAIN registry : CapabilityError(registry[i]) = "none"

-----------------------------------------------------------------------------
Refused(code)  == [code |-> code, id |-> "none", origin |-> "none"]
Selected(c, n) == [code |-> "resolved", id |-> c.id, origin |-> c.bindings[n].origin]

\* resolve_capability: an intent is also met by the capability of that name.
FindByIntent(intent) ==
  {i \in DOMAIN registry : intent = registry[i].id \/ intent \in registry[i].intents}

\* The capability is not validated again when it is used.
Select_Trusted(c, platform) ==
  LET primary == Primaries(c, platform)
  IN IF c.status # "managed"               THEN Refused("UNMANAGED")
     ELSE IF primary # {}                  THEN Selected(c, First(primary))
     ELSE IF Serving(c, platform) # {}     THEN Refused("MISSING_ADAPTER") ELSE Refused("UNSUPPORTED_PLATFORM")

Select(c, platform) ==
  LET primary == Primaries(c, platform)
  IN IF c.status # "managed"               THEN Refused("UNMANAGED")
     ELSE IF CapabilityError(c) # "none"   THEN Refused(CapabilityError(c))
     ELSE IF primary # {}                  THEN Selected(c, First(primary))
     ELSE IF Serving(c, platform) # {}     THEN Refused("MISSING_ADAPTER") ELSE Refused("UNSUPPORTED_PLATFORM")

Resolve(intent, platform) ==
  LET found == FindByIntent(intent)
  IN IF found = {} THEN Refused("UNKNOWN_INTENT")
     ELSE IF Twice(found) THEN Refused("AMBIGUOUS_INTENT") ELSE Select(registry[First(found)], platform)

\* assert_binding: the first binding of that origin counts, whatever its role.
AssertBinding(id, origin, platform) ==
  LET found == {i \in DOMAIN registry : registry[i].id = id}
      c     == registry[First(found)]
      b     == c.bindings[First(Of(c, origin))]
  IN IF found = {}                                    THEN "UNKNOWN_CAPABILITY"
     ELSE IF Twice(found)                             THEN "AMBIGUOUS_CAPABILITY"
     ELSE IF c.status # "managed"                     THEN "UNMANAGED"
     ELSE IF CapabilityError(c) # "none"              THEN "BLOCKED"
     ELSE IF Of(c, origin) = {}                       THEN "MISSING_ADAPTER"
     ELSE IF platform \notin b.platforms              THEN "UNSUPPORTED_PLATFORM"
     ELSE IF b.kind = "adapter" /\ b.target # c.engine THEN "ADAPTER_DRIFT" ELSE "resolved"

-----------------------------------------------------------------------------
\* Two capabilities have the id of an answer, or one names its file twice.
Doubled(answer) ==
  \E i \in DOMAIN registry :
    /\ registry[i].id = answer.id
    /\ \/ Twice(Of(registry[i], answer.origin))
       \/ \E j \in DOMAIN registry : i # j /\ registry[j].id = answer.id

\* moved and doubled are remembered for the properties only.
NoRoute == [intent |-> "none", platform |-> "none", answer |-> Refused("none"), moved |-> FALSE, doubled |-> FALSE]

\* What the program answered, and whether the caller would be sent to it again.
NoCheck == [code |-> "none", still |-> FALSE]

Init ==
  /\ registry \in Registries
  /\ files = Files
  /\ route = NoRoute
  /\ check = NoCheck
  /\ edits = 0

\* A caller asks for an intent; what it is told is not kept anywhere.
Ask(intent, platform) ==
  /\ route = NoRoute
  /\ LET answer == Resolve(intent, platform)
     IN route' = [intent |-> intent, platform |-> platform, answer |-> answer,
                  moved |-> FALSE, doubled |-> Doubled(answer)]
  /\ UNCHANGED <<registry, files, check, edits>>

\* The program of the binding starts and checks itself.
StartProgram ==
  /\ route.answer.code = "resolved" /\ check = NoCheck
  /\ check' = [code  |-> AssertBinding(route.answer.id, route.answer.origin, route.platform),
               still |-> Resolve(route.intent, route.platform) = route.answer]
  /\ UNCHANGED <<registry, files, route, edits>>

Edit ==
  /\ edits < MaxEdits
  /\ edits' = edits + 1
  /\ \/ \E f \in Files : files' = files \ {f} /\ UNCHANGED registry
     \/ \E i \in DOMAIN registry : registry' = [registry EXCEPT ![i].status = "external"] /\ UNCHANGED files
     \/ \E i \in DOMAIN registry : registry' = RemoveAt(registry, i) /\ UNCHANGED files
  /\ route' = [route EXCEPT !.moved = route # NoRoute]
  /\ UNCHANGED check

Intents == UNION {c.intents \cup {c.id} : c \in UNION {ToSet(r) : r \in Registries}}

Next ==
  \/ \E intent \in Intents, platform \in Platforms : Ask(intent, platform)
  \/ StartProgram
  \/ Edit

Spec == Init /\ [][Next]_vars

-----------------------------------------------------------------------------
\* Whatever changed since it was selected, a program starts exactly when its
\* caller, asking now, would be sent to it again: none starts on an answer that
\* is stale, none refuses on one that holds.  An id declared twice, or a file
\* that its capability names twice, is excused: assert_binding looks at another
\* entry than resolve_capability did.
SelectedStarts ==
  check # NoCheck /\ ~route.doubled => (check.code = "resolved" <=> check.still)

\* In a registry that passed validation, an intent leads to the one capability
\* that declares it or to a reason that is not the registry's, unless it is the
\* name of another capability; nothing is selected that a file is missing for.
ValidResolves ==
  LET c == CHOOSE x \in ToSet(registry) : route.intent \in x.intents
      code == route.answer.code
  IN route # NoRoute /\ ~route.moved /\ Valid /\ (\E x \in ToSet(registry) : route.intent \in x.intents) =>
       \/ code = "resolved" /\ route.answer.id = c.id /\ route.answer.origin \in files
       \/ code = "UNMANAGED" /\ c.status # "managed"
       \/ code \in {"MISSING_ADAPTER", "UNSUPPORTED_PLATFORM"} /\ Primaries(c, route.platform) = {}
       \/ code = "AMBIGUOUS_INTENT" /\ \E x \in ToSet(registry) : x # c /\ x.id = route.intent
=============================================================================
