----------------------------- MODULE ResolverLock -----------------------------
(***************************************************************************)
(* InstallationLockV1: a resolver locks the modules of an installation and *)
(* binds what their manifests declare; validate_resolver_result_semantics  *)
(* accepts the lock or refuses it.  The installation may be revised before *)
(* the lock is looked at.  Identifiers are numbers, in their order.        *)
(***************************************************************************)
EXTENDS Naturals, Sequences, FiniteSets, SequencesExt

CONSTANTS
  Registry,       \* the snapshot: [module, version, digest, manifest]
  Installations,  \* [modules, capabilities, custody]: what may be desired
  MaxRevision     \* bound on the revisions of the installation

Kinds == {"artifacts", "routes", "web", "migrations", "units", "mcp"}

VARIABLES
  installation, revision,
  lock,      \* [revision, modules, bound, lists], or a lock of revision 0
  pc,        \* "none", "new", "closure", "bindings", "accepted", "refused"
  required,  \* required_module_ids
  pending    \* pending_module_ids

vars == <<installation, revision, lock, pc, required, pending>>

NoLock == [revision |-> 0, modules |-> <<>>, bound |-> <<>>, lists |-> [k \in Kinds |-> <<>>]]

Init ==
  /\ installation \in Installations /\ revision = 1
  /\ lock = NoLock /\ pc = "none"
  /\ required = {} /\ pending = {}

-----------------------------------------------------------------------------
\* Entries of the registry that a lock resolves.
Resolved(l) ==
  {e \in Registry : [module |-> e.module, version |-> e.version, digest |-> e.digest] \in ToSet(l.modules)}

Ids(entries) == {e.module : e \in entries}

\* Strictly ascending by key, which is a tuple of numbers.
Before(a, b) == \E i \in DOMAIN a : a[i] < b[i] /\ \A j \in 1 .. i - 1 : a[j] = b[j]
Ascending(s, key(_)) == \A i \in 1 .. Len(s) - 1 : Before(key(s[i]), key(s[i + 1]))

\* capability_modules, with the versions that the module provides.
Provides(e, c, v) == <<c, v>> \in e.manifest.provides
Provider(l, c) == {e \in Resolved(l) : \E b \in ToSet(l.bound) : b.capability = c /\ b.module = e.module}

\* module_dependency, module_capability (which the sets of a manifest rule out),
\* artifact_path_collision, migration_lineage_broken, and what a manifest must
\* declare for what it refers to.
Unique(records) == \A a, b \in records : a.id = b.id => a = b
Artifact(m, id) == {a \in m.artifacts : a.id = id}

LineageHolds_AnyOrder(m) ==
  /\ \A a, b \in m.migrations : a.order = b.order => a = b
  /\ m.migrations # {} => Cardinality({a \in m.migrations : a.parent = 0}) = 1
  /\ \A a \in m.migrations : a.parent # 0 => \E b \in m.migrations : b.id = a.parent

LineageHolds(m) ==
  /\ \A a, b \in m.migrations : a.order = b.order => a = b
  /\ m.migrations # {} => Cardinality({a \in m.migrations : a.parent = 0}) = 1
  /\ \A a \in m.migrations :
       a.parent # 0 => \E b \in m.migrations : b.id = a.parent /\ b.order < a.order

Coherent(e) ==
  LET m == e.manifest IN
  /\ \A d \in m.depends : d.module # e.module /\ \A o \in m.depends : o.module = d.module => o = d
  /\ \A s \in {m.artifacts, m.routes, m.web, m.migrations, m.units, m.needs} : Unique(s)
  /\ \A a, b \in m.artifacts : a.path = b.path => a = b
  /\ \A r \in m.routes : \E u \in m.units : u.id = r.unit
  /\ \A w \in m.web : Artifact(m, w.artifact) # {} /\ \E r \in m.routes : r.id = w.route
  /\ \A g \in m.migrations : Artifact(m, g.artifact) # {}
  /\ LineageHolds(m)
  /\ \A u \in m.units : Artifact(m, u.artifact) # {} /\ \A k \in u.keys : \E n \in m.needs : n.id = k

-----------------------------------------------------------------------------
\* What a lock must bind for a resolved entry, by kind.
Sha(m, id) == (CHOOSE a \in Artifact(m, id) : TRUE).sha
In(custody, k) == k \in DOMAIN custody /\ custody[k].present
Refs(u, custody) == {custody[k].ref : k \in {k \in u.keys : In(custody, k)}}

McpOf(l, e, r) ==
  UNION {{c \in u.capabilities : e \in Provider(l, c)} : u \in {u \in e.manifest.units : u.id = r.unit}}

Bindings(l, e, kind, custody) ==
  LET m == e.manifest IN
  CASE kind = "artifacts"  -> {[module |-> e.module, id |-> a.id, sha |-> a.sha] : a \in m.artifacts}
    [] kind = "routes"     -> {[module |-> e.module, id |-> r.id, endpoint |-> r.endpoint, unit |-> r.unit] : r \in m.routes}
    [] kind = "web"        -> {[module |-> e.module, id |-> w.id, sha |-> Sha(m, w.artifact), route |-> w.route] : w \in m.web}
    [] kind = "migrations" -> {[module |-> e.module, id |-> g.id, order |-> g.order, parent |-> g.parent,
                                sha |-> Sha(m, g.artifact)] : g \in m.migrations}
    [] kind = "units"      -> {[module |-> e.module, id |-> u.id, sha |-> Sha(m, u.artifact),
                                refs |-> Refs(u, custody)] : u \in m.units}
    [] kind = "mcp"        -> UNION {{[endpoint |-> r.endpoint, id |-> c, unit |-> r.unit] : c \in McpOf(l, e, r)}
                                       : r \in {r \in m.routes : r.mcp}}

\* The order of each list of bindings.
Rank(kind, b) ==
  CASE kind = "migrations" -> <<b.module, b.order, b.id>>
    [] kind = "mcp"        -> <<b.endpoint, b.id>>
    [] OTHER               -> <<b.module, b.id>>

\* A list binds all that the manifests declare, as they declare it, and nothing
\* else, once each and in order.
ListHolds(l, kind, custody) ==
  LET rank(b) == Rank(kind, b) IN
  /\ ToSet(l.lists[kind]) = UNION {Bindings(l, e, kind, custody) : e \in Resolved(l)}
  /\ Ascending(l.lists[kind], rank)

\* secret_custody_missing
CustodyHolds(e, custody) ==
  \A u \in e.manifest.units : \A n \in e.manifest.needs :
    n.id \in u.keys /\ n.required => In(custody, n.id)

\* route_collision
EndpointsHold(l) ==
  \A i, j \in DOMAIN l.lists["routes"] :
    l.lists["routes"][i].endpoint = l.lists["routes"][j].endpoint => i = j

-----------------------------------------------------------------------------
\* The installation is revised.
Revise ==
  /\ revision < MaxRevision
  /\ pc = "new"
  /\ installation' \in Installations
  /\ revision' = revision + 1
  /\ UNCHANGED <<lock, pc, required, pending>>

\* What may become of a list by mistake.
Slips(s) ==
  {s} \cup {RemoveAt(s, i) : i \in DOMAIN s} \cup {Append(s, s[i]) : i \in DOMAIN s}
    \cup IF Len(s) < 2 THEN {} ELSE {Reverse(s)}

\* The members of S in the order of their keys.
Sorted(S, key(_)) ==
  LET earlier(x)  == {y \in S : Before(key(y), key(x))}
      noLater(x)  == {y \in S : ~Before(key(x), key(y))}
  IN [n \in 1 .. Cardinality(S) |->
        CHOOSE x \in S : Cardinality(earlier(x)) < n /\ n <= Cardinality(noLater(x))]

\* The resolver signs a lock: entries of the registry, and providers among them
\* for some capabilities, with what the manifests declare.  It may be wrong in
\* the choice, or in one list.
Offers(S) ==
  UNION {{[capability |-> p[1], module |-> e.module, version |-> e.version] : p \in e.manifest.provides} : e \in S}

Honest(S, C) ==
  LET l == [revision |-> revision,
            modules  |-> Sorted({[module |-> e.module, version |-> e.version, digest |-> e.digest] : e \in S},
                                LAMBDA m : <<m.module, m.version>>),
            bound    |-> Sorted(C, LAMBDA b : <<b.capability, b.module, b.version>>),
            lists    |-> NoLock.lists]
  IN [l EXCEPT !.lists =
        [k \in Kinds |-> Sorted(UNION {Bindings(l, e, k, installation.custody) : e \in S}, LAMBDA b : Rank(k, b))]]

Resolve ==
  /\ pc = "none"
  /\ \E S \in SUBSET Registry : \E C \in SUBSET Offers(S) :
       LET l == Honest(S, C) IN
       \/ lock' = l
       \/ \E s \in Slips(l.modules) : lock' = [l EXCEPT !.modules = s]
       \/ \E k \in Kinds : \E s \in Slips(l.lists[k]) : lock' = [l EXCEPT !.lists[k] = s]
  /\ pc' = "new"
  /\ UNCHANGED <<installation, revision, required, pending>>

Enabled  == {d \in installation.modules : d.enabled}
Disabled == {d.module : d \in installation.modules \ Enabled}

\* resolver_input_binding
Bound == lock.revision = revision

\* registry_module_binding, resolver_order; the enabled modules in the version
\* that is desired.
ModulesHold ==
  LET key(m) == <<m.module, m.version>> IN
  /\ Cardinality(Resolved(lock)) = Len(lock.modules)
  /\ Cardinality(Ids(Resolved(lock))) = Len(lock.modules)
  /\ Ascending(lock.modules, key)
  /\ \A e \in Resolved(lock) : Coherent(e)
  /\ \A d \in Enabled : \E e \in Resolved(lock) : e.module = d.module /\ e.version = d.version

\* capability_binding; the desired capabilities in a version that is provided.
CapabilitiesHold ==
  LET key(b) == <<b.capability>> IN
  /\ Ascending(lock.bound, key)
  /\ \A b \in ToSet(lock.bound) : \E e \in Resolved(lock) :
       e.module = b.module /\ e.version = b.version /\ \E p \in e.manifest.provides : p[1] = b.capability
  /\ \A p \in installation.capabilities : \E e \in Provider(lock, p[1]) : Provides(e, p[1], p[2])

\* Validation up to required_module_ids.
Validate ==
  /\ pc = "new"
  /\ IF Bound /\ ModulesHold /\ CapabilitiesHold
       THEN LET first == {d.module : d \in Enabled}
                           \cup UNION {Ids(Provider(lock, p[1])) : p \in installation.capabilities}
            IN /\ required' = first /\ pending' = first
               /\ pc' = "closure"
       ELSE pc' = "refused" /\ UNCHANGED <<required, pending>>
  /\ UNCHANGED <<installation, revision, lock>>

\* What a module drags in: the providers of what it requires, and its
\* dependencies that are not optional.
Drags(e) ==
  (UNION {Ids(Provider(lock, r[1])) : r \in e.manifest.requires})
    \cup {d.module : d \in {d \in e.manifest.depends : ~d.optional}}

\* reverse_dependency_disable, resolver_module_selection, missing_capability,
\* version_conflict
Fits(e) ==
  /\ \A r \in e.manifest.requires : \E p \in Provider(lock, r[1]) : Provides(p, r[1], r[2])
  /\ \A d \in e.manifest.depends, o \in Resolved(lock) : o.module = d.module => o.version = d.version

\* One round of the loop: the least pending module.
Close ==
  /\ pc = "closure" /\ pending # {}
  /\ LET m    == CHOOSE x \in pending : \A y \in pending : x <= y
         own  == {e \in Resolved(lock) : e.module = m}
         new  == (UNION {Drags(e) : e \in own}) \ required
     IN IF m \in Disabled \/ own = {} \/ \E e \in own : ~Fits(e)
          THEN pc' = "refused" /\ UNCHANGED <<required, pending>>
          ELSE /\ required' = required \cup new
               /\ pending' = (pending \ {m}) \cup new
               /\ UNCHANGED pc
  /\ UNCHANGED <<installation, revision, lock>>

\* The mutant lets modules pass that nothing requires.
SelectionHolds_AtLeast ==
  \A e \in Resolved(lock) : e.manifest.conflicts \cap Ids(Resolved(lock)) = {}

\* resolver_module_selection, version_conflict
SelectionHolds ==
  /\ Ids(Resolved(lock)) = required
  /\ \A e \in Resolved(lock) : e.manifest.conflicts \cap Ids(Resolved(lock)) = {}

\* The rest of the validation.
Finish ==
  /\ pc = "closure" /\ pending = {}
  /\ pc' = IF /\ SelectionHolds
              /\ \A k \in Kinds : ListHolds(lock, k, installation.custody)
              /\ \A e \in Resolved(lock) : CustodyHolds(e, installation.custody)
              /\ EndpointsHold(lock)
             THEN "accepted" ELSE "refused"
  /\ UNCHANGED <<installation, revision, lock, required, pending>>

Next == Revise \/ Resolve \/ Validate \/ Close \/ Finish

Spec == Init /\ [][Next]_vars

-----------------------------------------------------------------------------
\* A set of modules of the lock that has all that it needs.
Closed(S) ==
  /\ {d.module : d \in Enabled} \subseteq S
  /\ \A p \in installation.capabilities : Ids(Provider(lock, p[1])) \subseteq S
  /\ \A e \in Resolved(lock) : e.module \in S => Drags(e) \subseteq S

\* validate_resolver_result_semantics: an accepted lock can be installed.  It
\* answers the installation as it is; its modules are no more than the enabled
\* ones and the desired capabilities need, have all that they require, and
\* none of them is disabled, in conflict, or there twice.
SelectionSound ==
  pc = "accepted" =>
    LET M == Ids(Resolved(lock)) IN
    /\ lock.revision = revision
    /\ Closed(M) /\ \A S \in SUBSET M : Closed(S) => S = M
    /\ M \cap Disabled = {} /\ Len(lock.modules) = Cardinality(M)
    /\ \A e \in Resolved(lock) : Fits(e) /\ e.manifest.conflicts \cap M = {}

\* The bindings of an accepted lock fit together: a migration comes after its
\* parent, a route leads to one bound unit, a web module to a bound artifact,
\* and an MCP resource to the module that its capability is bound to.
BindingsSound ==
  pc = "accepted" =>
    LET L == lock.lists IN
    /\ \A i \in DOMAIN L["migrations"] : L["migrations"][i].parent # 0 =>
         \E j \in 1 .. i - 1 : /\ L["migrations"][j].module = L["migrations"][i].module
                               /\ L["migrations"][j].id = L["migrations"][i].parent
    /\ \A r \in ToSet(L["routes"]) : \E u \in ToSet(L["units"]) : u.module = r.module /\ u.id = r.unit
    /\ \A w \in ToSet(L["web"]) : \E a \in ToSet(L["artifacts"]) : a.module = w.module /\ a.sha = w.sha
    /\ \A x \in ToSet(L["mcp"]) :
         Cardinality({r \in ToSet(L["routes"]) : r.endpoint = x.endpoint /\ x.unit = r.unit
                        /\ r.module \in Ids(Provider(lock, x.id))}) = 1

\* Nothing is refused that the reference accepts: the least closed set of
\* modules, with all that their manifests declare.
NothingElseRefused ==
  pc = "refused" =>
    ~LET M == Ids(Resolved(lock)) IN
     /\ Bound /\ ModulesHold /\ CapabilitiesHold
     /\ Closed(M) /\ \A S \in SUBSET M : Closed(S) => S = M
     /\ M \cap Disabled = {}
     /\ \A e \in Resolved(lock) : /\ Fits(e) /\ e.manifest.conflicts \cap M = {}
                                 /\ CustodyHolds(e, installation.custody)
     /\ \A k \in Kinds : ListHolds(lock, k, installation.custody)
     /\ EndpointsHold(lock)
=============================================================================
