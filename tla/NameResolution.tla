------------------------------ MODULE NameResolution ------------------------------
(***************************************************************************)
(* hir-def: what a name at a place of a SystemVerilog design stands for    *)
(* (pathres.rs), over the scopes of the design (scope.rs), the units of    *)
(* all files (unit_index.rs) and the packages' exports (DesignMap), and    *)
(* the conflicts between declarations and imports that are reported        *)
(* (diagnostics.rs).                                                       *)
(***************************************************************************)
EXTENDS DesignMap, FiniteSets

CONSTANTS
  Owners,    \* the scopes: files, packages, modules, blocks ...
  Kind,      \* [Owners -> the kind of owner]
  Parent,    \* [Owners -> Owners \cup {None}]
  None

VARIABLES
  asked,      \* the reference, None before the first
  answer,     \* [found, by, scope]: its candidates, the phase and scope that had them
  conflicts   \* the declarations and imports reported, None before the first time

resVars == <<asked, answer, conflicts>>
vars    == <<mapVars, resVars>>

Nothing == [found |-> {}, by |-> "Unresolved", scope |-> None]

\* ScopeChain::from_inner and ScopeParent.
Chain[o \in Owners] == IF Parent[o] = None THEN <<o>> ELSE <<o>> \o Chain[Parent[o]]
Around(o) == {Chain[o][i] : i \in 1 .. Len(Chain[o])}
File(o)   == Chain[o][Len(Chain[o])]

\* The owners form trees, and what has a scope is declared in the scope around it.
ASSUME TreeAssumption ==
  \A o \in Owners :
    /\ Chain[o] \in Seq(Owners)
    /\ \A i \in 1 .. Len(Chain[o]) :
         Chain[Chain[o][i]] = [j \in 1 .. Len(Chain[o]) - i + 1 |-> Chain[o][i + j - 1]]
    /\ Parent[o] # None =>
         /\ Parent[o] \in Owners
         /\ o \notin Around(Parent[o])
         /\ File(o) = File(Parent[o])
ASSUME BodyAssumption ==
  /\ None \notin Owners
  /\ \A x \in Defs : x.body # None => Parent[x.body] = x.owner /\ x.owner # None
ASSUME RefAssumption ==
  \A d \in Designs : \A q \in d.refs :
    /\ q = [owner |-> q.owner, path |-> q.path, ctx |-> q.ctx, pos |-> q.pos, kind |-> q.kind]
    /\ q.owner \in Owners
    /\ Len(q.path) \in Nat
-----------------------------------------------------------------------------
(* unit_index.rs *)

Instantiable == {"module", "interface", "program"}
UnitKinds    == Instantiable \cup {"package", "checker", "covergroup"}

\* add_file_units, insert_unit: of every file, nested units too.
UnitIndex(d) == {x \in d.defs : x.kind \in UnitKinds}

TopLevel(x) == Kind[x.owner] = "file"

TopLevelModules(d, name) ==
  {x \in UnitIndex(d) : x.name = name /\ x.kind \in Instantiable /\ TopLevel(x)}

\* instantiable_ids_in: the checkers and covergroups of the module itself first.
InstanceTargets(d, owner, name) ==
  LET local == {x \in UnitIndex(d) :
                  x.name = name /\ x.kind \in {"checker", "covergroup"} /\ x.owner = owner}
  IN IF local # {} THEN local
     ELSE {x \in UnitIndex(d) :
             /\ x.name = name
             /\ (x.kind \in Instantiable \/ (x.kind \in {"checker", "covergroup"} /\ TopLevel(x)))}
-----------------------------------------------------------------------------
(* scope.rs *)

Body == {"declarator", "typedef", "label", "block"}

\* The kinds of items each builder enters in its scope.
FileScope      == Body \cup Instantiable \cup {"package", "subroutine", "config", "udp",
                                               "library", "checker", "covergroup"}
ModuleScope    == Body \cup {"port", "subroutine", "modport", "clocking", "checker", "covergroup",
                             "property", "sequence", "specify", "instance", "generate"}
GenerateScope  == Body \cup {"subroutine", "instance", "generate"}
ClockingScope  == {"signal"}
CheckerScope   == {"port", "declarator"}
CovergroupScope == {"coverpoint", "cross"}
SubroutineScope == Body \cup {"port"}

ScopeKinds(kind) ==
  IF kind = "file" THEN FileScope
  ELSE IF kind \in {"package", "module", "interface", "program"} THEN ModuleScope
  ELSE IF kind = "generate" THEN GenerateScope
  ELSE IF kind = "clocking" THEN ClockingScope
  ELSE IF kind = "checker" THEN CheckerScope
  ELSE IF kind = "covergroup" THEN CovergroupScope
  ELSE IF kind = "subroutine" THEN SubroutineScope
  ELSE Body

\* build_file_scope, build_module_scope, build_generate_block_scope: the scopes
\* that keep imports, those of subroutines and blocks are dropped.
WithImports == {"file", "package", "module", "interface", "program", "generate"}

\* insert_proc_bodies: the labels of a procedure count in the scope around it.
ProcOwners(o) ==
  IF Kind[o] \in WithImports
  THEN {b \in Owners : Parent[b] = o /\ Kind[b] = "procedural"} ELSE {}

\* scope_for; a generate block also holds its own name.
Scope(d, o) ==
  {x \in d.defs :
     \/ x.owner = o /\ x.kind \in ScopeKinds(Kind[o])
     \/ x.owner \in ProcOwners(o) /\ x.kind \in {"label", "block"}
     \/ Kind[o] = "generate" /\ x.body = o}

Imports(d, o) == {i \in d.imports : i.owner = o /\ Kind[o] \in WithImports}

\* unit_scope: the definitions of every file scope, and none of their imports.
UnitScope(d) == UNION {Scope(d, o) : o \in {f \in Owners : Kind[f] = "file"}}

\* ScopeData::lookup; a listing leaves properties and sequences out.
Lookup(scope, name, ctx) ==
  {x \in scope : /\ x.name = name
                 /\ IF ctx = "Listing" THEN Namespace(x.kind) # "Assertion"
                    ELSE Namespace(x.kind) = ctx}
-----------------------------------------------------------------------------
(* pathres.rs *)

\* before_reference: places in different files are not ordered.
Before(file, pos, q) == q.pos = None \/ file # File(q.owner) \/ pos < q.pos

\* Bug: a call, like any reference, sees only the wildcard imports ... of all places.
ImportsAt_CallsSeeAll(d, q, o, named) ==
  {i \in Imports(d, o) : /\ named = (i.item # Star)
                         /\ (q.kind = "Call" \/ Before(File(o), i.pos, q))}

\* AtFilter: a call looks for declarations and explicit imports to the end of the
\* scope; wildcard imports count only before the reference.
ImportsAt(d, q, o, named) ==
  {i \in Imports(d, o) : /\ named = (i.item # Star)
                         /\ ((named /\ q.kind = "Call") \/ Before(File(o), i.pos, q))}

\* DesignMap::resolve_import.
ResolveImport(E, i, name, ctx) ==
  IF i.item \in {Star, name} THEN PackageMember(E, i.package, name, ctx) ELSE {}

Imported(d, E, q, name, o, named) ==
  UNION {ResolveImport(E, i, name, q.ctx) : i \in ImportsAt(d, q, o, named)}

\* The declarations of a scope a reference sees.
Visible(d, q, name, o) ==
  {x \in Lookup(Scope(d, o), name, q.ctx) : q.kind = "Call" \/ Before(File(o), x.pos, q)}

\* resolve_scope_imports after the lookup in the scope itself.
InScope(d, E, q, name, o) ==
  LET lexical  == Visible(d, q, name, o)
      named    == Imported(d, E, q, name, o, TRUE)
      wildcard == Imported(d, E, q, name, o, FALSE)
  IN IF lexical # {} THEN [found |-> lexical, by |-> "Lexical", scope |-> o]
     ELSE IF named # {} THEN [found |-> named, by |-> "NamedImport", scope |-> o]
     ELSE [found |-> wildcard, by |-> "WildcardImport", scope |-> o]

\* The first of the scopes from a place outwards that has something, else last.
Innermost(from, hit, last) ==
  LET scopes == Chain[from]
      hits   == {i \in 1 .. Len(scopes) : hit[scopes[i]].found # {}}
  IN IF hits = {} THEN last
     ELSE hit[scopes[CHOOSE i \in hits : \A j \in hits : i <= j]]

InUnit(d, q, name) ==
  LET unit == Lookup(UnitScope(d), name, q.ctx)
  IN IF unit = {} THEN Nothing ELSE [found |-> unit, by |-> "Unit", scope |-> None]

\* resolve_name_at: every scope is searched completely before the next outer one.
ResolveName(d, E, q, name) ==
  Innermost(q.owner, [o \in Around(q.owner) |-> InScope(d, E, q, name, o)], InUnit(d, q, name))

\* Bug: the wildcard imports of all places are looked at.
ResolveWildcard_AnyPlace(d, E, q, name) ==
  Innermost(q.owner,
    [o \in Around(q.owner) |->
       [found |-> Imported(d, E, [q EXCEPT !.pos = None], name, o, FALSE),
        by |-> "WildcardImport", scope |-> o]],
    Nothing)

\* resolve_wildcard_at: as if nothing but wildcard imports were there.
ResolveWildcard(d, E, q, name) ==
  Innermost(q.owner,
    [o \in Around(q.owner) |->
       [found |-> Imported(d, E, q, name, o, FALSE), by |-> "WildcardImport", scope |-> o]],
    Nothing)

\* resolve_top_level_module_root: only a path may start at a module's name.
Root(d, q, name) ==
  IF Len(q.path) > 1 /\ q.ctx = "Value" THEN TopLevelModules(d, name) ELSE {}

ScopeOwners == {"module", "interface", "program", "package", "clocking", "checker",
                "covergroup", "block", "generate"}

\* descend_scope: the scope below a definition, for an instance that of its only target.
Below(d, x) ==
  IF x.kind \in ScopeOwners THEN {x.body}
  ELSE IF x.kind = "instance" THEN
    LET targets == InstanceTargets(d, x.owner, x.of)
    IN IF Unique(targets) THEN {t.body : t \in targets} ELSE {}
  ELSE {}

\* resolve_child_name.
Child(d, parent, name, ctx) ==
  AndThen(parent, UNION {UNION {Lookup(Scope(d, o), name, ctx) : o \in Below(d, x)} : x \in parent})

SegmentContext(q, i) == IF i = Len(q.path) THEN q.ctx ELSE "Value"

\* resolve_path_at.
ResolvePath(d, E, q) ==
  LET first == ResolveName(d, E, q, q.path[1])
      root  == Root(d, q, q.path[1])
      start == IF first.found = {} /\ root # {}
               THEN [found |-> root, by |-> "Root", scope |-> None] ELSE first
      f[i \in 1 .. Len(q.path)] ==
        IF i = 1 THEN start.found ELSE Child(d, f[i - 1], q.path[i], SegmentContext(q, i))
  IN [found |-> f[Len(q.path)], by |-> start.by, scope |-> start.scope]
-----------------------------------------------------------------------------
(* diagnostics.rs *)

\* What file_lowering_diagnostics walks: the bodies of a file and its modules,
\* not of modules in modules, checkers, covergroups or clocking blocks.
Walked(o) ==
  \A a \in Around(o) :
    \/ Kind[a] \in {"file", "generate", "procedural", "subroutine", "block"}
    \/ Kind[a] \in Instantiable \cup {"package"} /\ Kind[Parent[a]] = "file"

\* The scopes whose imports it checks.
Checked == {o \in Owners : Kind[o] \in WithImports /\ Walked(o)}

\* body_owner: blocks share the body around them.
BodyOwner(o) ==
  Chain[o][CHOOSE i \in 1 .. Len(Chain[o]) :
             Kind[Chain[o][i]] # "block" /\ \A j \in 1 .. i - 1 : Kind[Chain[o][j]] = "block"]

\* collect_ident_references: every identifier of an expression in the walked
\* bodies, which is looked up as a value or a call.  The name of a type is lowered
\* to a DataTy, and not collected.
Collected(q) ==
  Len(q.path) = 1 /\ q.ctx = "Value" /\ q.pos # None /\ Walked(q.owner)
References(d) == {q \in d.refs : Collected(q)}

\* collect_import_conflicts: an explicit import of what the scope declares, or
\* imports from another package; reported at the first import of the name.
ImportConflicts(d) ==
  {i \in d.imports :
     /\ i.owner \in Checked /\ i \in Imports(d, i.owner) /\ i.item # Star
     /\ \A j \in Imports(d, i.owner) : j.item = i.item => i.pos <= j.pos
     /\ \/ Unique(Lookup(Scope(d, i.owner), i.item, "Listing"))
        \/ \E j \in Imports(d, i.owner) : j.item = i.item /\ j.package # i.package}

\* How the diagnostics ask: from the body, and as for a value, whatever the use.
AsValue(r, ctx) ==
  [owner |-> BodyOwner(r.owner), path |-> r.path, ctx |-> ctx, pos |-> r.pos, kind |-> "Value"]

\* The reference makes a name of a wildcard import of the scope visible there.
Activates(d, E, r, o) ==
  \E ctx \in {"Type", "Value"} :
    LET q == AsValue(r, ctx)
        wildcard == ResolveWildcard(d, E, q, q.path[1])
    IN wildcard.scope = o /\ ResolveName(d, E, q, q.path[1]).found = wildcard.found

\* collect_wildcard_activation_conflicts: a declaration after such a reference.
ActivationConflicts(d, E) ==
  UNION {{x \in Scope(d, o) :
            /\ Namespace(x.kind) # "Assertion"
            /\ \E r \in References(d) :
                 /\ r.path[1] = x.name
                 /\ Activates(d, E, r, o)
                 /\ (File(r.owner) # File(o) \/ r.pos < x.pos)}
         : o \in {c \in Checked : \E i \in Imports(d, c) : i.item = Star}}
-----------------------------------------------------------------------------
Init ==
  /\ MapInit
  /\ asked = None /\ answer = Nothing
  /\ conflicts = None

BuildMap == MapNext /\ UNCHANGED resVars

\* A request asks what the path at a place stands for.
Resolve ==
  /\ mapped
  /\ \E q \in design.refs : asked' = q /\ answer' = ResolvePath(design, exports, q)
  /\ UNCHANGED <<mapVars, conflicts>>

\* file_lowering_diagnostics, of every file.
Diagnose ==
  /\ mapped
  /\ conflicts' = ImportConflicts(design) \cup ActivationConflicts(design, exports)
  /\ UNCHANGED <<mapVars, asked, answer>>

Next == BuildMap \/ Resolve \/ Diagnose
Spec == Init /\ [][Next]_vars
FairSpec == Spec /\ WF_vars(BuildMap)
-----------------------------------------------------------------------------
\* The design without what the reference must not depend on: what comes after it
\* in its file (for a call, of that only the wildcard imports), and the scopes
\* around the one that had the answer.
Cut(d, q, scope) ==
  LET outer == Around(scope) \ {scope}
      Early(x) == Before(File(x.owner), x.pos, q)
  IN [defs |-> {x \in d.defs : /\ (x.owner \notin outer \/ x.body = scope)
                               /\ (q.kind = "Call" \/ Early(x))},
      imports |-> {i \in d.imports : /\ i.owner \notin outer
                                     /\ ((q.kind = "Call" /\ i.item # Star) \/ Early(i))},
      reexports |-> d.reexports, refs |-> d.refs]

\* What a scope has for the name, or the first part of a path, is unaffected by
\* what is declared or imported after the reference and by every scope further
\* out; $unit alone, the last resort, takes no account of positions.  Places count
\* in every scope (resolve_name_inner, IEEE 1800-2017 26.3), and not, as NameRef says
\* of declarations and explicit imports, in the innermost one only.
IgnoresLaterAndOuter ==
  asked # None =>
    LET first == ResolveName(design, exports, asked, asked.path[1])
    IN first.scope # None =>
         ResolveName(Cut(design, asked, first.scope), exports, asked, asked.path[1]) = first

\* A reference in an expression that a wildcard import answers makes every later
\* declaration of the name in the importing scope a reported conflict: the walk that
\* answers and the walk that looks for wildcard imports alone agree on the scope
\* (collect_wildcard_activation_conflicts).  The code does not do so for the name of
\* a type, nor for a call that only an import after it answers.
ActivationsReported ==
  asked # None /\ asked \in References(design) /\ conflicts # None /\
  answer.by = "WildcardImport" /\ asked.kind = "Value" =>
    \A x \in Scope(design, answer.scope) :
      /\ x.name = asked.path[1] /\ Namespace(x.kind) # "Assertion"
      /\ (File(asked.owner) # File(answer.scope) \/ asked.pos < x.pos)
      => x \in conflicts

\* Everything a path may stand for, segment by segment, ambiguities included.
Reached(d, E, q) ==
  LET first == ResolveName(d, E, q, q.path[1]).found
      f[i \in 1 .. Len(q.path)] ==
        IF i = 1 THEN IF first = {} THEN Root(d, q, q.path[1]) ELSE first
        ELSE UNION {UNION {Lookup(Scope(d, o), q.path[i], SegmentContext(q, i)) :
                             o \in Below(d, x)} : x \in f[i - 1]}
  IN f

\* A path stands for one definition only if every part of it does: that one of
\* several modules or packages lacks the child never decides between them
\* (Resolution::and_then, "without allowing child existence to disambiguate").
UniqueMeansOnePath ==
  asked # None /\ Unique(answer.found) =>
    \A i \in 1 .. Len(asked.path) : Unique(Reached(design, exports, asked)[i])

\* Packages that pass on each other's names do not keep the loop going
\* (design_map, "without a recursion limit").
EventuallyMapped == <>mapped
==============================================================================
