-------------------------------- MODULE DesignMap --------------------------------
(***************************************************************************)
(* hir-def/src/design_map.rs: the names each SystemVerilog package exports.*)
(* A package exports its own declarations and what its export declarations *)
(* pass on from other packages, which may pass on each other's names in    *)
(* cycles: the loop visits the packages in their sorted order until a pass *)
(* changes nothing.                                                        *)
(*                                                                         *)
(* A definition is a record whose field owner is the scope it is declared  *)
(* in; the namespace of a name follows from its kind.  A Resolution        *)
(* (hir-def/src/symbol.rs) is the set of its candidates: unresolved when   *)
(* empty, unique with one, ambiguous with more.                            *)
(***************************************************************************)
EXTENDS Naturals, Sequences

CONSTANTS
  Packages,     \* the owners of the package declarations
  Order,        \* the packages in sorted order
  PackageName,  \* [Packages -> Names]; two packages may have one name
  Names,
  Star,         \* what an export or an import names instead of one item
  Defs,         \* every definition a design may hold
  Designs       \* [defs, imports, reexports, refs]: the designs looked at

ASSUME OrderAssumption ==
  /\ Order \in Seq(Packages)
  /\ \A p \in Packages : \E i \in 1 .. Len(Order) : Order[i] = p
ASSUME NameAssumption == PackageName \in [Packages -> Names]
ASSUME DesignAssumption == \A d \in Designs : d.defs \subseteq Defs

VARIABLES
  design,   \* what the files declare
  exports,  \* the export namespace of each package
  at,       \* the place of the package visited next in this pass
  changed,  \* a visit of this pass added a definition
  mapped    \* the loop is over

mapVars == <<design, exports, at, changed, mapped>>
-----------------------------------------------------------------------------
Ambiguous(resolution) == \E a, b \in resolution : a # b
Unique(resolution)    == \E a \in resolution : resolution = {a}

\* Bug: the only child found stands for an ambiguous parent.
AndThen_AnyChild(parent, children) == children

\* Resolution::and_then: that a child exists does not disambiguate its parent.
AndThen(parent, children) ==
  IF Ambiguous(parent) /\ Unique(children) THEN {} ELSE children

Namespace(kind) ==
  IF kind \in {"module", "interface", "package", "program", "checker",
               "covergroup", "typedef"} THEN "Type"
  ELSE IF kind \in {"property", "sequence"} THEN "Assertion"
  ELSE "Value"

Contexts == {"Type", "Value", "Assertion"}

\* PackageExports::lookup.
Exported(namespace, name, ctx) ==
  {x \in namespace : x.name = name /\ (ctx = "Listing" \/ Namespace(x.kind) = ctx)}

PackageKinds == {"declarator", "typedef", "subroutine", "label", "block", "checker",
                 "covergroup", "property", "sequence", "clocking"}

\* package_bindings: what a package declares itself.
PackageBindings(d, p) == {x \in d.defs : x.owner = p /\ x.kind \in PackageKinds}

\* UnitIndex::package_ids: every package of that name.
PackageIds(name) == {p \in Packages : PackageName[p] = name}

\* resolve_package_member.
PackageMember(E, package, name, ctx) ==
  AndThen(PackageIds(package), UNION {Exported(E[p], name, ctx) : p \in PackageIds(package)})

\* imported_names.
ImportedNames(E, package) == {x.name : x \in UNION {E[p] : p \in PackageIds(package)}}

\* add_reexport, of one item or of every name of the package.
Reexport(E, package, item) ==
  UNION {PackageMember(E, package, name, ctx) :
           name \in IF item = Star THEN ImportedNames(E, package) ELSE {item},
           ctx \in Contexts}

\* What the export declarations of a package pass on: export *::* stands for
\* every name of every package it imports from.
Passed(d, E, p) ==
  (UNION {Reexport(E, e.package, e.item) :
            e \in {r \in d.reexports : r.owner = p /\ r.package # Star}})
  \cup
  (IF \E r \in d.reexports : r.owner = p /\ r.package = Star
   THEN UNION {Reexport(E, i.package, Star) : i \in {j \in d.imports : j.owner = p}}
   ELSE {})

Visit(d, E, p) == E[p] \cup Passed(d, E, p)
-----------------------------------------------------------------------------
MapInit ==
  /\ design \in Designs
  /\ exports = [p \in Packages |-> PackageBindings(design, p)]
  /\ at = 1
  /\ changed = FALSE
  /\ mapped = FALSE

\* Bug: a pass that only changed a package other than the last one is not repeated.
VisitPackage_LastOnly ==
  /\ ~mapped /\ at <= Len(Order)
  /\ LET next == Visit(design, exports, Order[at]) IN
       /\ exports' = [exports EXCEPT ![Order[at]] = next]
       /\ changed' = (next # exports[Order[at]])
  /\ at' = at + 1
  /\ UNCHANGED <<design, mapped>>

\* One turn of the inner loop.
VisitPackage ==
  /\ ~mapped /\ at <= Len(Order)
  /\ LET next == Visit(design, exports, Order[at]) IN
       /\ exports' = [exports EXCEPT ![Order[at]] = next]
       /\ changed' = (changed \/ next # exports[Order[at]])
  /\ at' = at + 1
  /\ UNCHANGED <<design, mapped>>

\* Bug: the flag is not cleared for the next pass.
EndPass_KeepFlag ==
  /\ ~mapped /\ at > Len(Order)
  /\ IF changed THEN at' = 1 /\ UNCHANGED <<changed, mapped>>
                ELSE mapped' = TRUE /\ UNCHANGED <<at, changed>>
  /\ UNCHANGED <<design, exports>>

\* The end of a pass: another one unless nothing changed.
EndPass ==
  /\ ~mapped /\ at > Len(Order)
  /\ IF changed THEN at' = 1 /\ changed' = FALSE /\ UNCHANGED mapped
                ELSE mapped' = TRUE /\ UNCHANGED <<at, changed>>
  /\ UNCHANGED <<design, exports>>

MapNext == VisitPackage \/ EndPass
MapSpec == MapInit /\ [][MapNext]_mapVars
-----------------------------------------------------------------------------
\* X holds what every package declares and passes on.
Closed(d, X) ==
  \A p \in Packages : PackageBindings(d, p) \subseteq X[p] /\ Passed(d, X, p) \subseteq X[p]

Declared(d) == UNION {PackageBindings(d, p) : p \in Packages}

\* Whatever cycles the packages pass names on in, and in whatever order they are
\* visited, the map holds exactly the least closed namespaces: nothing is missing
\* when the loop stops, and no definition is exported that nothing passes on.
\* (design_map, "Each iteration can only add definitions ... converges".)
ExportsAreLeast ==
  mapped =>
    /\ Closed(design, exports)
    /\ \A p \in Packages : \A x \in exports[p] \ PackageBindings(design, p) :
         \A X \in [Packages -> SUBSET Declared(design)] : Closed(design, X) => x \in X[p]
==============================================================================
