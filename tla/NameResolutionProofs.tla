---------------------------- MODULE NameResolutionProofs ----------------------------
(***************************************************************************)
(* For every design: the package exports are the least closed ones, for    *)
(* every visiting order; the first name of a reference depends on nothing  *)
(* after it; activations are reported; and a path stands for one           *)
(* definition only if its parts do.                                        *)
(***************************************************************************)
EXTENDS NameResolution, WellFoundedInduction, TLAPS

\* That more children are found never takes a candidate away.
LEMMA AndThenGrows ==
  ASSUME NEW parent, NEW A, NEW B, A \subseteq B
  PROVE  AndThen(parent, A) \subseteq AndThen(parent, B)
<1>1. CASE Ambiguous(parent) /\ Unique(B)
  <2>1. PICK u \in B : B = {u}
    BY <1>1 DEF Unique
  <2>2. A = {} \/ A = {u}
    BY <2>1
  <2>3. AndThen(parent, A) = {}
    BY <1>1, <2>2 DEF AndThen, Unique
  <2> QED
    BY <2>3
<1>2. CASE ~(Ambiguous(parent) /\ Unique(B))
  BY <1>2 DEF AndThen
<1> QED
  BY <1>1, <1>2

Included(E, F) == \A p \in Packages : E[p] \subseteq F[p]

LEMMA MemberGrows ==
  ASSUME NEW E, NEW F, Included(E, F), NEW package, NEW name, NEW ctx
  PROVE  PackageMember(E, package, name, ctx) \subseteq PackageMember(F, package, name, ctx)
<1> DEFINE Of(G) == UNION {Exported(G[p], name, ctx) : p \in PackageIds(package)}
<1>1. Of(E) \subseteq Of(F)
  BY DEF Included, Exported, PackageIds
<1> HIDE DEF Of
<1>2. AndThen(PackageIds(package), Of(E)) \subseteq AndThen(PackageIds(package), Of(F))
  BY <1>1, AndThenGrows
<1> QED
  BY <1>2 DEF PackageMember, Of

LEMMA ReexportGrows ==
  ASSUME NEW E, NEW F, Included(E, F), NEW package, NEW item
  PROVE  Reexport(E, package, item) \subseteq Reexport(F, package, item)
<1>1. ImportedNames(E, package) \subseteq ImportedNames(F, package)
  BY DEF ImportedNames, Included, PackageIds
<1>2. SUFFICES ASSUME NEW x \in Reexport(E, package, item)
               PROVE  x \in Reexport(F, package, item)
  OBVIOUS
<1>3. PICK name \in IF item = Star THEN ImportedNames(E, package) ELSE {item},
           ctx \in Contexts : x \in PackageMember(E, package, name, ctx)
  BY <1>2 DEF Reexport
<1>4. x \in PackageMember(F, package, name, ctx)
  BY <1>3, MemberGrows
<1>5. name \in IF item = Star THEN ImportedNames(F, package) ELSE {item}
  BY <1>1, <1>3
<1> QED
  BY <1>4, <1>5 DEF Reexport

\* The step of the loop is monotone: of larger namespaces, a package passes on more.
LEMMA PassedGrows ==
  ASSUME NEW d, NEW E, NEW F, Included(E, F), NEW p
  PROVE  Passed(d, E, p) \subseteq Passed(d, F, p)
<1>1. \A package, item : Reexport(E, package, item) \subseteq Reexport(F, package, item)
  BY ReexportGrows
<1> QED
  BY <1>1 DEF Passed

\* Nothing is passed on that no package exports.
LEMMA PassedWithin ==
  ASSUME NEW d, NEW E, NEW S, \A q \in Packages : E[q] \subseteq S, NEW p
  PROVE  Passed(d, E, p) \subseteq S
<1>1. ASSUME NEW package, NEW name, NEW ctx
      PROVE  PackageMember(E, package, name, ctx) \subseteq S
  <2>1. UNION {Exported(E[q], name, ctx) : q \in PackageIds(package)} \subseteq S
    BY DEF Exported, PackageIds
  <2> QED
    BY <2>1 DEF PackageMember, AndThen
<1>2. \A package, item : Reexport(E, package, item) \subseteq S
  BY <1>1 DEF Reexport
<1> QED
  BY <1>2 DEF Passed
-----------------------------------------------------------------------------
MapTypeOK ==
  /\ design \in Designs
  /\ exports \in [Packages -> SUBSET Defs]
  /\ at \in 1 .. Len(Order) + 1
  /\ changed \in BOOLEAN
  /\ mapped \in BOOLEAN

BelowEveryClosed ==
  \A X : Closed(design, X) => Included(exports, X)

\* While a pass has changed nothing, the packages it visited have nothing to add.
VisitedAddNothing ==
  ~changed => \A i \in 1 .. at - 1 : Passed(design, exports, Order[i]) \subseteq exports[Order[i]]

MapInv ==
  /\ MapTypeOK
  /\ \A p \in Packages : PackageBindings(design, p) \subseteq exports[p]
  /\ BelowEveryClosed
  /\ VisitedAddNothing
  /\ mapped => ~changed /\ at > Len(Order)

LEMMA OrderLength == Len(Order) \in Nat
  BY OrderAssumption

LEMMA MapInvInit == MapInit => MapInv
<1> SUFFICES ASSUME MapInit PROVE MapInv
  OBVIOUS
<1>1. \A p \in Packages : PackageBindings(design, p) \subseteq Defs
  BY DesignAssumption DEF MapInit, PackageBindings
<1>2. MapTypeOK
  <2>1. at \in 1 .. Len(Order) + 1
    BY OrderLength DEF MapInit
  <2>2. exports \in [Packages -> SUBSET Defs]
    BY <1>1 DEF MapInit
  <2> QED
    BY <2>1, <2>2 DEF MapInit, MapTypeOK
<1>3. BelowEveryClosed
  BY DEF MapInit, BelowEveryClosed, Closed, Included
<1>4. VisitedAddNothing
  <2>1. 1 .. at - 1 = {}
    BY DEF MapInit
  <2> QED
    BY <2>1 DEF VisitedAddNothing
<1> QED
  BY <1>2, <1>3, <1>4 DEF MapInit, MapInv

LEMMA MapInvVisit == MapInv /\ VisitPackage => MapInv'
<1> SUFFICES ASSUME MapInv, VisitPackage PROVE MapInv'
  OBVIOUS
<1> DEFINE p == Order[at]
           next == Visit(design, exports, p)
<1>0. /\ MapTypeOK /\ at <= Len(Order) /\ at \in Nat /\ at >= 1
      /\ design' = design /\ mapped' = mapped /\ ~mapped
      /\ at' = at + 1
      /\ exports' = [exports EXCEPT ![p] = next]
      /\ changed' = (changed \/ next # exports[p])
  BY OrderLength DEF MapInv, VisitPackage, MapTypeOK
<1>1. p \in Packages
  BY <1>0, OrderAssumption
<1>2. next = exports[p] \cup Passed(design, exports, p)
  BY DEF Visit
<1>3. next \subseteq Defs
  <2>1. \A q \in Packages : exports[q] \subseteq Defs
    BY <1>0 DEF MapTypeOK
  <2>2. Passed(design, exports, p) \subseteq Defs
    BY <2>1, PassedWithin
  <2> QED
    BY <1>1, <1>2, <2>1, <2>2
<1> HIDE DEF p, next
<1>4. MapTypeOK'
  <2>1. exports' \in [Packages -> SUBSET Defs]
    BY <1>0, <1>1, <1>3 DEF MapTypeOK
  <2>2. at' \in 1 .. Len(Order) + 1
    BY <1>0, OrderLength
  <2>3. changed' \in BOOLEAN
    BY <1>0 DEF MapTypeOK
  <2>4. design' \in Designs /\ mapped' \in BOOLEAN
    BY <1>0 DEF MapTypeOK
  <2> QED
    BY <2>1, <2>2, <2>3, <2>4 DEF MapTypeOK
<1>5. \A q \in Packages : exports'[q] = IF q = p THEN next ELSE exports[q]
  BY <1>0 DEF MapTypeOK
<1>6. (\A q \in Packages : PackageBindings(design, q) \subseteq exports[q])'
  BY <1>0, <1>2, <1>5 DEF MapInv
<1>7. BelowEveryClosed'
  <2> SUFFICES ASSUME NEW X, Closed(design, X)
               PROVE  \A q \in Packages : exports'[q] \subseteq X[q]
    BY <1>0 DEF BelowEveryClosed, Included
  <2>1. Included(exports, X)
    BY DEF MapInv, BelowEveryClosed
  <2>2. Passed(design, exports, p) \subseteq Passed(design, X, p)
    BY <2>1, PassedGrows
  <2>3. Passed(design, X, p) \subseteq X[p] /\ exports[p] \subseteq X[p]
    BY <1>1, <2>1 DEF Closed, Included
  <2> QED
    BY <1>2, <1>5, <2>1, <2>2, <2>3 DEF Included
<1>8. VisitedAddNothing'
  <2>1. SUFFICES ASSUME ~changed'
                 PROVE  \A i \in 1 .. at : Passed(design, exports', Order[i]) \subseteq exports'[Order[i]]
    <3>1. at' - 1 = at
      BY <1>0
    <3> QED
      BY <1>0, <3>1 DEF VisitedAddNothing
  <2>2. ~changed /\ next = exports[p]
    BY <1>0, <2>1
  <2>3. exports' = exports
    BY <1>0, <1>1, <2>2 DEF MapTypeOK
  <2>4. Passed(design, exports, p) \subseteq exports[p]
    BY <1>2, <2>2
  <2>5. \A i \in 1 .. at - 1 : Passed(design, exports, Order[i]) \subseteq exports[Order[i]]
    BY <2>2 DEF MapInv, VisitedAddNothing
  <2>6. \A i \in 1 .. at : i \in 1 .. at - 1 \/ i = at
    BY <1>0
  <2>7. Passed(design, exports, Order[at]) \subseteq exports[Order[at]]
    BY <2>4 DEF p
  <2> QED
    BY <2>3, <2>5, <2>6, <2>7
<1> QED
  BY <1>0, <1>4, <1>6, <1>7, <1>8 DEF MapInv

LEMMA MapInvEndPass == MapInv /\ EndPass => MapInv'
<1> SUFFICES ASSUME MapInv, EndPass PROVE MapInv'
  OBVIOUS
<1>1. design' = design /\ exports' = exports
  BY DEF EndPass
<1>2. /\ (\A p \in Packages : PackageBindings(design, p) \subseteq exports[p])'
      /\ BelowEveryClosed'
  BY <1>1 DEF MapInv, BelowEveryClosed
<1>3. CASE changed
  <2>1. at' = 1 /\ changed' = FALSE /\ mapped' = mapped /\ ~mapped
    BY <1>3 DEF EndPass
  <2>2. MapTypeOK'
    <3>1. at' \in 1 .. Len(Order) + 1
      BY <2>1, OrderLength
    <3> QED
      BY <1>1, <2>1, <3>1 DEF MapInv, MapTypeOK
  <2>3. VisitedAddNothing'
    <3>1. 1 .. at' - 1 = {}
      BY <2>1
    <3> QED
      BY <3>1 DEF VisitedAddNothing
  <2> QED
    BY <1>2, <2>1, <2>2, <2>3 DEF MapInv
<1>4. CASE ~changed
  <2>1. mapped' = TRUE /\ at' = at /\ changed' = changed /\ at > Len(Order)
    BY <1>4 DEF EndPass
  <2>2. MapTypeOK'
    BY <1>1, <2>1 DEF MapInv, MapTypeOK
  <2>3. VisitedAddNothing'
    BY <1>1, <2>1 DEF MapInv, VisitedAddNothing
  <2> QED
    BY <1>2, <1>4, <2>1, <2>2, <2>3 DEF MapInv
<1> QED
  BY <1>3, <1>4

LEMMA MapInvStutter == MapInv /\ UNCHANGED mapVars => MapInv'
<1> SUFFICES ASSUME MapInv, UNCHANGED mapVars PROVE MapInv'
  OBVIOUS
<1>1. /\ design' = design /\ exports' = exports /\ at' = at
      /\ changed' = changed /\ mapped' = mapped
  BY DEF mapVars
<1> QED
  BY <1>1 DEF MapInv, MapTypeOK, BelowEveryClosed, VisitedAddNothing

LEMMA MapInvMeans == MapInv => ExportsAreLeast
<1> SUFFICES ASSUME MapInv, mapped PROVE ExportsAreLeast
  BY DEF ExportsAreLeast
<1>1. ~changed /\ at > Len(Order) /\ at \in Nat
  BY OrderLength DEF MapInv, MapTypeOK
<1>2. Closed(design, exports)
  <2>1. SUFFICES ASSUME NEW p \in Packages
                 PROVE  Passed(design, exports, p) \subseteq exports[p]
    BY DEF Closed, MapInv
  <2>2. PICK i \in 1 .. Len(Order) : Order[i] = p
    BY OrderAssumption
  <2>3. i \in 1 .. at - 1
    BY <1>1, OrderLength
  <2>4. Passed(design, exports, Order[i]) \subseteq exports[Order[i]]
    BY <1>1, <2>3 DEF MapInv, VisitedAddNothing
  <2> QED
    BY <2>2, <2>4
<1>3. ASSUME NEW p \in Packages, NEW x \in exports[p],
             NEW X \in [Packages -> SUBSET Declared(design)], Closed(design, X)
      PROVE  x \in X[p]
  BY <1>3 DEF MapInv, BelowEveryClosed, Included
<1> QED
  BY <1>2, <1>3 DEF ExportsAreLeast

\* The loop of design_map leaves every package with exactly what it declares and
\* what the export declarations pass on to it, over any cycle of packages.
THEOREM ExportsAreLeastHolds == Spec => []ExportsAreLeast
<1>1. Init => MapInv
  BY MapInvInit DEF Init
<1>2. MapInv /\ [Next]_vars => MapInv'
  <2>1. ASSUME MapInv, BuildMap PROVE MapInv'
    BY <2>1, MapInvVisit, MapInvEndPass DEF BuildMap, MapNext
  <2>2. ASSUME MapInv, Resolve \/ Diagnose \/ UNCHANGED vars PROVE MapInv'
    <3>1. UNCHANGED mapVars
      BY <2>2 DEF Resolve, Diagnose, vars
    <3> QED
      BY <2>2, <3>1, MapInvStutter
  <2> QED
    BY <2>1, <2>2 DEF Next
<1> QED
  BY <1>1, <1>2, MapInvMeans, PTL DEF Spec
-----------------------------------------------------------------------------
\* A set of positions has a first one.
LEMMA FirstOf ==
  ASSUME NEW T, T \subseteq Nat, T # {}
  PROVE  \E i \in T : \A j \in T : i <= j
<1>1. PICK m \in T : \A k \in T : <<k, m>> \notin OpToRel(<, Nat)
  BY WFMin, NatLessThanWellFounded, Zenon
<1>2. \A k \in T : ~(k < m)
  BY <1>1, Zenon DEF OpToRel
<1> QED
  BY <1>2

\* Where the walk through the scopes ends.
IsFirst(from, hit, k) ==
  /\ k \in 1 .. Len(Chain[from])
  /\ hit[Chain[from][k]].found # {}
  /\ \A j \in 1 .. Len(Chain[from]) : j < k => hit[Chain[from][j]].found = {}

LEMMA InnermostIs ==
  ASSUME NEW from \in Owners, NEW hit, NEW last, NEW k, IsFirst(from, hit, k)
  PROVE  Innermost(from, hit, last) = hit[Chain[from][k]]
<1> DEFINE hits == {i \in 1 .. Len(Chain[from]) : hit[Chain[from][i]].found # {}}
<1>1. Len(Chain[from]) \in Nat
  BY TreeAssumption
<1>2. k \in hits
  BY DEF IsFirst
<1>3. \A i \in hits : k <= i
  BY <1>1 DEF IsFirst
<1>4. \A i \in hits : (\A j \in hits : i <= j) => i = k
  BY <1>1, <1>2, <1>3
<1> HIDE DEF hits
<1>5. (CHOOSE i \in hits : \A j \in hits : i <= j) = k
  BY <1>2, <1>3, <1>4
<1> USE DEF hits
<1> QED
  BY <1>2, <1>5 DEF Innermost

LEMMA InnermostHas ==
  ASSUME NEW from \in Owners, NEW hit, NEW last, Innermost(from, hit, last) # last
  PROVE  \E k : IsFirst(from, hit, k)
<1> DEFINE hits == {i \in 1 .. Len(Chain[from]) : hit[Chain[from][i]].found # {}}
<1>1. Len(Chain[from]) \in Nat
  BY TreeAssumption
<1>2. hits # {}
  BY DEF Innermost
<1>3. hits \subseteq Nat
  BY <1>1
<1>4. PICK k \in hits : \A j \in hits : k <= j
  <2> HIDE DEF hits
  <2> QED
    BY <1>2, <1>3, FirstOf
<1> QED
  BY <1>1, <1>4 DEF IsFirst
-----------------------------------------------------------------------------
\* Cutting a design takes candidates away from a scope, it never adds one.
LEMMA CutShrinks ==
  ASSUME NEW d, NEW E, NEW q, NEW name, NEW scope, NEW o,
         InScope(d, E, q, name, o).found = {}
  PROVE  InScope(Cut(d, q, scope), E, q, name, o).found = {}
<1> DEFINE c == Cut(d, q, scope)
<1>1. /\ Visible(d, q, name, o) = {}
      /\ Imported(d, E, q, name, o, TRUE) = {}
      /\ Imported(d, E, q, name, o, FALSE) = {}
  BY DEF InScope
<1>2. c.defs \subseteq d.defs /\ c.imports \subseteq d.imports
  BY DEF Cut
<1> HIDE DEF c
<1>3. Visible(c, q, name, o) \subseteq Visible(d, q, name, o)
  BY <1>2 DEF Visible, Lookup, Scope
<1>4. ASSUME NEW named
      PROVE  Imported(c, E, q, name, o, named) \subseteq Imported(d, E, q, name, o, named)
  <2>1. ImportsAt(c, q, o, named) \subseteq ImportsAt(d, q, o, named)
    BY <1>2 DEF ImportsAt, Imports
  <2> QED
    BY <2>1 DEF Imported
<1>5. /\ Visible(c, q, name, o) = {}
      /\ Imported(c, E, q, name, o, TRUE) = {}
      /\ Imported(c, E, q, name, o, FALSE) = {}
  BY <1>1, <1>3, <1>4
<1>6. InScope(c, E, q, name, o).found = {}
  BY <1>5 DEF InScope
<1> QED
  BY <1>6 DEF c

\* The scope that answers loses nothing it had for the reference.
LEMMA CutKeeps ==
  ASSUME NEW d \in Designs, NEW E, NEW q, NEW name, NEW scope \in Owners
  PROVE  InScope(Cut(d, q, scope), E, q, name, scope) = InScope(d, E, q, name, scope)
<1> DEFINE c     == Cut(d, q, scope)
           outer == Around(scope) \ {scope}
<1>1. c.defs = {x \in d.defs : /\ (x.owner \notin outer \/ x.body = scope)
                               /\ (q.kind = "Call" \/ Before(File(x.owner), x.pos, q))}
  BY DEF Cut
<1>2. c.imports = {i \in d.imports : /\ i.owner \notin outer
                                     /\ \/ q.kind = "Call" /\ i.item # Star
                                        \/ Before(File(i.owner), i.pos, q)}
  BY DEF Cut
<1> HIDE DEF c
<1>3. ASSUME NEW x \in Scope(d, scope) PROVE File(x.owner) = File(scope)
  <2>1. CASE x.owner = scope
    BY <2>1
  <2>2. CASE x.owner \in ProcOwners(scope)
    <3>1. x.owner \in Owners /\ Parent[x.owner] = scope
      BY <2>2 DEF ProcOwners
    <3>2. Parent[x.owner] # None
      BY <3>1, BodyAssumption
    <3> QED
      BY <3>1, <3>2, TreeAssumption
  <2>3. CASE x.body = scope
    <3>1. x \in Defs
      BY DesignAssumption DEF Scope
    <3>2. x.body # None
      BY <2>3, BodyAssumption
    <3>3. Parent[scope] = x.owner /\ Parent[scope] # None
      BY <2>3, <3>1, <3>2, BodyAssumption
    <3> QED
      BY <3>3, TreeAssumption
  <2> QED
    BY <2>1, <2>2, <2>3 DEF Scope
<1>4. ASSUME NEW x \in Scope(d, scope) PROVE x.owner \notin outer \/ x.body = scope
  <2>1. CASE x.owner \in ProcOwners(scope)
    <3>1. x.owner \in Owners /\ Parent[x.owner] = scope
      BY <2>1 DEF ProcOwners
    <3>2. Parent[x.owner] # None
      BY <3>1, BodyAssumption
    <3>3. x.owner \notin Around(scope)
      BY <3>1, <3>2, TreeAssumption
    <3> QED
      BY <3>3
  <2> QED
    BY <2>1 DEF Scope
<1>5. Visible(c, q, name, scope) = Visible(d, q, name, scope)
  <2>1. ASSUME NEW x PROVE x \in Visible(c, q, name, scope) => x \in Visible(d, q, name, scope)
    BY <1>1 DEF Visible, Lookup, Scope
  <2>2. ASSUME NEW x, x \in Visible(d, q, name, scope)
        PROVE  x \in Visible(c, q, name, scope)
    <3>1. x \in Scope(d, scope) /\ x \in d.defs
      BY <2>2 DEF Visible, Lookup, Scope
    <3>2. q.kind = "Call" \/ Before(File(x.owner), x.pos, q)
      <4>1. q.kind = "Call" \/ Before(File(scope), x.pos, q)
        BY <2>2 DEF Visible
      <4> QED
        BY <3>1, <4>1, <1>3
    <3>3. x \in c.defs
      BY <1>1, <1>4, <3>1, <3>2
    <3>4. x \in Scope(c, scope)
      BY <3>1, <3>3 DEF Scope
    <3> QED
      BY <2>2, <3>4 DEF Visible, Lookup
  <2> QED
    BY <2>1, <2>2
<1>6. ASSUME NEW named \in BOOLEAN
      PROVE  Imported(c, E, q, name, scope, named) = Imported(d, E, q, name, scope, named)
  <2>1. ASSUME NEW i, i \in ImportsAt(d, q, scope, named) PROVE i \in ImportsAt(c, q, scope, named)
    <3>1. /\ i \in d.imports /\ i.owner = scope /\ named = (i.item # Star)
          /\ (named /\ q.kind = "Call") \/ Before(File(scope), i.pos, q)
      BY <2>1 DEF ImportsAt, Imports
    <3>2. i \in c.imports
      BY <1>2, <3>1
    <3> QED
      BY <2>1, <3>2 DEF ImportsAt, Imports
  <2>2. ASSUME NEW i, i \in ImportsAt(c, q, scope, named) PROVE i \in ImportsAt(d, q, scope, named)
    BY <2>2, <1>2 DEF ImportsAt, Imports
  <2>3. ImportsAt(c, q, scope, named) = ImportsAt(d, q, scope, named)
    BY <2>1, <2>2
  <2> QED
    BY <2>3 DEF Imported
<1>7. InScope(c, E, q, name, scope) = InScope(d, E, q, name, scope)
  BY <1>5, <1>6 DEF InScope
<1> QED
  BY <1>7 DEF c

LEMMA CutAnswers ==
  ASSUME NEW d \in Designs, NEW E, NEW q, NEW name, q.owner \in Owners,
         ResolveName(d, E, q, name).scope # None
  PROVE  ResolveName(Cut(d, q, ResolveName(d, E, q, name).scope), E, q, name)
           = ResolveName(d, E, q, name)
<1> DEFINE hit == [o \in Around(q.owner) |-> InScope(d, E, q, name, o)]
           unit == InUnit(d, q, name)
<1>1. unit.scope = None
  BY DEF InUnit, Nothing
<1>2. ResolveName(d, E, q, name) = Innermost(q.owner, hit, unit)
  BY DEF ResolveName
<1>3. PICK k : IsFirst(q.owner, hit, k)
  <2> HIDE DEF hit, unit
  <2> QED
    BY <1>1, <1>2, InnermostHas
<1> DEFINE scope == Chain[q.owner][k]
           c     == Cut(d, q, scope)
           less  == [o \in Around(q.owner) |-> InScope(c, E, q, name, o)]
<1>4. Chain[q.owner] \in Seq(Owners) /\ k \in 1 .. Len(Chain[q.owner])
  BY <1>3, TreeAssumption DEF IsFirst
<1>5. \A j \in 1 .. Len(Chain[q.owner]) : Chain[q.owner][j] \in Around(q.owner)
  BY DEF Around
<1>6. scope \in Owners /\ scope \in Around(q.owner)
  BY <1>4, <1>5
<1>7. ResolveName(d, E, q, name) = InScope(d, E, q, name, scope)
  <2>1. ResolveName(d, E, q, name) = hit[scope]
    <3> HIDE DEF hit, unit
    <3> QED
      BY <1>2, <1>3, InnermostIs
  <2> QED
    BY <2>1, <1>6
<1>8. InScope(d, E, q, name, scope).scope = scope
  BY DEF InScope
<1>9. InScope(c, E, q, name, scope) = InScope(d, E, q, name, scope)
  BY <1>6, CutKeeps
<1>10. IsFirst(q.owner, less, k)
  <2>1. InScope(d, E, q, name, scope).found # {}
    BY <1>3, <1>6 DEF IsFirst
  <2>2. less[scope].found # {}
    <3> HIDE DEF c
    <3> QED
      BY <1>6, <1>9, <2>1
  <2>3. ASSUME NEW j \in 1 .. Len(Chain[q.owner]), j < k
        PROVE  less[Chain[q.owner][j]].found = {}
    <3>1. InScope(d, E, q, name, Chain[q.owner][j]).found = {}
      BY <1>3, <1>5, <2>3 DEF IsFirst
    <3>2. InScope(c, E, q, name, Chain[q.owner][j]).found = {}
      BY <3>1, CutShrinks
    <3> QED
      BY <1>5, <3>2
  <2> QED
    BY <1>4, <2>2, <2>3 DEF IsFirst
<1>11. ResolveName(c, E, q, name) = InScope(c, E, q, name, scope)
  <2>1. ResolveName(c, E, q, name) = Innermost(q.owner, less, InUnit(c, q, name))
    BY DEF ResolveName
  <2>2. ResolveName(c, E, q, name) = less[scope]
    <3> HIDE DEF less
    <3> QED
      BY <1>10, <2>1, InnermostIs
  <2> QED
    BY <1>6, <2>2
<1> QED
  BY <1>7, <1>8, <1>9, <1>11

Asked == design \in Designs /\ (asked # None => asked \in design.refs)

\* In every design whose owners form trees, the scope that answers a reference is
\* blind to what comes later and to what lies further out.
THEOREM IgnoresLaterAndOuterHolds == Spec => []IgnoresLaterAndOuter
<1>1. Init => Asked
  BY DEF Init, MapInit, Asked
<1>2. Asked /\ [Next]_vars => Asked'
  BY DEF Asked, Next, BuildMap, MapNext, VisitPackage, EndPass, Resolve, Diagnose, vars, mapVars, resVars
<1>3. Asked => IgnoresLaterAndOuter
  <2> SUFFICES ASSUME Asked, asked # None,
                      ResolveName(design, exports, asked, asked.path[1]).scope # None
               PROVE  ResolveName(Cut(design, asked, ResolveName(design, exports, asked, asked.path[1]).scope),
                                  exports, asked, asked.path[1])
                        = ResolveName(design, exports, asked, asked.path[1])
    BY DEF IgnoresLaterAndOuter
  <2>1. design \in Designs /\ asked.owner \in Owners
    BY RefAssumption DEF Asked
  <2> QED
    BY <2>1, CutAnswers
<1> QED
  BY <1>1, <1>2, <1>3, PTL DEF Spec
-----------------------------------------------------------------------------
\* The scopes around a scope of a chain are the rest of that chain.
LEMMA Suffix ==
  ASSUME NEW o \in Owners, NEW i \in 1 .. Len(Chain[o])
  PROVE  /\ Chain[o][i] \in Owners
         /\ Len(Chain[Chain[o][i]]) = Len(Chain[o]) - i + 1
         /\ \A j \in 1 .. Len(Chain[o]) - i + 1 : Chain[Chain[o][i]][j] = Chain[o][i + j - 1]
         /\ File(Chain[o][i]) = File(o)
         /\ Around(Chain[o][i]) \subseteq Around(o)
<1> DEFINE s == Chain[o][i]
           n == Len(Chain[o])
<1>1. n \in Nat /\ i \in 1 .. n /\ s \in Owners /\ Chain[s] \in Seq(Owners)
  BY TreeAssumption
<1>2. Chain[s] = [j \in 1 .. n - i + 1 |-> Chain[o][i + j - 1]]
  BY TreeAssumption
<1> HIDE DEF s, n
<1>3. Len(Chain[s]) = n - i + 1
  <2>1. DOMAIN Chain[s] = 1 .. n - i + 1
    BY <1>2
  <2>2. n - i + 1 \in Nat
    BY <1>1
  <2> QED
    BY <1>1, <2>1, <2>2
<1>4. \A j \in 1 .. n - i + 1 : Chain[s][j] = Chain[o][i + j - 1]
  BY <1>2
<1>5. File(s) = File(o)
  <2>1. n - i + 1 \in 1 .. n - i + 1 /\ i + (n - i + 1) - 1 = n
    BY <1>1
  <2>2. Chain[s][n - i + 1] = Chain[o][n]
    BY <1>4, <2>1
  <2> QED
    BY <1>3, <2>2 DEF File, n
<1>6. Around(s) \subseteq Around(o)
  <2>1. ASSUME NEW j \in 1 .. n - i + 1 PROVE Chain[s][j] \in Around(o)
    <3>1. i + j - 1 \in 1 .. n
      BY <1>1
    <3> QED
      BY <1>4, <3>1 DEF Around, n
  <2> QED
    BY <1>3, <2>1 DEF Around
<1> QED
  BY <1>1, <1>3, <1>4, <1>5, <1>6 DEF s, n

AnswersAt(d, E, q, name, k) ==
  LET scope == Chain[q.owner][k] IN
    /\ k \in 1 .. Len(Chain[q.owner])
    /\ IsFirst(q.owner, [o \in Around(q.owner) |-> InScope(d, E, q, name, o)], k)
    /\ scope \in Around(q.owner) /\ scope \in Owners
    /\ ResolveName(d, E, q, name) = InScope(d, E, q, name, scope)
    /\ InScope(d, E, q, name, scope).found = Imported(d, E, q, name, scope, FALSE)
    /\ Imported(d, E, q, name, scope, FALSE) # {}
    /\ Kind[scope] \in WithImports
    /\ \E i \in Imports(d, scope) : i.item = Star

\* A wildcard import answers where the walk first finds anything.
LEMMA WildcardAnswer ==
  ASSUME NEW d, NEW E, NEW q, NEW name, q.owner \in Owners,
         ResolveName(d, E, q, name).by = "WildcardImport"
  PROVE  \E k : AnswersAt(d, E, q, name, k)
<1> DEFINE hit  == [o \in Around(q.owner) |-> InScope(d, E, q, name, o)]
           unit == InUnit(d, q, name)
<1>1. unit.by # "WildcardImport"
  BY DEF InUnit, Nothing
<1>2. ResolveName(d, E, q, name) = Innermost(q.owner, hit, unit)
  BY DEF ResolveName
<1>3. PICK k : IsFirst(q.owner, hit, k)
  <2> HIDE DEF hit, unit
  <2> QED
    BY <1>1, <1>2, InnermostHas
<1> DEFINE scope == Chain[q.owner][k]
<1>4. k \in 1 .. Len(Chain[q.owner]) /\ scope \in Around(q.owner) /\ scope \in Owners
  BY <1>3, TreeAssumption DEF IsFirst, Around
<1>5. ResolveName(d, E, q, name) = InScope(d, E, q, name, scope)
  <2>1. ResolveName(d, E, q, name) = hit[scope]
    <3> HIDE DEF hit, unit
    <3> QED
      BY <1>2, <1>3, InnermostIs
  <2> QED
    BY <2>1, <1>4
<1>6. InScope(d, E, q, name, scope).found = Imported(d, E, q, name, scope, FALSE)
  <2> HIDE DEF scope
  <2>1. InScope(d, E, q, name, scope).by = "WildcardImport"
    BY <1>5
  <2>2. Visible(d, q, name, scope) = {} /\ Imported(d, E, q, name, scope, TRUE) = {}
    BY <2>1 DEF InScope
  <2> QED
    BY <2>2 DEF InScope
<1>7. Imported(d, E, q, name, scope, FALSE) # {}
  BY <1>3, <1>4, <1>6 DEF IsFirst
<1>8. PICK i \in ImportsAt(d, q, scope, FALSE) : TRUE
  BY <1>7 DEF Imported
<1>9. i \in Imports(d, scope) /\ i.item = Star /\ Kind[scope] \in WithImports
  BY <1>8 DEF ImportsAt, Imports
<1>10. IsFirst(q.owner, [o \in Around(q.owner) |-> InScope(d, E, q, name, o)], k)
  BY <1>3
<1> HIDE DEF hit, unit
<1>11. AnswersAt(d, E, q, name, k)
  BY <1>4, <1>5, <1>6, <1>7, <1>9, <1>10 DEF AnswersAt
<1> QED
  BY <1>11

\* Both walks of the scopes stop at the same wildcard import.
LEMMA WalksAgree ==
  ASSUME NEW d, NEW E, NEW q, NEW name, q.owner \in Owners, Walked(q.owner),
         ResolveName(d, E, q, name).by = "WildcardImport"
  PROVE  /\ ResolveWildcard(d, E, q, name).scope = ResolveName(d, E, q, name).scope
         /\ ResolveWildcard(d, E, q, name).found = ResolveName(d, E, q, name).found
         /\ ResolveName(d, E, q, name).scope
              \in {c \in Checked : \E i \in Imports(d, c) : i.item = Star}
<1> DEFINE hit  == [o \in Around(q.owner) |-> InScope(d, E, q, name, o)]
           wild == [o \in Around(q.owner) |->
                      [found |-> Imported(d, E, q, name, o, FALSE), by |-> "WildcardImport", scope |-> o]]
<1>0. PICK k : AnswersAt(d, E, q, name, k)
  BY WildcardAnswer
<1>1. /\ k \in 1 .. Len(Chain[q.owner])
      /\ IsFirst(q.owner, hit, k)
      /\ Chain[q.owner][k] \in Around(q.owner) /\ Chain[q.owner][k] \in Owners
      /\ ResolveName(d, E, q, name) = InScope(d, E, q, name, Chain[q.owner][k])
      /\ InScope(d, E, q, name, Chain[q.owner][k]).found
           = Imported(d, E, q, name, Chain[q.owner][k], FALSE)
      /\ Imported(d, E, q, name, Chain[q.owner][k], FALSE) # {}
      /\ Kind[Chain[q.owner][k]] \in WithImports
      /\ \E i \in Imports(d, Chain[q.owner][k]) : i.item = Star
  BY <1>0 DEF AnswersAt
<1> DEFINE scope == Chain[q.owner][k]
<1>2. \A j \in 1 .. Len(Chain[q.owner]) : Chain[q.owner][j] \in Around(q.owner)
  BY DEF Around
<1>3. IsFirst(q.owner, wild, k)
  <2>1. wild[scope].found # {}
    BY <1>1
  <2>2. ASSUME NEW j \in 1 .. Len(Chain[q.owner]), j < k
        PROVE  wild[Chain[q.owner][j]].found = {}
    <3>1. InScope(d, E, q, name, Chain[q.owner][j]).found = {}
      BY <1>1, <1>2, <2>2 DEF IsFirst
    <3>2. Imported(d, E, q, name, Chain[q.owner][j], FALSE) = {}
      BY <3>1 DEF InScope
    <3> QED
      BY <1>2, <3>2
  <2> QED
    BY <1>1, <2>1, <2>2 DEF IsFirst
<1>4. ResolveWildcard(d, E, q, name) = wild[scope]
  <2>1. ResolveWildcard(d, E, q, name) = Innermost(q.owner, wild, Nothing)
    BY DEF ResolveWildcard
  <2> HIDE DEF wild
  <2> QED
    BY <1>3, <2>1, InnermostIs
<1>5. ResolveWildcard(d, E, q, name)
        = [found |-> Imported(d, E, q, name, scope, FALSE), by |-> "WildcardImport", scope |-> scope]
  BY <1>1, <1>4
<1>6. scope \in {c \in Checked : \E i \in Imports(d, c) : i.item = Star}
  <2>1. Around(scope) \subseteq Around(q.owner)
    BY <1>1, Suffix
  <2>2. Walked(scope)
    BY <2>1 DEF Walked
  <2>3. scope \in Owners /\ Kind[scope] \in WithImports /\ \E i \in Imports(d, scope) : i.item = Star
    BY <1>1
  <2> QED
    BY <2>2, <2>3 DEF Checked
<1>7. InScope(d, E, q, name, scope).scope = scope
  BY DEF InScope
<1>8. /\ ResolveName(d, E, q, name) = InScope(d, E, q, name, scope)
      /\ InScope(d, E, q, name, scope).found = Imported(d, E, q, name, scope, FALSE)
  BY <1>1
<1> HIDE DEF scope
<1> QED
  BY <1>5, <1>6, <1>7, <1>8

AskedFromBody(q, r) ==
  r.owner = BodyOwner(q.owner) /\ r.ctx = q.ctx /\ r.pos = q.pos /\ r.kind = q.kind

\* Asked from the body instead of the block within it, a wildcard import gives
\* the same answer: no block holds imports.
LEMMA FromBody ==
  ASSUME NEW d, NEW E, NEW q, NEW r, NEW name, q.owner \in Owners,
         AskedFromBody(q, r), ResolveName(d, E, q, name).by = "WildcardImport"
  PROVE  /\ r.owner \in Owners
         /\ Around(r.owner) \subseteq Around(q.owner)
         /\ ResolveName(d, E, r, name) = ResolveName(d, E, q, name)
<1> DEFINE chain == Chain[q.owner]
           hit   == [o \in Around(q.owner) |-> InScope(d, E, q, name, o)]
           near  == [o \in Around(r.owner) |-> InScope(d, E, r, name, o)]
           Bodies == {i \in 1 .. Len(chain) : Kind[chain[i]] # "block"}
<1>1. Len(chain) \in Nat
  BY TreeAssumption
<1>0. PICK k : AnswersAt(d, E, q, name, k)
  BY WildcardAnswer
<1>2. /\ k \in 1 .. Len(chain)
      /\ IsFirst(q.owner, hit, k)
      /\ ResolveName(d, E, q, name) = InScope(d, E, q, name, chain[k])
      /\ Kind[chain[k]] \in WithImports
  BY <1>0 DEF AnswersAt
<1>3. k \in Bodies
  BY <1>2 DEF WithImports
<1>4. PICK j \in Bodies : \A i \in Bodies : j <= i
  <2>1. Bodies \subseteq Nat /\ Bodies # {}
    BY <1>1, <1>3
  <2> HIDE DEF Bodies
  <2> QED
    BY <2>1, FirstOf
<1>5. j \in 1 .. Len(chain) /\ j <= k
  BY <1>3, <1>4
<1>6. r.owner = chain[j]
  <2> DEFINE Least(i) == Kind[chain[i]] # "block" /\ \A h \in 1 .. i - 1 : Kind[chain[h]] = "block"
  <2>1. Least(j)
    <3>1. ASSUME NEW h \in 1 .. j - 1, Kind[chain[h]] # "block" PROVE FALSE
      <4>1. h \in 1 .. Len(chain)
        BY <1>1, <1>5
      <4>2. h \in Bodies
        BY <3>1, <4>1
      <4>3. j <= h
        BY <1>4, <4>2
      <4> QED
        BY <1>1, <1>5, <4>1, <4>3
    <3> QED
      BY <1>4, <3>1
  <2>2. ASSUME NEW i \in 1 .. Len(chain), Least(i) PROVE i = j
    <3>1. j <= i
      BY <1>4, <2>2
    <3>2. ~(j < i)
      <4>1. j < i => j \in 1 .. i - 1
        BY <1>1, <1>5
      <4> QED
        BY <4>1, <2>1, <2>2
    <3> QED
      BY <1>1, <1>5, <3>1, <3>2
  <2>3. (CHOOSE i \in 1 .. Len(chain) : Least(i)) = j
    <3> HIDE DEF Least
    <3> QED
      BY <1>5, <2>1, <2>2
  <2> QED
    BY <2>3 DEF BodyOwner, AskedFromBody
<1>7. /\ r.owner \in Owners
      /\ Len(Chain[r.owner]) = Len(chain) - j + 1
      /\ \A i \in 1 .. Len(chain) - j + 1 : Chain[r.owner][i] = chain[j + i - 1]
      /\ File(r.owner) = File(q.owner)
      /\ Around(r.owner) \subseteq Around(q.owner)
  BY <1>5, <1>6, Suffix
<1> HIDE DEF Bodies
<1>8. ASSUME NEW o PROVE InScope(d, E, r, name, o) = InScope(d, E, q, name, o)
  <2>1. \A file, pos : Before(file, pos, r) = Before(file, pos, q)
    BY <1>7 DEF Before, AskedFromBody
  <2>2. Visible(d, r, name, o) = Visible(d, q, name, o)
    BY <2>1 DEF Visible, AskedFromBody
  <2>3. ASSUME NEW named PROVE Imported(d, E, r, name, o, named) = Imported(d, E, q, name, o, named)
    <3>1. ImportsAt(d, r, o, named) = ImportsAt(d, q, o, named)
      BY <2>1 DEF ImportsAt, AskedFromBody
    <3> QED
      BY <3>1 DEF Imported, AskedFromBody
  <2> QED
    BY <2>2, <2>3 DEF InScope
<1>9. \A i \in 1 .. Len(chain) : chain[i] \in Around(q.owner)
  BY DEF Around
<1>10. \A i \in 1 .. Len(chain) - j + 1 :
          /\ Chain[r.owner][i] \in Around(r.owner)
          /\ near[Chain[r.owner][i]] = hit[chain[j + i - 1]]
  <2> SUFFICES ASSUME NEW i \in 1 .. Len(chain) - j + 1
               PROVE  /\ Chain[r.owner][i] \in Around(r.owner)
                      /\ near[Chain[r.owner][i]] = hit[chain[j + i - 1]]
    OBVIOUS
  <2>1. Chain[r.owner][i] \in Around(r.owner)
    BY <1>7 DEF Around
  <2>2. j + i - 1 \in 1 .. Len(chain)
    BY <1>1, <1>5
  <2>3. chain[j + i - 1] \in Around(q.owner) /\ Chain[r.owner][i] = chain[j + i - 1]
    BY <1>7, <1>9, <2>2
  <2>4. near[Chain[r.owner][i]] = InScope(d, E, r, name, Chain[r.owner][i])
    BY <2>1
  <2>5. hit[chain[j + i - 1]] = InScope(d, E, q, name, chain[j + i - 1])
    BY <2>3
  <2> QED
    BY <1>8, <2>1, <2>3, <2>4, <2>5
<1>11. hit[chain[k]] = InScope(d, E, q, name, chain[k])
  BY <1>2, <1>9
<1> HIDE DEF hit, near
<1>12. k - j + 1 \in 1 .. Len(chain) - j + 1 /\ j + (k - j + 1) - 1 = k
  BY <1>1, <1>2, <1>5
<1>13. IsFirst(r.owner, near, k - j + 1)
  <2>1. near[Chain[r.owner][k - j + 1]].found # {}
    BY <1>2, <1>10, <1>12 DEF IsFirst
  <2>2. ASSUME NEW i \in 1 .. Len(Chain[r.owner]), i < k - j + 1
        PROVE  near[Chain[r.owner][i]].found = {}
    <3>1. i \in 1 .. Len(chain) - j + 1
      BY <1>7
    <3>2. j + i - 1 \in 1 .. Len(chain) /\ j + i - 1 < k
      BY <1>1, <1>2, <1>5, <2>2, <3>1
    <3>3. hit[chain[j + i - 1]].found = {}
      BY <1>2, <3>2 DEF IsFirst
    <3> QED
      BY <1>10, <3>1, <3>3
  <2> QED
    BY <1>7, <1>12, <2>1, <2>2 DEF IsFirst
<1>14. ResolveName(d, E, r, name) = near[Chain[r.owner][k - j + 1]]
  <2>1. ResolveName(d, E, r, name) = Innermost(r.owner, near, InUnit(d, r, name))
    BY DEF ResolveName, near
  <2> QED
    BY <1>7, <1>13, <2>1, InnermostIs
<1>15. near[Chain[r.owner][k - j + 1]] = hit[chain[k]]
  BY <1>10, <1>12
<1> QED
  BY <1>2, <1>7, <1>11, <1>14, <1>15

Computed ==
  /\ Asked
  /\ asked # None => mapped /\ answer = ResolvePath(design, exports, asked)
  /\ conflicts # None =>
       mapped /\ conflicts = ImportConflicts(design) \cup ActivationConflicts(design, exports)

LEMMA ComputedHolds == Spec => []Computed
<1>1. Init => Computed
  BY DEF Init, MapInit, Asked, Computed
<1>2. Computed /\ [Next]_vars => Computed'
  <2> SUFFICES ASSUME Computed, [Next]_vars PROVE Computed'
    OBVIOUS
  <2>1. CASE BuildMap
    <3>1. ~mapped /\ asked' = asked /\ conflicts' = conflicts /\ design' = design
      BY <2>1 DEF BuildMap, MapNext, VisitPackage, EndPass, resVars
    <3> QED
      BY <3>1 DEF Computed, Asked
  <2>2. CASE Resolve
    BY <2>2 DEF Resolve, Computed, Asked, mapVars
  <2>3. CASE Diagnose
    BY <2>3 DEF Diagnose, Computed, Asked, mapVars
  <2>4. CASE UNCHANGED vars
    BY <2>4 DEF Computed, Asked, vars, mapVars, resVars
  <2> QED
    BY <2>1, <2>2, <2>3, <2>4 DEF Next
<1> QED
  BY <1>1, <1>2, PTL DEF Spec

\* No reference in an expression that leans on a wildcard import escapes the
\* diagnostics.
THEOREM ActivationsReportedHolds == Spec => []ActivationsReported
<1>1. Computed => ActivationsReported
  <2> SUFFICES ASSUME Computed, asked \in References(design), conflicts # None,
                      answer.by = "WildcardImport", asked.kind = "Value",
                      NEW x \in Scope(design, answer.scope),
                      x.name = asked.path[1], Namespace(x.kind) # "Assertion",
                      File(asked.owner) # File(answer.scope) \/ asked.pos < x.pos,
                      asked # None
               PROVE  x \in conflicts
    BY DEF ActivationsReported
  <2> DEFINE first == ResolveName(design, exports, asked, asked.path[1])
  <2>1. asked \in design.refs /\ asked.owner \in Owners /\ asked.ctx = "Value"
    BY RefAssumption DEF Computed, Asked, References, Collected
  <2>2. first.by = "WildcardImport" /\ answer.scope = first.scope
    BY DEF Computed, ResolvePath
  <2> DEFINE r == AsValue(asked, asked.ctx)
  <2>3. /\ r.owner = BodyOwner(asked.owner) /\ r.ctx = asked.ctx /\ r.pos = asked.pos
        /\ r.kind = asked.kind /\ r.path = asked.path
    BY DEF AsValue
  <2> HIDE DEF r
  <2>4. /\ r.owner \in Owners /\ Walked(r.owner)
        /\ ResolveName(design, exports, r, asked.path[1]) = first
    <3>1. /\ r.owner \in Owners /\ Around(r.owner) \subseteq Around(asked.owner)
          /\ ResolveName(design, exports, r, asked.path[1]) = first
      <4>1. PICK d, E, q, p, name :
              d = design /\ E = exports /\ q = asked /\ p = r /\ name = asked.path[1]
        OBVIOUS
      <4>2. /\ q.owner \in Owners
            /\ AskedFromBody(q, p)
            /\ ResolveName(d, E, q, name).by = "WildcardImport"
        BY <2>1, <2>2, <2>3, <4>1 DEF AskedFromBody
      <4> HIDE DEF first
      <4>3. /\ p.owner \in Owners
            /\ Around(p.owner) \subseteq Around(q.owner)
            /\ ResolveName(d, E, p, name) = ResolveName(d, E, q, name)
        BY <4>2, FromBody
      <4> USE DEF first
      <4> QED
        BY <4>1, <4>3
    <3>2. Walked(asked.owner)
      BY DEF References, Collected
    <3> QED
      BY <3>1, <3>2 DEF Walked
  <2>6. /\ ResolveWildcard(design, exports, r, asked.path[1]).scope = first.scope
        /\ ResolveWildcard(design, exports, r, asked.path[1]).found = first.found
        /\ first.scope \in {c \in Checked : \E i \in Imports(design, c) : i.item = Star}
    <3> HIDE DEF first
    <3> QED
      BY <2>2, <2>4, WalksAgree
  <2>7. Activates(design, exports, asked, first.scope)
    BY <2>1, <2>3, <2>4, <2>6 DEF Activates, r
  <2>5. x \in ActivationConflicts(design, exports)
    BY <2>2, <2>6, <2>7 DEF ActivationConflicts
  <2> QED
    BY <2>5 DEF Computed
<1> QED
  BY <1>1, ComputedHolds, PTL

-----------------------------------------------------------------------------
(* Paths.                                                                  *)

\* Induction, on a set of naturals.
LEMMA Induct ==
  ASSUME NEW T \in SUBSET Nat, 0 \in T, \A n \in T : n + 1 \in T
  PROVE  T = Nat
<1> DEFINE R == {p \in Nat \X Nat : p[1] < p[2]}
<1> SUFFICES ASSUME Nat \ T # {} PROVE FALSE
  OBVIOUS
<1>1. IsWellFoundedOn(R, Nat)
  BY NatLessThanWellFounded DEF OpToRel
<1>2. PICK n \in Nat \ T : \A m \in Nat \ T : ~(<<m, n>> \in R)
  BY <1>1, WFMin
<1>3. n - 1 \in Nat /\ n - 1 < n /\ (n - 1) + 1 = n
  BY <1>2
<1>4. n - 1 \notin T
  BY <1>2, <1>3
<1> QED BY <1>2, <1>3, <1>4

\* Each value determines the next.
IsSteps(f, a, next, n) == \A i \in 1 .. n : f[i] = IF i = 1 THEN a ELSE next[<<i, f[i - 1]>>]

LEMMA StepsExist ==
  ASSUME NEW V, NEW a \in V, NEW next \in [Nat \X V -> V], NEW n \in Nat
  PROVE  \E f \in [1 .. n -> V] : IsSteps(f, a, next, n)
<1> USE DEF IsSteps
<1> DEFINE Good(f, k) == IsSteps(f, a, next, k)
           T == {k \in Nat : \E f \in [1 .. k -> V] : Good(f, k)}
<1>1. 0 \in T
  <2>1. [i \in 1 .. 0 |-> a] \in [1 .. 0 -> V] /\ Good([i \in 1 .. 0 |-> a], 0)
    OBVIOUS
  <2> QED BY <2>1
<1>2. ASSUME NEW k \in T PROVE k + 1 \in T
  <2>1. PICK f \in [1 .. k -> V] : Good(f, k)
    BY <1>2
  <2> DEFINE v == IF k = 0 THEN a ELSE next[<<k + 1, f[k]>>]
             g == [i \in 1 .. k + 1 |-> IF i = k + 1 THEN v ELSE f[i]]
  <2>2. k \in Nat /\ v \in V
    BY <1>2, <2>1
  <2>3. g \in [1 .. k + 1 -> V]
    BY <2>1, <2>2
  <2>4. Good(g, k + 1)
    <3> SUFFICES ASSUME NEW i \in 1 .. k + 1 PROVE g[i] = IF i = 1 THEN a ELSE next[<<i, g[i - 1]>>]
      OBVIOUS
    <3>1. CASE i = k + 1
      <4>1. g[i] = v
        BY <3>1
      <4>2. CASE k = 0
        BY <3>1, <4>1, <4>2
      <4>3. CASE k # 0
        <5>1. k \in 1 .. k + 1 /\ k # k + 1 /\ i - 1 = k /\ i # 1
          BY <2>2, <3>1, <4>3
        <5>2. g[i - 1] = f[k]
          BY <5>1
        <5> QED BY <3>1, <4>1, <4>3, <5>1, <5>2
      <4> QED BY <4>2, <4>3
    <3>2. CASE i \in 1 .. k
      <4>1. g[i] = f[i] /\ (i # 1 => g[i - 1] = f[i - 1])
        BY <2>2, <3>2
      <4> QED BY <2>1, <3>2, <4>1
    <3> QED BY <2>2, <3>1, <3>2
  <2> HIDE DEF Good, g
  <2> QED BY <2>2, <2>3, <2>4
<1>3. T = Nat
  <2> HIDE DEF T
  <2>1. T \in SUBSET Nat
    BY DEF T
  <2> QED BY <1>1, <1>2, <2>1, Induct
<1> QED BY <1>3

\* What is found below a set of definitions, ambiguous or not.
Children(d, S, name, ctx) ==
  UNION {UNION {Lookup(Scope(d, o), name, ctx) : o \in Below(d, x)} : x \in S}

\* As in ResolvePath.
FirstPart(d, E, q) ==
  LET first == ResolveName(d, E, q, q.path[1])
      root  == Root(d, q, q.path[1])
  IN IF first.found = {} /\ root # {} THEN [found |-> root, by |-> "Root", scope |-> None] ELSE first

IsParts(f, d, E, q) ==
  f = [i \in 1 .. Len(q.path) |->
         IF i = 1 THEN FirstPart(d, E, q).found
         ELSE Child(d, f[i - 1], q.path[i], SegmentContext(q, i))]

\* As in Reached.
FirstReached(d, E, q) ==
  LET first == ResolveName(d, E, q, q.path[1]).found
  IN IF first = {} THEN Root(d, q, q.path[1]) ELSE first

AreReached(f, d, E, q) ==
  f = [i \in 1 .. Len(q.path) |->
         IF i = 1 THEN FirstReached(d, E, q)
         ELSE Children(d, f[i - 1], q.path[i], SegmentContext(q, i))]

LEMMA PartsAre ==
  ASSUME NEW d, NEW E, NEW q, Len(q.path) \in Nat
  PROVE  \E f : IsParts(f, d, E, q) /\ ResolvePath(d, E, q).found = f[Len(q.path)]
<1> DEFINE a == FirstPart(d, E, q).found
           V == SUBSET (d.defs \cup a)
           next == [p \in Nat \X V |-> Child(d, p[2], q.path[p[1]], SegmentContext(q, p[1]))]
<1>1. next \in [Nat \X V -> V]
  <2>1. \A S, name, ctx : Child(d, S, name, ctx) \subseteq d.defs
    BY DEF Child, AndThen, Lookup, Scope
  <2> QED BY <2>1
<1>2. a \in V
  OBVIOUS
<1>3. \A i \in Nat, S \in V : next[<<i, S>>] = Child(d, S, q.path[i], SegmentContext(q, i))
  OBVIOUS
<1> HIDE DEF a, V, next
<1>4. PICK f \in [1 .. Len(q.path) -> V] : IsSteps(f, a, next, Len(q.path))
  <2>1. PICK n \in Nat : n = Len(q.path)
    OBVIOUS
  <2>2. \E f \in [1 .. n -> V] : IsSteps(f, a, next, n)
    BY <1>1, <1>2, StepsExist
  <2> QED BY <2>1, <2>2
<1>5. \E g : IsParts(g, d, E, q)
  <2>1. \A i \in 1 .. Len(q.path) : i # 1 => i \in Nat /\ i - 1 \in 1 .. Len(q.path)
    OBVIOUS
  <2>2. \A i \in 1 .. Len(q.path) :
          f[i] = IF i = 1 THEN a ELSE Child(d, f[i - 1], q.path[i], SegmentContext(q, i))
    BY <1>3, <1>4, <2>1 DEF IsSteps
  <2>3. f = [i \in 1 .. Len(q.path) |->
               IF i = 1 THEN a ELSE Child(d, f[i - 1], q.path[i], SegmentContext(q, i))]
    BY <1>4, <2>2
  <2> QED BY <2>3 DEF IsParts, a
<1>6. LET g == CHOOSE g : IsParts(g, d, E, q) IN ResolvePath(d, E, q).found = g[Len(q.path)]
  BY DEF IsParts, ResolvePath, FirstPart
<1> QED BY <1>5, <1>6

LEMMA ReachedAre ==
  ASSUME NEW d, NEW E, NEW q, Len(q.path) \in Nat
  PROVE  AreReached(Reached(d, E, q), d, E, q)
<1> DEFINE a == FirstReached(d, E, q)
           V == SUBSET (d.defs \cup a)
           next == [p \in Nat \X V |-> Children(d, p[2], q.path[p[1]], SegmentContext(q, p[1]))]
<1>1. next \in [Nat \X V -> V]
  <2>1. \A S, name, ctx : Children(d, S, name, ctx) \subseteq d.defs
    BY DEF Children, Lookup, Scope
  <2> QED BY <2>1
<1>2. a \in V
  OBVIOUS
<1>3. \A i \in Nat, S \in V : next[<<i, S>>] = Children(d, S, q.path[i], SegmentContext(q, i))
  OBVIOUS
<1> HIDE DEF a, V, next
<1>4. PICK f \in [1 .. Len(q.path) -> V] : IsSteps(f, a, next, Len(q.path))
  <2>1. PICK n \in Nat : n = Len(q.path)
    OBVIOUS
  <2>2. \E f \in [1 .. n -> V] : IsSteps(f, a, next, n)
    BY <1>1, <1>2, StepsExist
  <2> QED BY <2>1, <2>2
<1>5. \E g : AreReached(g, d, E, q)
  <2>1. \A i \in 1 .. Len(q.path) : i # 1 => i \in Nat /\ i - 1 \in 1 .. Len(q.path)
    OBVIOUS
  <2>2. \A i \in 1 .. Len(q.path) :
          f[i] = IF i = 1 THEN a ELSE Children(d, f[i - 1], q.path[i], SegmentContext(q, i))
    BY <1>3, <1>4, <2>1 DEF IsSteps
  <2>3. f = [i \in 1 .. Len(q.path) |->
               IF i = 1 THEN a ELSE Children(d, f[i - 1], q.path[i], SegmentContext(q, i))]
    BY <1>4, <2>2
  <2> QED BY <2>3 DEF AreReached, a
<1>6. Reached(d, E, q) = CHOOSE g : AreReached(g, d, E, q)
  BY DEF AreReached, Reached, FirstReached, Children
<1> QED BY <1>5, <1>6

\* Only a unique parent can have a unique child.
LEMMA UniqueChild ==
  ASSUME NEW d, NEW S, NEW name, NEW ctx, Unique(Child(d, S, name, ctx))
  PROVE  Unique(S) /\ Child(d, S, name, ctx) = Children(d, S, name, ctx)
<1>1. Child(d, S, name, ctx) = AndThen(S, Children(d, S, name, ctx))
  BY DEF Child, Children
<1>2. Child(d, S, name, ctx) # {}
  BY DEF Unique
<1>3. Child(d, S, name, ctx) = Children(d, S, name, ctx) /\ ~Ambiguous(S)
  BY <1>1, <1>2 DEF AndThen
<1>4. S # {}
  BY <1>2, <1>3 DEF Children
<1>5. Unique(S)
  BY <1>3, <1>4 DEF Ambiguous, Unique
<1> QED BY <1>3, <1>5

LEMMA OnePath ==
  ASSUME NEW d, NEW E, NEW q, Len(q.path) \in Nat, Unique(ResolvePath(d, E, q).found)
  PROVE  \A i \in 1 .. Len(q.path) : Unique(Reached(d, E, q)[i])
<1>1. PICK n \in Nat : n = Len(q.path)
  OBVIOUS
<1>2. PICK f : IsParts(f, d, E, q) /\ ResolvePath(d, E, q).found = f[n]
  BY <1>1, PartsAre
<1>3. PICK g : g = Reached(d, E, q) /\ AreReached(g, d, E, q)
  BY ReachedAre
<1>4. FirstPart(d, E, q).found = FirstReached(d, E, q)
  BY DEF FirstPart, FirstReached
<1>5. /\ 1 <= n => f[1] = g[1]
      /\ \A i \in 2 .. n : /\ f[i] = Child(d, f[i - 1], q.path[i], SegmentContext(q, i))
                           /\ g[i] = Children(d, g[i - 1], q.path[i], SegmentContext(q, i))
  <2>1. \A i \in 1 .. Len(q.path) :
          /\ f[i] = IF i = 1 THEN FirstPart(d, E, q).found
                   ELSE Child(d, f[i - 1], q.path[i], SegmentContext(q, i))
          /\ g[i] = IF i = 1 THEN FirstReached(d, E, q)
                   ELSE Children(d, g[i - 1], q.path[i], SegmentContext(q, i))
    BY <1>2, <1>3 DEF IsParts, AreReached
  <2>2. (1 <= n => 1 \in 1 .. Len(q.path)) /\ \A i \in 2 .. n : i \in 1 .. Len(q.path) /\ i # 1
    BY <1>1
  <2> QED BY <1>4, <2>1, <2>2
<1> DEFINE Same(k) == Unique(f[k]) => f[k] = g[k] /\ \A i \in 1 .. k : Unique(g[i])
           T == {k \in Nat : k + 1 <= n => Same(k + 1)}
<1>6. 0 \in T
  <2>1. 1 <= n => Same(1)
    <3>1. \A i \in 1 .. 1 : i = 1
      OBVIOUS
    <3> QED BY <1>5, <3>1
  <2> QED BY <2>1
<1>7. ASSUME NEW k \in T PROVE k + 1 \in T
  <2> SUFFICES ASSUME (k + 1) + 1 <= n, Unique(f[(k + 1) + 1])
               PROVE  f[(k + 1) + 1] = g[(k + 1) + 1] /\ \A i \in 1 .. (k + 1) + 1 : Unique(g[i])
    BY <1>7
  <2>1. PICK m : m = k + 1 /\ m \in Nat /\ m + 1 \in 2 .. n /\ m <= n /\ (m + 1) - 1 = m
    BY <1>7
  <2>2. Same(m)
    BY <1>7, <2>1
  <2>3. Unique(Child(d, f[m], q.path[m + 1], SegmentContext(q, m + 1)))
    BY <1>5, <2>1
  <2>4. Unique(f[m]) /\ f[m + 1] = Children(d, f[m], q.path[m + 1], SegmentContext(q, m + 1))
    BY <1>5, <2>1, <2>3, UniqueChild
  <2>5. f[m] = g[m] /\ \A i \in 1 .. m : Unique(g[i])
    BY <2>2, <2>4
  <2>6. f[m + 1] = g[m + 1]
    BY <1>5, <2>1, <2>4, <2>5
  <2>7. Unique(g[m + 1])
    BY <2>1, <2>6
  <2>8. \A i \in 1 .. m + 1 : i \in 1 .. m \/ i = m + 1
    BY <2>1
  <2> QED BY <2>1, <2>5, <2>6, <2>7, <2>8
<1>8. T = Nat
  <2> HIDE DEF T
  <2>1. T \in SUBSET Nat
    BY DEF T
  <2> QED BY <1>6, <1>7, <2>1, Induct
<1>9. CASE n = 0
  BY <1>1, <1>9
<1>10. CASE n # 0
  <2>1. PICK k \in Nat : k + 1 = n
    <3>1. n - 1 \in Nat /\ (n - 1) + 1 = n
      BY <1>10
    <3> QED BY <3>1
  <2>2. k \in T
    BY <1>8
  <2>3. Same(n)
    BY <2>1, <2>2
  <2> QED BY <1>1, <1>2, <1>3, <2>3
<1> QED BY <1>9, <1>10

\* A path stands for one definition only if each of its parts does: no child
\* decides between several parents, however long the path and whatever the
\* design (Resolution::and_then).
THEOREM UniqueMeansOnePathHolds == Spec => []UniqueMeansOnePath
<1>1. Computed => UniqueMeansOnePath
  <2> SUFFICES ASSUME Computed, asked # None, Unique(answer.found)
               PROVE  \A i \in 1 .. Len(asked.path) : Unique(Reached(design, exports, asked)[i])
    BY DEF UniqueMeansOnePath
  <2>1. PICK d, E, q : d = design /\ E = exports /\ q = asked
    OBVIOUS
  <2>2. answer = ResolvePath(d, E, q) /\ Len(q.path) \in Nat
    BY <2>1, RefAssumption DEF Computed, Asked
  <2>3. \A i \in 1 .. Len(q.path) : Unique(Reached(d, E, q)[i])
    BY <2>2, OnePath
  <2> QED BY <2>1, <2>3
<1> QED
  BY <1>1, ComputedHolds, PTL
==============================================================================
