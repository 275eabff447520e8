----------------------------- MODULE MCNameResolution -----------------------------
(***************************************************************************)
(* Two files: "lib" with four packages, two of one name, and "top" with a  *)
(* module m with a generate block b and a procedure s that has a block c,  *)
(* and a second module n.                                                  *)
(***************************************************************************)
EXTENDS NameResolution, TLC

CONSTANTS lib, top, P, Q1, Q2, R, m, b, s, c, n1, n2, k

MCOwners   == {lib, top, P, Q1, Q2, R, m, b, s, c, n1, n2, k}
MCPackages == {P, Q1, Q2, R}
MCOrder    == <<P, Q1, Q2, R>>
MCPackageName == (P :> "p") @@ (Q1 :> "q") @@ (Q2 :> "q") @@ (R :> "r")

MCKind == [o \in MCOwners |->
  IF o \in {lib, top} THEN "file" ELSE IF o \in MCPackages THEN "package"
  ELSE IF o = b THEN "generate" ELSE IF o = s THEN "procedural"
  ELSE IF o = c THEN "block" ELSE IF o = k THEN "checker" ELSE "module"]
MCParent == [o \in MCOwners |->
  IF o \in {lib, top} THEN None ELSE IF o \in MCPackages \cup {n2} THEN lib
  ELSE IF o \in {b, s, k} THEN m ELSE IF o = c THEN s ELSE top]

Def(kind, name, owner, pos) ==
  [kind |-> kind, name |-> name, owner |-> owner, pos |-> pos, body |-> None, of |-> None]
Unit(kind, name, owner, pos, body) == [Def(kind, name, owner, pos) EXCEPT !.body = body]
Instance(name, of, owner, pos)     == [Def("instance", name, owner, pos) EXCEPT !.of = of]
Import(owner, package, item, pos)  == [owner |-> owner, package |-> package, item |-> item, pos |-> pos]
Export(owner, package, item)       == [owner |-> owner, package |-> package, item |-> item]
Ref(owner, path, ctx, pos, kind)   ==
  [owner |-> owner, path |-> path, ctx |-> ctx, pos |-> pos, kind |-> kind]

Units == {Unit("package", MCPackageName[p], lib, 1, p) : p \in MCPackages}
         \cup {Unit("module", "m", top, 10, m), Unit("generate", "b", m, 20, b),
               Unit("module", "n", top, 50, n1)}

\* The maps: what each package declares, and who passes on whose names; P also
\* passes on everything it imports.
PackageItems == {Def("declarator", "x", P, 2), Def("declarator", "x", Q1, 3),
                 Def("typedef", "x", R, 4)}
Passes == {Export(P, "q", Star), Export(Q1, "r", Star), Export(Q2, "q", "x"),
           Export(R, "p", "x"), Export(P, Star, Star)}
Maps == {[defs |-> Units \cup D, imports |-> {Import(P, "r", "y", 5)}, reexports |-> E, refs |-> {}] :
           D \in SUBSET PackageItems, E \in SUBSET Passes}

\* The scopes: x declared and imported early and late, in the file, the module
\* and the block.
ScopeItems == {Def("declarator", "x", top, 2), Def("declarator", "x", m, 14),
               Def("property", "x", m, 15), Def("typedef", "x", m, 30),
               Def("declarator", "x", b, 22), Def("declarator", "x", b, 26),
               Def("declarator", "x", c, 33), Def("declarator", "x", top, 40)}
ScopeImports == {Import(top, "r", Star, 1), Import(m, "r", "x", 11), Import(m, "p", Star, 12),
                 Import(m, "r", Star, 31), Import(b, "q", Star, 21), Import(b, "p", "x", 23),
                 Import(b, "r", "x", 25), Import(b, "p", Star, 27)}
ScopeRefs == {Ref(b, <<"x">>, "Value", 24, "Value"), Ref(b, <<"x">>, "Value", 24, "Call"),
              Ref(m, <<"x">>, "Type", 28, "Value"), Ref(c, <<"x">>, "Value", 34, "Value"),
              Ref(b, <<"x">>, "Listing", None, "Value")}
Scopes == {[defs |-> Units \cup PackageItems \cup D, imports |-> I, reexports |-> {},
             refs |-> ScopeRefs] :
             D \in {S \in SUBSET ScopeItems : Cardinality(S) <= 2},
             I \in {S \in SUBSET ScopeImports : Cardinality(S) <= 2}}

\* The paths: an instance u of n, of which there are one or two, or a checker of
\* the module's own.
PathItems == {Instance("u", "n", m, 13), Def("declarator", "x", n1, 51),
              Def("declarator", "x", n2, 61), Unit("module", "n", lib, 60, n2),
              Unit("checker", "n", m, 16, k), Def("port", "x", k, 17),
              Def("declarator", "n", top, 3), Def("declarator", "x", b, 22)}
PathRefs == {Ref(b, <<"u", "x">>, "Value", 24, "Value"), Ref(b, <<"n", "x">>, "Value", 24, "Value"),
             Ref(top, <<"m", "b", "x">>, "Value", None, "Value")}
Paths == {[defs |-> Units \cup D, imports |-> {}, reexports |-> {},
            refs |-> PathRefs] : D \in SUBSET PathItems}

MCDefs    == Units \cup PackageItems \cup ScopeItems \cup PathItems
MCDesigns == Maps \cup Scopes \cup Paths

MCNames == {"p", "q", "r"}
==============================================================================
