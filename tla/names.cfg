\* Four packages that pass names on in cycles, one module with a block, all
\* small choices of declarations and imports.
CONSTANTS
  lib = lib
  top = top
  P = P
  Q1 = Q1
  Q2 = Q2
  R = R
  m = m
  b = b
  s = s
  c = c
  n1 = n1
  n2 = n2
  k = k
  None = None
  Star = Star
  Packages <- MCPackages
  Order <- MCOrder
  PackageName <- MCPackageName
  Names <- MCNames
  Defs <- MCDefs
  Designs <- MCDesigns
  Owners <- MCOwners
  Kind <- MCKind
  Parent <- MCParent
SPECIFICATION FairSpec
INVARIANTS ExportsAreLeast IgnoresLaterAndOuter ActivationsReported UniqueMeansOnePath
PROPERTIES EventuallyMapped
