SPECIFICATION Spec
CONSTANTS
  o1 = o1
  k1 = k1
  r1 = r1
  Org = {o1, o2}
  Key = {k1, k2}
  Issuer = {i1}
  Realm = {r1}
  Seeds <- MCSeeds
  Posted <- MCPosted
  Graces = {0, 1}
  MaxTime = 3
  MaxFaults = 2
INVARIANTS
  CutOverHolds
  GraceHonoured
