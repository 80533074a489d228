SPECIFICATION Spec
CONSTANTS
  s1 = s1
  a1 = a1
  a2 = a2
  c1 = c1
  g1 = g1
  k1 = k1
  Assets = {s1}
  Accounts = {a1}
  Clients = {c1}
  Groups = {g1}
  Calls = {k1}
  AssetOf <- OneAsset
  Conns = {v1, v2}
  Creds = {w1, w2}
  Specs = {p1, p2}
  Artifacts = {h1, h2}
  Present = {s1, a1, c1}
  MaxEdits = 3
  None = None
INVARIANTS TypeOK CallsConfirmed
PROPERTIES RevocationWins
SYMMETRY Symmetry
