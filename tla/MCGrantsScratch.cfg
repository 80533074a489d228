SPECIFICATION Spec
CONSTANTS
  s1 = s1
  a1 = a1
  a2 = a2
  c1 = c1
  g1 = g1
  k1 = k1
  Assets = {s1}
  Accounts = {a1, a2}
  Clients = {c1}
  Groups = {g1}
  Calls = {}
  AssetOf <- OneAsset
  Conns = {v1, v2}
  Creds = {w1}
  Specs = {p1}
  Artifacts = {h1}
  Present = {}
  MaxEdits = 5
  None = None
INVARIANTS CatalogIsCurrent ReferencesLive
PROPERTIES RevisionNamesContent
