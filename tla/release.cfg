\* Two machines, two modules, four operations on the trees, two launches.
SPECIFICATION Spec
CONSTANTS
  None = None
  issuer = issuer
  server = server
  k0 = k0
  k1 = k1
  l1 = l1
  l2 = l2
  Machines = {issuer, server}
  Modules <- MCModules
  Core = {"database"}
  Versions = {1, 2}
  SigningKeys = {k0, k1}
  FirstKey = k0
  Signer = issuer
  MaxOps = 4
  Server = server
  Database = "database"
  Launches = {l1, l2}
  Ports = {18080, 18081}
INVARIANTS
  TypeOK
  GatedStarts
  RunsSignedCode
  SchemaFits
  OpensItsOwn
SYMMETRY MCSymmetry
CHECK_DEADLOCK FALSE
