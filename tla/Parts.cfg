SPECIFICATION PartsSpec
CONSTANTS
  a1 = a1 a2 = a2 a3 = a3 peer = peer
  Author = {a1, a2, a3}
  Wall <- MCWall
  Foreign <- MCForeign
  U64Max = 5 Peak = 3 MaxOps = 3
  CborInputs <- MCInputs
  CborValues <- MCValues
  MaxDepth = 3 NoJob = NoJob NotYet = NotYet
  Devices <- MCDevices
  NodeIds <- MCNodeIds
  MaxSigned = 2 NoPq = NoPq
  root1 = root1 root2 = root2 doc = doc read = read write = write alice = alice bob = bob
  Roots = {root1, root2}
  Resources = {doc} Operations = {read, write} Holders = {alice, bob}
  AnyBlocks <- MCBlocks
  MaxBlocks = 3 MaxRounds = 3 NoHolder = NoHolder NoToken = NoToken
  Order = 5
  Secrets <- MCSecrets
  dek1 = dek1 dek2 = dek2
  Deks = {dek1, dek2}
  Short = Short MaxWraps = 2 NoDek = NoDek
SYMMETRY MCSymmetry
CHECK_DEADLOCK FALSE
INVARIANTS TypeOK CausalOrder BoundedDrift
  Canonical AttestationSound Narrowing HolderBound WrapSound
