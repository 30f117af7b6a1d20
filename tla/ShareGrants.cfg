SPECIFICATION Spec
CONSTANTS
  k1 = k1 k2 = k2 ed1 = ed1 x1 = x1 x2 = x2
  p1 = p1 p2 = p2
  r1 = r1 r2 = r2 r3 = r3 b1 = b1 b2 = b2 s1 = s1 s2 = s2
  Secret = {k1, k2}
  Target = {ed1, x1, x2}
  Recipient = {p1, p2}
  PublicOf <- MCPublicOf
  HolderOf <- MCHolderOf
  Enc <- MCEnc
  Pre = {r1, r2, r3}
  BackendOf <- MCBackendOf
  Signer = {s1, s2}
  PqSigner = {s2}
  Epoch = {0, 1}
  MaxLen = 2 MaxShares = 4 MaxGrants = 1 MaxPayload = 1
  NoSig = NoSig
INVARIANTS Decodable ListedOpen GrantSound HandingOn
CHECK_DEADLOCK FALSE
