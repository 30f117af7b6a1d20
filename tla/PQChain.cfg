SPECIFICATION Spec
CONSTANTS
  k1 = k1 k2 = k2 k3 = k3 x1 = x1 x2 = x2 x3 = x3 xc = xc
  dG = dG dH = dH dA = dA dB = dB dC = dC dX = dX dS = dS dZ = dZ
  dM = dM dN = dN dR = dR dQ = dQ dI = dI
  NoDigest = NoDigest NoParent = NoParent NoElect = NoElect
  Key = {k1, k2, k3}
  Xid = {x1, x2, x3, xc}
  XidFor <- MCXidFor
  MaxSeq = 3
  Verifier = {v1, v2}
  Elect = {e1}
  HonestElect = {e1}
  HonestKey = {k2, k3}
  Digest = {dG, dH, dA, dB, dC, dX, dS, dZ, dM, dN, dR, dQ, dI}
  Rec <- MCRec
SYMMETRY Perms
CONSTRAINT OneUniverse
INVARIANTS HeadAuthorised Accountability NoFalseFork EitherOrder Agreement
PROPERTIES NoRewind
CHECK_DEADLOCK FALSE
