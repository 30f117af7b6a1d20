SPECIFICATION Spec
CONSTANTS
  s1 = s1 s2 = s2 n1 = n1 short = short c1 = c1 c2 = c2 db = db
  Service = {s1, s2}
  Store = {db}
  StoreOf <- SharedStore
  Nonce = {n1}
  ShortNonce = {short}
  Claimant = {c1, c2}
  PqClaimant = {c1}
  PqRequired = {s2}
  Handler = {h1}
  Crafted = {}
  Ttl = 1 Skew = 1 MaxTime = 3 W = 6
  Checked = {s2}
  Nobody = Nobody NoEntry = NoEntry NoCall = NoCall
PROPERTIES SkewTolerated
