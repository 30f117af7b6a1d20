SPECIFICATION FairSpec
CONSTANTS
  Proc = {p1, p2, p3}
  MaxFaults = 2
  COORD_LEN = 2
  Octet = {0, 4}
  NoFile = NoFile Empty = Empty NoSigner = NoSigner Error = Error
INVARIANTS StableIdentity SignsAsItself OneEncoding
PROPERTIES SeedStays Usable
