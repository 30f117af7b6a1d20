SPECIFICATION FairSpec
CONSTANTS
  Proc = {p1, p2}
  MaxFaults = 2
  COORD_LEN = 2
  Octet = {0, 4}
  NoFile = NoFile Empty = Empty NoSigner = NoSigner Error = Error

PROPERTIES LoadsOrCreates
