SPECIFICATION Spec
CONSTANTS
  a1 = a1 a2 = a2 r1 = r1 salt1 = salt1
  Author = {a1, a2}
  PqAuthor = {a1}
  Value = {1, 2}
  Rest = {r1}
  Salt = {salt1}
  Draft <- MCDraft
  Foreign <- MCForeign
  Pqcrypto = TRUE
  MaxIssued = 2
  None = None NoSalt = NoSalt NotMlDsa = NotMlDsa
INVARIANTS SignedByActor ByteStable
PROPERTIES SurvivesElision
