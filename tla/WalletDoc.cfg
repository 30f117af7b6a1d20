SPECIFICATION Spec
CONSTANTS
  Name = {a, b}
  Key = {k1, k2}
  SecretId = {s1}
  Label = {good, slash}  BadLabel = {slash}
  Value = {val, huge}    BadValue = {huge}
  Salt = {t1, t2}
  Ext = {note}
  Junk = Junk Root = Root None = None Closed = Closed
  MaxEdits = 2
SYMMETRY Perms
INVARIANTS Reopens ExtKept CommitmentKept
CHECK_DEADLOCK FALSE
