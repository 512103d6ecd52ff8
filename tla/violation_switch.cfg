CONSTANTS
  Local = {l1, l2}
  Remote = {}
  Tagged = {}
  Dated = {}
  Malformed = {}
  MaxStamp = 4
  Helper = {h1}
  None = None
SPECIFICATION Spec
INVARIANTS SwitchReplaces
