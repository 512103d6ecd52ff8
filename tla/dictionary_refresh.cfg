CONSTANTS
  Local = {l1, l2}
  Remote = {r1}
  Tagged = {r1}
  Dated = {r1}
  Malformed = {2}
  MaxStamp = 4
  Helper = {h1}
  None = None
SPECIFICATION Spec
INVARIANTS TypeOK MetadataBehind ReportedFresh
