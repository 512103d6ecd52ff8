CONSTANTS
  Reader = {r1}
  MaxVersion = 4
  Malformed = {2}
  Undecodable = {3}
  Planless = {1, 4}
SPECIFICATION Spec
INVARIANTS TypeOK ProfileWasInPlace PlanNotOlder MissingPlanNotOlder
