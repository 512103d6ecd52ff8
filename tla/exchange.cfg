CONSTANTS
  Small = {"w", "u"}
  Caps = {"W"}
  LowerOf <- MCLowerOf
  Space = {" ", "nbsp", "tab"}
  Control = {"tab", "bell"}
  Symbol = {"*", "User: ", ": ", "Plan:", "(empty plan)", "(no plan)",
            "Powered by fingermouse", "request refused", "no matching record",
            "host not served here"}
  Foreign = {"e-acute"}
  Bad = "bad"
  MaxName = 2
  MaxHost = 3
  UsernameKey <- MCUsernameKey
  NotString = NotString
  NoPlan = NoPlan
  Options <- MCOptions
  Piece <- MCPiece
  MaxPieces = 4
  Stored <- MCStored
  Plan <- MCPlan
SPECIFICATION Spec
INVARIANTS TypeOK ParseExact CaseBlind MismatchOnlyForeign AnswerFramed PlanShown
