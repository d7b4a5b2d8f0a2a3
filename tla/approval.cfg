SPECIFICATION ApprovalSpec
CONSTANTS
    a1 = a1  a2 = a2  o1 = o1  o2 = o2
    Actions <- TwoActions
    Operators <- TwoOperators
    MaxCommands = 5
INVARIANTS
  DecisionsAreAudited
  LegalHistory
PROPERTY
  DecisionSurvivesCycles
CHECK_DEADLOCK FALSE
