SPECIFICATION GateSpec
CONSTANTS
    Strategies = {"trend"}
    Def <- MCDef
    Snapshots <- ChangingSnapshots
    Evaluators = {"runner", "api"}
    Overlap = TRUE
    MaxStateAge = 1
    MaxDecisionAge = 1
    EndTime = 3
    Signals = {}
INVARIANT DecisionIsItsEvaluation
CHECK_DEADLOCK FALSE
