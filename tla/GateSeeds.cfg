SPECIFICATION GateSpec
CONSTANTS
    Strategies = {"long_morning_trend", "short_risk_off_rebound"}
    Def <- SeededDef
    Snapshots <- SeededSnapshots
    Evaluators = {"runner"}
    Overlap = FALSE
    MaxStateAge = 1
    MaxDecisionAge = 1
    EndTime = 3
    Signals = {"exit", "long"}
INVARIANT SeededEntryPasses
CHECK_DEADLOCK FALSE
