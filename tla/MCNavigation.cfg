SPECIFICATION Spec
CONSTANTS
    NumTasks = 2
    SessionOf <- MCSessionOf
    Phases = {"finish", "review"}
    StepsOf <- MCPhaseSteps
    LockingIn <- MCLocking
    OutcomeOf <- MCOutcomeOf
    MaxPlans = 2
    Invokers = {x1, x2}
    Writers = {x1, x2}
    MaxMarkers = 1
    Scenarios <- MCScenarios
INVARIANTS InvokedOnce GivenUpMeansDead DecisionConsumedOnce OneLivePlan
CHECK_DEADLOCK FALSE
