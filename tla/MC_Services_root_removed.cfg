SPECIFICATION Spec
INVARIANT InFlightSurvives
CHECK_DEADLOCK FALSE
