SPECIFICATION Spec
CONSTANT Results = {893}
INVARIANT PollWaitsForLoad
CHECK_DEADLOCK FALSE
