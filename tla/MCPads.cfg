SPECIFICATION Spec
CONSTANT Results = {893}
INVARIANT ConfiguredTogether
PROPERTY PinsChangeAtOnce SetupEnds
CHECK_DEADLOCK FALSE
