CONSTANT MaxFrames <- MCMaxFrames
SPECIFICATION Spec
PROPERTY ProbeMeansAlive
CHECK_DEADLOCK FALSE
