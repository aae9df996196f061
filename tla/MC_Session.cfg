CONSTANT MaxFrames <- MCMaxFrames
SPECIFICATION Spec
INVARIANT HandlersDrained ClosedAtEnd
PROPERTY SessionEnds
CHECK_DEADLOCK FALSE
