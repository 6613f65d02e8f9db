SPECIFICATION Spec
CONSTANTS
    Sessions = {overlay, rnxrt, tool}
    max_sessions = 2
INVARIANTS TableIsOpen RoomForSession NoHandlerAfterDelete
PROPERTIES ExitCompletes EveryRequestEnds
CHECK_DEADLOCK FALSE
