\* Two runs of one Server, one after the other or at once, and a request whose handler
\* asks the client back; its dispatch and the one of the answer are under way together.
SPECIFICATION Spec
CONSTANTS
    Runs = {r1, r2}
    Requests = {q1}
    NoRun = none
INVARIANTS HandlersReleased SessionEndsClean AnswerStaysInSession
PROPERTIES RunEnds
CHECK_DEADLOCK FALSE
