CONSTANTS
    Queries = {q1}
    Closes = {c1}
SPECIFICATION Spec
INVARIANT DestructorActsOnInstance
CHECK_DEADLOCK FALSE
