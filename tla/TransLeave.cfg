\* A store into a page that holds translated code may end the block whatever
\* is pending.
CONSTANTS
    Width = 2
    MaxPlan = 3
    LeaveAnywhere = TRUE
    Guests <- MCSubThenJump
    Pendings <- MCPendings

SPECIFICATION Spec

INVARIANT SameMachine

CHECK_DEADLOCK FALSE
