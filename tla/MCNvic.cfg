CONSTANTS
    Irqs <- MCIrqs
    Prios <- MCPrios
    ReprioritiseActive = FALSE

SPECIFICATION Spec

INVARIANT NvicTypeOK
INVARIANT SelectionIsBest
INVARIANT NestingByPriority
INVARIANT CurrentPriorityIsMinActive
