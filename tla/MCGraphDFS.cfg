CONSTANT Key <- MCKey
SPECIFICATION Spec
INVARIANTS NeighboursFirst PlanIsReach
PROPERTY Terminates
