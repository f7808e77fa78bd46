CONSTANT Key <- MCKey
SPECIFICATION Spec
INVARIANTS AcceptedIsAcyclic ReportedIsCycle
PROPERTY Terminates
