CONSTANTS
    Key <- MCKey
    First = 8
    Latest = 9
    Projects <- MCProjects
SPECIFICATION Spec
INVARIANTS ExactCover DependencyKept
