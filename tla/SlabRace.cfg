SPECIFICATION Spec
CONSTANTS
    Limit = 2
    Pages = {1, 2}
INVARIANTS
    ListsTell
