SPECIFICATION Spec
CONSTANTS
    a = a  b = b  drop = drop  form = form  label = label
    None = None
    People = {a, b}
    Managers = {a, b}
    Items = {drop}
    Kind <- KindOf
    MaxGen = 2
    MaxIdentity = 1
    MaxText = 0
CHECK_DEADLOCK FALSE
SYMMETRY Symmetry
INVARIANT DropStampsTrue
CONSTANT MaxChurn = 0
