SPECIFICATION Spec
CONSTANTS
    a = a  b = b  drop = drop  form = form  label = label
    None = None
    People = {a, b}
    Managers = {a, b}
    Items = {drop, form, label}
    Kind <- KindOf
    MaxGen = 2
    MaxIdentity = 2
    MaxText = 1
CHECK_DEADLOCK FALSE
SYMMETRY Symmetry
INVARIANTS TypeOK OneKeyPerGeneration ItemsReadable RotationRevokes
PROPERTIES RotationKeepsText
CONSTANT MaxChurn = 1
