SPECIFICATION Spec
CONSTANTS
    TD = {t}
    MD = {}
    Strategy = {s}
    OrderId = {o}
    Report = {"Ready"}
    None = None
    MaxEvent = 3
    MaxLag = 1
    MaxOvertake = 1
CHECK_DEADLOCK FALSE
INVARIANTS StatesTold BooksFollow Present
