SPECIFICATION Spec
CONSTANTS
    Rows = 2
    Cols = 2
    Chars = {" "}
    Blank = " "
    Upper <- AsTyped
    Texts = {}
    Formats <- FormatsTab
    MaxOrders = 3
    MaxFields = 3
INVARIANTS
    TabRing
