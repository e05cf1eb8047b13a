SPECIFICATION Spec
CONSTANTS
    Rows = 1
    Cols = 3
    Chars = {" ", "a"}
    Blank = " "
    Upper <- AsTyped
    Texts <- TextsTwo
    Formats <- FormatsReach
    MaxOrders = 3
    MaxFields = 2
INVARIANTS
    EditsReachHost
