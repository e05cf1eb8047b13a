SPECIFICATION Spec
CONSTANTS
    Rows = 2
    Cols = 2
    Chars = {" ", "a", "A"}
    Blank = " "
    Upper <- Capital
    Texts <- TextsOne
    Formats <- FormatsEdit
    MaxOrders = 2
    MaxFields = 1
INVARIANTS
    TypeOK
    FieldsSettled
PROPERTIES
    EditsStayInField
    EditsAreExact
