SPECIFICATION Spec
INVARIANTS
    BuiltInputsWork
    TestsTellWhatMatters
    DocumentsAreDefined
    SelectionIsServed
CHECK_DEADLOCK FALSE
