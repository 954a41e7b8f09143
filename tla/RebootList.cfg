SPECIFICATION StoreSpec
CONSTANTS
    BtEditors = {b1, b2}
    FieldEditors = {f1}
    NoEditor = NoEditor
    MaxChanges = 2
INVARIANT NextRebootHasList
CHECK_DEADLOCK FALSE
