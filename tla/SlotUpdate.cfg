CONSTANTS
    Slots = {A, B}
    NoSlot = NoSlot
    MaxVersion = 3
SPECIFICATION Spec
INVARIANTS
    RecordCoherent
    SomeSlotBoots
PROPERTIES
    NoRollback
    UpdateLands
