CONSTANTS
    Base = 8
    Width = 2
    SignBit = 32
    MaxFields = 2
    Fields <- MCFields
SPECIFICATION Spec
INVARIANTS
    EncodersAgree
    FieldsReadBack
    ShownAmountIsMeant
CHECK_DEADLOCK FALSE
