\* What README.md says of identifiers.
CONSTANTS
    Names = {NoName}
    NoName = NoName
    Imported = Imported
    Starts = {0}
    ImportedStart = 4
    Amounts <- MCAmounts
    Dates = {1, 2}
    CategoryIds = {1, 2}
    MaxIds <- MCMaxIds
SPECIFICATION Spec
CHECK_DEADLOCK FALSE
PROPERTIES
    NothingIsReplaced
