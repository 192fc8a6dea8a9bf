\* Two accounts and two operations, two names, one category, both importers, two dates.
CONSTANTS
    Names = {NoName, Food}
    NoName = NoName
    Imported = Imported
    Starts = {0}
    ImportedStart = 4
    Amounts <- MCAmounts
    Dates = {1, 2}
    CategoryIds = {1, 2}
    MaxIds <- MCMaxIds
SPECIFICATION Spec
CHECK_DEADLOCK FALSE
INVARIANTS
    TypeOK
    AnalyticsAgree
PROPERTIES
    IdsAreFresh
    BalanceFollowsOperations
