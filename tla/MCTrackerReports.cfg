SPECIFICATION Spec
CONSTANTS
    Spelling <- Headings
    Strip <- Stripped
    Fold <- Folded
    Words <- WordsOf
    None = None
    ColumnAliases <- Legacy
    Alike <- Close
    Finished = {9}
    Misspelled <- Typos
    NoDay = NoDay
    Tab = "Plan"
    Sheets <- Tracked
    Renamings <- Renamed
    CellsOf <- Cells
    Answers <- AnswersGiven
    Synonyms <- SynonymsGiven
    AliasPairs <- Merges
    DevStatus = "Dev Status"
    RicefwId = "RICEFW ID"
    Lookahead = 1
    LastDay = 2
    MaxChanges = 2
    MaxGroups = 1
    OtherWord = 6
    MinSample = 2
    MinDistinct = 1
    NameWords = {1, 2, 3, 4, 5}
INVARIANTS
    OverdueAgrees
    PeopleAgree
    TimelineWhole
    HealthExplains
CHECK_DEADLOCK FALSE
