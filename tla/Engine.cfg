SPECIFICATION EngineSpec
CONSTANTS
    Number <- SmallNumber
    TextOrder <- SmallTextOrder
    Exprs <- SmallExprs
    Stoi <- SmallStoi
    Spelling <- SmallSpelling
    Letters <- SmallLetters
    Digits <- SmallDigits
    Upper <- SmallUpper
    Storage <- SmallStorage
    Typed <- SmallTyped
    Tables <- SmallTables
    Queries <- SmallQueries
INVARIANTS
    TokensAsWritten
    StatementAsWritten
    DoesWhatItSays
    AnswerRelational
    ScansJustEnough
PROPERTY Finishes
