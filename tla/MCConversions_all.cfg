SPECIFICATION ConversionsSpec
CONSTANTS
    MaxLength = 2
    MaxSpoilt = 2
    Alphabets <- TypedTexts
    Spellings <- SpeltTexts
    MaxKlen = 3
    MaxChilds = 3
    MaxSet = 4
    Base <- Coins
    Quote <- Quotes
    NewStatus = {"EXPIRED_IN_MATCH"}
    TimeInterval = 2
    Clock = {0, 1, 2, 3, 4, 5, 6}
    Price = {1, 2}
    MaxTrades = 4
CHECK_DEADLOCK FALSE
INVARIANTS WireFaithful LoadSafe JsonFaithful RecordKept TermsKept FinalWhenDone BarsFaithful
