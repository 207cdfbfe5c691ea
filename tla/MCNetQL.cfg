SPECIFICATION Spec
CONSTANTS
    Registry <- MCRegistry
    Lower <- MCLower
    Strings <- MCStrings
    Numbers <- MCNumbers
    Ints <- MCInts
    Overflows <- MCOverflows
    Durations <- MCDurations
    AtoiFails <- MCAtoiFails
    OtherNames = {"nosuch"}
    Substrings <- MCSubstrings
    Found <- MCSubstrings
    FullMatches <- MCFullMatches
    Phrases <- MCPhrases
    MaxPhrases = 6
    Rows <- MCRows
INVARIANTS
    AcceptsTheGrammar
    SQLSelectsTheAsked
    PromSelectsTheAsked
    SuggestionsAreAccepted
\* A query that has been answered is done.
CHECK_DEADLOCK FALSE
