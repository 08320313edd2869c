SPECIFICATION FairSpec
CONSTANTS
    Calls <- MCCalls
    None = None
    Documents <- MCDocuments
    Words <- MCWords
    Tags <- MCTags
    Concepts <- MCConcepts
    InverseFrequency <- MCInverseFrequency
    TopK = 2
    Phrases <- MCPhrases
    Cases <- MCCases
    Inputs <- MCInputs
    StrictPhrases <- MCStrictPhrases
INVARIANTS CitationsByRelevance RoutedIffUnderHalf ReviewAccounting StrategyNeutral RunsRepeatable
PROPERTIES ImplementsDiagnosis RunsEnd
