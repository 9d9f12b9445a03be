CONSTANTS
    Variables <- MCVariables
    Rests <- MCRests
    Boot <- MCBoot
    Clauses <- MCClauses
    Patterns <- MCPatterns
    Refs = {1, 2, 3, 4, 5, 6}
SPECIFICATION Spec
INVARIANT LiteralLookupIsExact
INVARIANT LookupFindsMatches
INVARIANT RemovalTakesRelated
