SPECIFICATION Spec
CONSTANTS
    Chars = {"a", "b", "/", "+", "#"}
    MaxLen = 4
CHECK_DEADLOCK FALSE
INVARIANTS
    ValidationIsGrammar
    MatchingIsLevelwise
    ElementsAreLevels
