SPECIFICATION Spec
CHECK_DEADLOCK FALSE
CONSTANTS
    Ids <- MCIds
    Names = {"A"}
    DefaultName = "D"
    Aliases = {"host"}
    Typed <- MCTyped
    Answers <- MCAnswers
    Retries = 2
    MaxLines = 2
    MaxCalls = 2
    MaxCrashes = 1
    MaxSessionMessages = 5
INVARIANTS AnsweredUnlessHurt LinesAnswered StoredAtPrompt SystemFirst NoMixing HostsStayKnown
PROPERTY CompleteReturns
