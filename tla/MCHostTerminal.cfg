SPECIFICATION Spec
CONSTANTS
    Columns = 2
    Configs <- MCConfigs
    RawBytes <- MCRawBytes
    LineTexts <- MCLineTexts
    ReadBuffer = 3
    MaxTyped = 5
    MaxClosed = 1
INVARIANTS
    CommandsAreEditedLines
    EchoMatchesLine
    HostSeesTerminal
PROPERTY
    EventServed
