SPECIFICATION Spec
CONSTANTS
    Sources <- MCSources
    Texts <- MCTexts
    LongMax = 127
    Parts <- MCParts
    LongLast = 7
    SizeBits = {12, 16, 64}
    MaxSizeClauses = 2
    Symbols <- MCSymbols
    Packages <- MCPackages
    DeclaredIn <- MCDeclaredIn
    Results <- MCResults
    Sentences <- MCSentences
    MaxScopes = 3
    MaxClauses = 2
    Commands <- MCCommands
    Installs <- MCInstalls
    Older = {"none", "stale"}
INVARIANTS
    NoSpuriousReport
    AcceptedIsBalanced
    LocalFault
    TreeIsAdas
    LexerRoundTrip
    LiteralsExact
    ChoicesExact
    SelectionsAgree
    ComponentsFit
    InnermostProfileWins
    CallsMeanAdas
    DriverKeepsItsWord
PROPERTY ParserFinishes
