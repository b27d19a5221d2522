\* Two connections, a disconnect, two messages, three tokens, which can be two lines.
SPECIFICATION FairSpec
CONSTANTS
    MaxConnects = 2
    MaxDisconnects = 1
    MaxSends = 2
    MaxTokens = 3
INVARIANTS
    TypeOK
    AnsweredOnce
PROPERTIES
    LinesInOrder
    SendsInOrder
    ConnectsEnd
    QuitEnds
