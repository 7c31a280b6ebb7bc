SPECIFICATION Spec
CONSTANTS
    c1 = c1
    c2 = c2
    Calls <- TwoCalls
INVARIANTS
    TypeOK
    ScopeClosedWhenDone
    DisconnectIsLogged
PROPERTIES
    NothingSentAfterward
    ImplementsOutcome
    RequestEnds
