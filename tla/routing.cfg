\* One message of one or two recipients, three edits of two peers and the rules for them.
CONSTANTS
    Digits = {"4", "6"}
    Symbols = {"4", "6", "+", "-"}
    Domains = {"d1", "d2"}
    Hosts = {"h1", "h2"}
    RouteBodies <- MCRouteBodies
    Recipients <- MCRecipients
    MaxEdits = 3
SPECIFICATION Spec
INVARIANTS
    TypeOK
    QuietVerdictIsRight
    StaleLookupIsARace
    
CHECK_DEADLOCK FALSE
