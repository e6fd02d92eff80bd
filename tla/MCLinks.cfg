\* One address, two requests at a time, three links of one kind.
SPECIFICATION Spec
CONSTANTS
    Emails = {e1}
    Slots = {p1, p2}
    MaxLinks = 3
    MaxKinds = 1
    None = None
INVARIANTS TypeOK LiveLinks
PROPERTIES UndoneOnlyByStale ImplementsGuardedLink EveryRequestEnds
