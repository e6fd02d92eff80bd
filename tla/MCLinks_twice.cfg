\* One address, two requests at a time, one link.
SPECIFICATION Spec
CONSTANTS
    Emails = {e1}
    Slots = {p1, p2}
    MaxLinks = 1
    MaxKinds = 1
    None = None
INVARIANT ResetForOne
