\* One page with two calls; the IdP has one session; one fault.
SPECIFICATION Spec
CONSTANTS
    Tabs = {t1}
    Slots = {s1, s2}
    Sids = {g1}
    None = None
    MaxFaults = 1
INVARIANTS TypeOK DeadIsRefused
PROPERTIES EveryCallEnds ImplementsSingleFlight SilentRests
