SPECIFICATION Spec
CONSTANT RESENDCNT = 2
INVARIANTS TypeOK InFlightTimed ResendBound
PROPERTIES InFlightResolved PolledForever
