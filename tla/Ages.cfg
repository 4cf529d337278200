SPECIFICATION Spec
CONSTANTS
    Instants <- AppInstants
    Offsets <- AppOffsets
    Years = 3
    Calendars <- AppCalendars
INVARIANT
    TrueAtGreenwich
PROPERTY
    NeverYounger
