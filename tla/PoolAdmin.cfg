SPECIFICATION Spec
CONSTANTS
    People = {p, q, s}
    Requests = {r1, r2}
    Founders = {p}
    NoOne = NoOne
    Owners = {p, q}
    Links = {l1, l2}
    Visits = {v1, v2}
    NoLink = NoLink
    Readers = {p, q}
    Switches = {gsw, ko}
    Teller = gsw
    Cards = {c}
    Desks = {d1, d2}
    Kickoff = 3
    FreshDays = 1
    StaleDays = 3
    LastDay = 8
INVARIANTS
    DeskTellsTrue
PROPERTIES
    OnlyRacesBreakRules
    CloseIsExact
    LinksSlipOnlyInRaces
CHECK_DEADLOCK FALSE
