\* Deadlock is a widget at rest, or torn down.
SPECIFICATION FairSpec
CONSTANTS
    mixed = mixed
    roads = roads
    rails = rails
    Maps = {mixed, roads, rails}
    KindOf <- MCKindOf
    KeyOf <- MCKeyOf
    None = None
    MaxResults = 2
    MaxEvents = 2
CHECK_DEADLOCK FALSE
INVARIANTS
    TypeOK
    OnlyLatestMap
    RenewalsAreUnderWay
    ViewMatches
PROPERTIES
    KeepsSources
    WidgetSettles
