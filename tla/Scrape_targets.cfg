SPECIFICATION Spec
CONSTANTS
    Agents <- MCAgents
    Monitors <- MCMonitors
    Things <- MCThings
    Home <- MCHome
    MaxEdits = 2
    MaxFaults = 1
    Unset = Unset
INVARIANTS TypeOK ScrapesAsAsked ExporterScrapedOnce
PROPERTIES FilesMounted BecomesCurrent
