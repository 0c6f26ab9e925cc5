SPECIFICATION MapSpec
CONSTANTS
    farm = farm tavern = tavern w1 = w1 w2 = w2 w3 = w3 s1 = s1 NoURL = NoURL
    Address = {farm, tavern}
    Building = {w1, w2, w3}
    HostOf <- MCHostOf
    Old = {tavern}
    Plot <- MCPlot
    TooClose <- MCTooClose
    Structures <- MCStructures
    ServiceOf <- MCServiceOf
    Channel = 1
    MaxFaults = 2
INVARIANTS MapTypeOK OnePerPlot
PROPERTIES StaysOnTheMap HealthBecomesCurrent ViewCatchesUp
