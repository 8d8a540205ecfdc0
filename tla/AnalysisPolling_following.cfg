SPECIFICATION PollSpec
CONSTANTS
    MaxClicks = 1
    MaxLoads = 2
PROPERTY AnalysisIsFollowed
CHECK_DEADLOCK FALSE
