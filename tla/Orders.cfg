SPECIFICATION Spec
CONSTANTS
    camp_ = camp_
    front = front
    request = request
    Places = {camp_, front}
    Staging = camp_
    Objective = front
    Requests = {request}
    Travel = 2
    Fords = {front}
    Handling = 0
    Recent = 1
    RecentReports = 1
    MaxMoves = 2
    None = None
INVARIANTS
    MissionReceived
    NoMissionLost
    DecidedOnReceived
PROPERTIES
    RequestsReach
