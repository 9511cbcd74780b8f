CONSTANTS
    Rows <- MCRows
    Names <- MCNames
    Scenes <- MCScenes
    Requests = {r1, r2}
    Limit = 1
    Savers = {s1, s2}
    ProxmoxKeys = {"host", "token"}
    OtherKeys = {"price"}
    Forms <- MCForms
    Values = {1, 2}
    MaxFaults = 1
    Workers = {w1, w2}
    Consoles = {c1, c2}
SPECIFICATION Spec
INVARIANTS RowsConsistent  ConfigFollowsSettings PageFollowsVm ConsolesReleased
PROPERTIES StaysOff
CHECK_DEADLOCK FALSE
