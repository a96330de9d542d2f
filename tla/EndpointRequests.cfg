SPECIFICATION EndpointSpec
CONSTANTS
    Requests = {r1, r2}
    Tokens = {t1, t2}
    Credentials <- MCCredentials
    NodeFiles <- MCNodeFiles
    Hosts = {"h"}
    Agents <- MCAgents
    MaxSaves = 1
    MaxChanges = 1
SYMMETRY Symmetry
INVARIANTS
    EntriesAreAccepted
PROPERTIES
    AnswersAreCurrent
