\* Two agents share the limiter, as tests/limited/main.go does.
CONSTANTS
    Agents = {"server1", "server2"}
    Paths = {"/login"}
    Matches <- AllMatches
    Files <- OneRule
    Second = 1
    MaxTime = 2
SPECIFICATION Spec
INVARIANT RequestsPerSecond
