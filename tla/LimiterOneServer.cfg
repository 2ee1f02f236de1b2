\* One agent, every file of four lines and one of three rules, two windows.
CONSTANTS
    Agents = {"server1"}
    Paths = {"/login", "/list", "/free"}
    Matches <- AllMatches
    Files <- TestedFiles
    Second = 1
    MaxTime = 4
SPECIFICATION Spec
\* The clock is bounded, the agents are not; a limiter without rules is never asked.
CHECK_DEADLOCK FALSE
INVARIANTS
    TypeOK
    RulesOfFile
    RequestsPerSecond
PROPERTY RefusedWhenSpent
