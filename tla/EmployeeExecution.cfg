\* Two works of one employee, the second a team step; one thread that cancels;
\* one fault.
CONSTANTS
    w1 = w1
    w2 = w2
    a1 = a1
    Works = {w1, w2}
    Agents = {a1}
    AgentOf <- SameAgent
    TeamWorks = {w2}
    Stoppers = {s1}
    None = None
    MaxFaults = 1
SPECIFICATION Spec
INVARIANTS
    AttemptsSound
    PromptsSound
    StopWins
PROPERTIES
    EndIsFinal
    WorkEnds
CHECK_DEADLOCK FALSE
