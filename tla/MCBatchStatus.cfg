CONSTANTS
    j1 = j1  j2 = j2  p1 = p1  p2 = p2
    Jobs = {j1, j2}
    Polls = {p1, p2}
    MaxRuns = 2
    None = None
SPECIFICATION PollingSpec
INVARIANTS AggregateIsFaithful CompleteShowsAllProgress SettledJobIsDated EndedBatchIsDated
PROPERTIES StatusConverges
