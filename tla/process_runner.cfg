SPECIFICATION Spec
CONSTANTS
    Lines <- MCLines
    LogLimit = 2
    MaxRuns = 2
    Reports <- MCReports
INVARIANTS
    LogIsOfThisRun
    NothingOfAnEarlierRun
    StatusIsTrue
PROPERTIES
    JoinsEnd
