\* Strings as input; find-element and reset only with nothing pending.
CONSTANTS
    Documents <- MCDocuments
    Names <- MCNames
    Sources = {"input"}
    IgnoreChoices = {TRUE, FALSE}
    AnyUse = FALSE
SPECIFICATION FairSpec
INVARIANTS ReportIsOfTheEvent ParserFollowsState
PROPERTIES ImplementsPullStream DocumentEnds
