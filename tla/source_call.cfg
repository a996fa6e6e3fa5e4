\* One call of each source, over lists one item longer than any limit lets through.
SPECIFICATION Spec
CONSTANTS
    Sources = {"v2ex", "rss", "bilibili", "youtube", "exa", "xueqiu", "opencli"}
    MaximumItems = 2
    MaxLimit = 3
    MaxForkItems = 3
    MaxTopicItems = 3
    MaxEntries = 3
    MaxRedirects = 3
    MaxThreadItems = 2
    MaxResultCharacters = 4
INVARIANTS
    FetchKeepsItsTerms
    ParentAcceptsWorker
    AnswerIsRequested
    LossIsTold
    

