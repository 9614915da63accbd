CONSTANTS
    None = None
    Root = root
    Sub = sub
    All = all
    Dirs <- RootAndSub
    Above <- AboveSub
    Contents <- FilesOf
    Leads <- SubIsOne
    Queries = {all, x}
    Matches <- Filter
    Limit = 2
    Slots = {s1, s2}
    MaxShown = 6
    Values <- OnOff
    MaxChanges = 2
SPECIFICATION SiteSpec
INVARIANTS FilteredAsTold
