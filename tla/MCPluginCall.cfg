SPECIFICATION Spec
CONSTANTS
    Rooms = {r1}
    Plugins = {"p", "q"}
    Mandatory = {"p"}
    Assets = "p"
    Versions = {"1", "2", "3"}
    Offered = {"1", "2"}
    Newest = "2"
    Lists <- MCLists
    Absent = Absent
    Partial = Partial
    NoPlugin = NoPlugin
    MaxEntries = 2
INVARIANTS TypeOK  AnswersAreTrue
PROPERTIES CompleteStays HandlersEnd
