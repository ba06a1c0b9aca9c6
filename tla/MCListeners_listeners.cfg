SPECIFICATION Spec
CONSTANTS
    Paths = {a, b}
    MaxWd = 2
    MaxEvents = 3
    MaxOpens = 2
    BufferSize = 3
    NlCategories <- Tags
    MaxDatagrams = 2
    SocketBuffer = 1
SYMMETRY Symmetry
INVARIANTS
    FilesFollowKernel
    EventsReported
    ReportedAsSubscribed
CHECK_DEADLOCK FALSE
