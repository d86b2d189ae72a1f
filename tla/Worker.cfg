SPECIFICATION FairSpec
CONSTANTS
    server = server
    worker = worker
    thread = thread
    soft = soft
    custom = custom
    j = j
    k = k
    h1 = h1
    h2 = h2
    a1 = a1
    a2 = a2
    None = None
    Procs <- AllProcs
    Execution <- ExecutionOf
    Host <- HostOf
    Queues <- AllQueues
    Predefined <- PredefinedQueues
    Names <- AllNames
    Handlers <- AllHandlers
    Args <- AllArgs
    Programs <- Versions
    MaxCalls = 2
    MaxBoots = 2
INVARIANTS
    WorkerTypeOK
    ArgsDelivered
    RunsItsHandler
    ConsumesOwn
PROPERTIES
    CallsEnd
CHECK_DEADLOCK FALSE
