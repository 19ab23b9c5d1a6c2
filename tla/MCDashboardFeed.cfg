SPECIFICATION Spec
CONSTANTS
    Threads = {scheduler, request}
    MaxVersion = 2
    MaxEvents = 2
INVARIANTS SingleFlight ViewConverges
PROPERTIES DeadStreamsCleared
