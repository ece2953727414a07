SPECIFICATION ConfigurationSpec
CONSTANTS
    Commands = {1, 2}
    Keys = {1, 2}
    Sources = {1, 2, 3}
    Incoming = {2, 3}
    Unready = {3}
    Scripts = {f}
    Restarts = 1
    NONE = NONE
    ERROR = ERROR
    PipeRoom = 1
    Input = 1
    MaxWrites = 2
    MAX_OUTPUT = 1
    MaxBusy = 1
    Syncs = {1, 2}
    Remote = {1, 2}
    LocalProvider = 3
    MAX_SOURCE = 2
    MAX_AGGREGATE = 5
    Removals = 1
INVARIANTS CatalogIsUsable ChildIsContained PreparationIsSound
PROPERTIES NothingIsOverwritten
CHECK_DEADLOCK FALSE
