SPECIFICATION Spec
CONSTANTS
    BlockSize = 2
    Lengths = {0, 1, 2, 3, 5}
    ApiVersions = {2, 3}
    Faults = {"local_open", "local_stat", "local_write", "remote_stat", "remote_open", "remote_write", "remote_chmod", "callback", "fread", "flush", "late", "die"}
    MaxLate = 2
    MaxTarget = 7
INVARIANTS
    TypeOK
    CodeIsRight
    RemoteHandle
    Paired
PROPERTIES
    Terminates
