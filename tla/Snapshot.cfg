\* Torrents that come, go and change while polls are answered, lost and cut off.
SPECIFICATION SnapshotSpec
CONSTANTS
    Hash = {h1, h2}
    Value = {v1, v2}
    Absent = Absent
    None = None
    MaxChanges = 5
    MaxPolls = 4
SYMMETRY Symmetry
INVARIANTS RemovalsTold NoStorm
PROPERTY ImplementsMirror
CHECK_DEADLOCK FALSE
