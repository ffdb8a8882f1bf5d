SPECIFICATION WatchSpec
CONSTANTS
    MaxMessages = 4
    MaxFailures = 1
    PageSize = 1
    MaxPages = 2
INVARIANTS WatchInv
PROPERTIES RoomKept Prompt
