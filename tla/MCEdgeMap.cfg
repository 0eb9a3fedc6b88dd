SPECIFICATION FairSpec
CONSTANTS
  Threads = {t1, t2}
  Keys <- Square
  Capacity = 4
  firstIndex <- Hashes
  MaxEdges = 2
  Yes = Yes
  No = No
  Absent = Absent
INVARIANTS
  TypeOK
  KeysCanBeFound
  FreesWhatIsLive
PROPERTIES
  CallsReturn
  Implements
CHECK_DEADLOCK TRUE
