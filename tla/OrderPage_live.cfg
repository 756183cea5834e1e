CONSTANTS
  ann = ann
  bob = bob
  People = {ann, bob}
  Admins = {}
  Visitor = ann
  Others = {bob}
  Nobody = Nobody
  Jobs = {"money-collector"}
  Collector = "money-collector"
  Served = {1}
  MaxStreams = 2
  MaxReads = 2
  LastTime = 1
  Places = {"order", "summary", "orders"}
  MaxChanges = 2
  MaxFaults = 1
SPECIFICATION FairSpec
CHECK_DEADLOCK FALSE
INVARIANTS TypeOK OneSubscription OfferedIsAllowed ToldIsRead ChatIsRead
PROPERTIES StreamComesBack
