\* Two requests and a crash, a failed request or a lost lease, at any point.
SPECIFICATION FairSpec
CONSTANTS
  None = None
  app = app
  Nodes <- TwoNodes
  Apps = {app}
  Ids <- FourIds
  MaxReplicas = 2
  MaxRequests = 2
  MaxFaults = 1
INVARIANTS
  TypeOK
  NeverOverAssigned
PROPERTIES
  KeepsWhatIsWanted
  SomeoneLeads
  Converges
