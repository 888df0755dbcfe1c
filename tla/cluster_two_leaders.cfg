\* One lease that is lost.
SPECIFICATION FairSpec
CONSTANTS
  None = None
  app = app
  Nodes <- TwoNodes
  Apps = {app}
  Ids <- FourIds
  MaxReplicas = 1
  MaxRequests = 1
  MaxFaults = 1
PROPERTY StepsDown
