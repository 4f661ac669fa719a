CONSTANTS
  c1 = c1
  c2 = c2
  n1 = n1
  Clients = {c1}
  Nodes = {n1}
  Commands <- AllFunctions
  Addresses = {"alt"}
  MaxOutput = 0
  UintValues = 4
  MayFail = FALSE
  MayLose = TRUE
SPECIFICATION FairSpec
PROPERTY LostLinkIsReported
