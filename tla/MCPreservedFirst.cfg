SPECIFICATION JobSpec
CONSTANTS
  Client = {c1, c2}
  LegacyStatus = {"FAILED", "COMPLETE"}
  Returns = 0
  NoFile = NoFile
SYMMETRY MCClients
PROPERTY PreservedFirst
