SPECIFICATION JobSpec
CONSTANTS
  Client = {c1, c2}
  LegacyStatus = {"FAILED", "COMPLETE"}
  Returns = 1
  NoFile = NoFile
SYMMETRY MCClients
INVARIANT RecordedSnapshotIsExact
