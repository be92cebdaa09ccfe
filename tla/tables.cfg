SPECIFICATION Spec
CONSTANTS
  Sims = {sim1, sim2}
  Slots = 2
  InitTypes = 2
  MaxTypes = 2
  MaxEdits = 1
  MaxAttach = 3
  MaxQueue = 1
SYMMETRY Alike
CHECK_DEADLOCK FALSE
INVARIANTS OnlyRegistered CopyComplete FrequencyFollows ServedInTurn
