SPECIFICATION Spec
CONSTANTS
  Operators = {o1, o2}
  TopicFiles <- MCTopicFiles
  Names = {"spans", "dead"}
  Keys = {"retention", "size"}
  Values = {"6h", "12h", "8G"}
  Default = "default"
  MaxPartitions = 3
  MaxOutages = 1
  None = None
INVARIANT SuccessIsUsable
SYMMETRY MCSymmetry
