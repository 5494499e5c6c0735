SPECIFICATION Spec
CONSTANTS
  Item <- MCItem
  Capacity = 3
  Files <- MCFiles
  Comment = Comment
  Malformed = Malformed
INVARIANT ReportCoversFile
