SPECIFICATION Spec
CONSTANTS
  List <- MCList
  Flags <- MCFlags
  MaxN = 16
  MaxND = 32
INVARIANTS TypeOK OneLineEach ColumnsAreOwn AsksOnlyDoable
