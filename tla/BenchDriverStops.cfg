SPECIFICATION Spec
CONSTANTS
  List <- MCList
  Flags <- MCFlags
  MaxN = 16
  MaxND = 32
INVARIANT StopsAtVerificationError
