SPECIFICATION Spec
CONSTANTS
  Absent = Absent
  alice = alice
  bob = bob
  ka = ka
  kb = kb
  Operator <- MCOperator
  Key <- MCKey
  ManifestFiles <- MCManifestFiles
  Signatures <- MCSignatures
  SignerFiles <- MCSignerFiles
  MaxEdits = 1
CHECK_DEADLOCK FALSE
INVARIANT LoadNeverRaises
