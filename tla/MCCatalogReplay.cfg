\* Stores built from every small history agree when it is clean.  Building
\* them ends, so a state without a successor is expected.
CONSTANTS
  Declarations <- MCDeclarations
  Attestations <- MCAttestations
  Trusted <- MCTrusted
SPECIFICATION Spec
CHECK_DEADLOCK FALSE
INVARIANTS
  TypeOK
  CleanHistoriesAgree
