\* Does a rebuild run whatever the file holds?
CONSTANTS
  Declarations <- MCDeclarations
  Attestations <- MCAttestations
  Trusted <- MCTrusted
  Lists <- MCLists
  Processes = {p, q}
SYMMETRY Symmetry
SPECIFICATION Spec
INVARIANT RebuildIsNotRefused
