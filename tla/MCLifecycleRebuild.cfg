\* Does a rebuild keep what the file shows?
CONSTANTS
  Declarations <- MCDeclarations
  Attestations <- MCAttestations
  Trusted <- MCTrusted
  Lists <- MCLists
  Processes = {p, q}
SYMMETRY Symmetry
SPECIFICATION Spec
PROPERTY RebuildIsSafe
