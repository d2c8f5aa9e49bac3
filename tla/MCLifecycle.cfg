\* The file under two processes, crashes and a changing allow-list.
CONSTANTS
  Declarations <- MCDeclarations
  Attestations <- MCAttestations
  Trusted <- MCTrusted
  Lists <- MCLists
  Processes = {p, q}
SYMMETRY Symmetry
SPECIFICATION Spec
INVARIANTS
  TypeOK
  RefusedOnlyAfterChange
PROPERTIES
  OnlyOverlapsLose
  NoResurrection
