\* The daemon with relays that answer in any order.
CONSTANTS
  Declarations <- MCDeclarations
  Attestations <- MCAttestations
  Trusted <- MCTrusted
  InitialFiles <- MCInitialFiles
  NewestFirst = FALSE
SPECIFICATION FairSpec
INVARIANTS
  TypeOK
  AcceptedIsSaved
  NeverTorn
PROPERTIES
  NeverRegresses
  StopIsHeeded
