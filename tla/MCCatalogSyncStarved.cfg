\* What the live loop does not deliver from a relay that sends its newest event first.
CONSTANTS
  Declarations <- MCDeclarations
  Attestations <- MCAttestations
  Trusted <- MCTrusted
  InitialFiles <- MCInitialFiles
  NewestFirst = TRUE
SPECIFICATION FairSpec
PROPERTY PublishedIsProjected
