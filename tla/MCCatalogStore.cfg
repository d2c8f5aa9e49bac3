\* catalog.Store under every order and repetition of the events of
\* MCCatalogStore.
CONSTANTS
  Declarations <- MCDeclarations
  Attestations <- MCAttestations
  Trusted <- MCTrusted
  PolicyInputs <- MCPolicyInputs
  LogoHashes <- MCLogoHashes
SPECIFICATION Spec
INVARIANTS
  TypeOK
  NewestWins
  NewestVerdictWins
  IndependentVerifiers
  InstallableIsVouchedFor
  ResolvesToTheNewest
PROPERTIES
  LogoFollowsDeclaration
  ImplementsDeclarationRegister
  ImplementsAttestationRegister
