\* From intention to projection.  Everything that will be said may have been
\* said: a state without a successor is expected.
CONSTANTS
  Trusted = {1, 2, 3}
  AppIDs = {"app"}
  Commits = {"c1", "c2"}
  Hashes = {"sha256:m", "sha256:h"}
  Repositories = {"https"}
  Nip34References = {"30617"}
  PackagePaths = {"dir"}
  LongerNames <- MCLongerNames
  Declaring <- MCDeclaring
  Foreign <- MCForeign
  Testing <- MCTesting
  Endorsing <- MCEndorsing
  CurationPolicies <- MCCurationPolicies
  InstallPolicies <- MCInstallPolicies
  MaxEvents = 3
SPECIFICATION Spec
CHECK_DEADLOCK FALSE
INVARIANTS
  TypeOK
  DeclaredAsMeant
  TestedIsAccepted
  SelectsTheUniqueBest
  NotesDoNotDrift
