\* Two rebuilds of one history need not agree.  Building them ends, so a
\* state without a successor is expected.
CONSTANTS
  Declarations <- MCDeclarations
  Attestations <- MCVerdicts
  Trusted <- MCTrusted
SPECIFICATION Spec
CHECK_DEADLOCK FALSE
INVARIANT RebuildsAgree
