SPECIFICATION Spec

CONSTANTS
  Seeds <- MCSeeds
  Symbols <- MCSymbols
  MaxLen <- SecretsOnly

INVARIANT SecretDecoded

CHECK_DEADLOCK FALSE
