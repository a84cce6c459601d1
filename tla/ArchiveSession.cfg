\* Two files: one without a digest and a size, one a sibling bundle claims to hold.
SPECIFICATION FairSpec
CONSTANTS
  File = {config, weights}
  NoDigest = {config}
  Unsized = {config}
  Sibling = {weights}
  MaxCandidates = 1
  MaxFaults = 4
INVARIANTS LedgerHonest ManifestHonest
PROPERTIES RegisterSeesEveryFile MismatchNeedsTwoFetches HandOffKept PromiseKept SessionsEnd Converges
\* A registered bundle with no disturbance left really is at rest.
CHECK_DEADLOCK FALSE
