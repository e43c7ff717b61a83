SPECIFICATION Spec
CONSTANTS
  None = None
  AllowAll = AllowAll
  Global = Global
  Blank = Blank
  Padded = {}
  Prefixes <- MCPrefixes
  WellSized <- MCWellSized
  Printable <- MCPrintable
  MaxCapabilities = 2
  MaxTokens = 2
  Requests = {r1, r2}
  Inputs <- MCInputs
  InvalidKeys = {"b"}
  SelectorPolicies <- MCSelectorPolicies
  RawPolicies <- MCRawPolicies
  LegacyToken = "legacy"
  ProviderReplies = {"ok"}
  Limit = 1
  MaxReloads = 2
SYMMETRY Symmetry
INVARIANTS PermitsAccounted AllowedByBothPolicies UnauthenticatedLearnsNothing TokenHasOneScope
