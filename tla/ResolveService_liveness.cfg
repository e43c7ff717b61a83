SPECIFICATION FairSpec
CONSTANTS
  None = None
  AllowAll = AllowAll
  Global = Global
  Blank = Blank
  Padded = {}
  Prefixes <- MCPrefixes
  WellSized <- MCWellSized
  Printable <- MCPrintable
  MaxCapabilities = 2
  MaxTokens = 2
  Requests = {r1, r2}
  Inputs <- MCFewInputs
  InvalidKeys = {"b"}
  SelectorPolicies <- MCSelectorPolicies
  RawPolicies <- MCFewPolicies
  LegacyToken = "legacy"
  ProviderReplies = {"ok", "upstream_http"}
  Limit = 0
  MaxReloads = 1
PROPERTIES EveryRequestAnswered ShutdownDrains
