CONSTANTS
  Users = {"channel1", "channel2"}
  Level = {0, 1}
  Hclk = {2, 24, 80}
  Hse = FALSE
  Lse = TRUE
  References = {"USB", "SDMMC1"}
  Users16 = {"UART"}
SPECIFICATION Spec
INVARIANT TypeOK
INVARIANT SourcesMatch
INVARIANT SupplyFits
INVARIANT UsersClocked
CHECK_DEADLOCK FALSE
