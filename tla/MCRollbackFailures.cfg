SPECIFICATION Spec
CONSTANTS
  good = good
  older = older
  bad = bad
  nil = nil
  Configs = {good, older, bad, nil}
  NoValues = nil
  Faulty = {bad}
  Histories <- FaultAfterFailure
  Pipelines = {1, 2}
  MaxRetries = 2
  Window = 1
  Timeout = 1
  BaseBackoff = 1
  MaxBackoff = 1
  PrometheusMayFail = FALSE
  StaleAlerts = TRUE
  SlowHelm = TRUE
  HelmMayFail = TRUE
  MaxDeploys = 1
INVARIANTS TypeOK RestoresServedConfig
CHECK_DEADLOCK FALSE
