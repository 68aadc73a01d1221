SPECIFICATION Spec
CONSTANTS
  t1 = t1
  t2 = t2
  k1 = k1
  Secrets = {t1, t2, k1}
  Nothing = Nothing
  Conn = {c1, c2}
  Configs <- TheConfigs
  Requests <- TheRequests
  Headers = 2
  Limit = 4
  FreeFails = FALSE
INVARIANTS HandledWhenWhole AnnouncedIsListening
PROPERTIES OnlyByRight
