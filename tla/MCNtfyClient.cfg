SPECIFICATION FairSpec
CONSTANTS
  t1 = t1
  t2 = t2
  k1 = k1
  k2 = k2
  Topics = {t1, t2}
  NoTopic = NoTopic
  Keys = {k1, k2}
  NoKey = NoKey
  Configs <- Everything
  Base = 10
  Most = 900
  Silence = 150
  Off = Off
  MaxHeld = 3
  MaxOrders = 2
  MaxFailures = 3
INVARIANTS
  NeverDeaf
  ListensWhereItIsTold
  ArrivedIsObeyed
PROPERTIES
  ComesBack
