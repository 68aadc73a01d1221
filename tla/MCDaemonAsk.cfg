\* Who is answered: two people asking by SMS, the other channels asking too.
\* The home channel asks in vain, as it comes.
SPECIFICATION Spec
CONSTANTS
  NoOne = NoOne
  Blank = Blank
  Senders = {ana, bob}
  Sms = {m1, m2}
  Texts <- TextsWho
  Orders <- OrdersAsk
  Configs <- ConfigsAsk
  SessionCalls = {}
  SoundAvailable = TRUE
  DiskWritable = TRUE
  MaxTries = 0
  MaxDue = 0
  MaxCrashes = 0
INVARIANTS
  WaitingMeansSearching
  PositionOnlyToWhoAsked
  NotedOrdersKnowAnAsker
SYMMETRY Alike
