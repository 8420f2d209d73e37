SPECIFICATION FairSpec
CONSTANTS
  Thread = {t1, t2, t3}
  LabelReservedMax = 1
  LabelMax = 5
  Word = 16
  NoEntry = NoEntry
INVARIANTS TypeOK LabelsValid OvershootBounded OwnEntryUntilWrap
PROPERTY SomeoneAllocates
