\* Two generations and three reports on two legs each, one request sent twice.
SPECIFICATION GateSpec
CONSTANTS
  StaleAfter = 0
  IdleThreshold = 0
  MaxEpoch = 2
  MaxReports = 3
  MaxResends = 1
  MaxTotal = 3
  Wirings = {{"hook"}, {"frame"}}
CONSTRAINT FewReports
INVARIANTS TruthfulActivity SettledOnLastReport NeedsInputOncePerStretch AnswersWhatWasSeen AnsweredOnce
