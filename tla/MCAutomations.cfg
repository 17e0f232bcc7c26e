CONSTANTS
  AutomationIds = {"report"}
  Runs = {"run1", "run2"}
  Reviewers = {"tab1", "tab2"}
  Period = 1
  LastTick = 2
  Null = Null
SPECIFICATION AutomationsSpec
PROPERTY PausesBeforeFinalAction
