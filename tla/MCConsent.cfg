SPECIFICATION Spec
CONSTANTS
  Tabs = {"tab1", "tab2"}
  Categories = {"analytics", "marketing"}
  Default = "analytics"
INVARIANTS
  EveryEventHasConsent
