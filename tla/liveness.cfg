SPECIFICATION Spec
PROPERTIES
  MarketIsDelivered
  BrowsersAreServed
  QuoteIsShown
  WindowCatchesUp
  ReportSettles
CHECK_DEADLOCK FALSE
