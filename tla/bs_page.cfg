SPECIFICATION Spec
CONSTANTS
  MaxClicks = 6
  Panels = {1, 2, 3, 4}
  Accordion = {2, 3, 4}
  Items = 3
  Tabs = {t1, t2, t3}
  HlMax = 3
CHECK_DEADLOCK FALSE
INVARIANTS
  TypeOK
  OneOpen
  NavbarTells
  ModalRests
  TipFollows
  OneActive
  OneInterval
  IndicatorTells
  TabTells
  NoGlowLeft
PROPERTIES
  ComesToRest
