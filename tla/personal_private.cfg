\* Two readers with a browser each, two cards and the personal page in one, a card
\* in the other; the item of one card is 404 by now.
SPECIFICATION Spec
CONSTANTS
  u1 = u1  u2 = u2  b1 = b1  b2 = b2
  c1 = c1  c2 = c2  c3 = c3  page = page  x = x  y = y
  NoUser = NoUser
  Users = {u1, u2}
  Browsers = {b1, b2}
  Controls = {c1, c2, page, c3}
  Marks = {x, y}
  BrowserOf <- MCBrowserOf
  ItemOf <- MCItemOf
  ButtonsOf <- MCButtonsOf
  PersonalPages <- MCPages
  HiddenItems = {x}
  LoginsOf <- OneEach
  MaxClicks = 2
  MaxLogins = 3
  MaxFaults = 1
CONSTRAINT TwoMounted
CONSTRAINT OneBrowserAtATime
CONSTRAINT ThreeDisturbances
CHECK_DEADLOCK FALSE
PROPERTY MarkerMeansAccepted
INVARIANT OwnMarks
INVARIANT CacheAgreesWhenQuiet
