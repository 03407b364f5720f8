\* Two readers take turns in one browser.
SPECIFICATION Spec
CONSTANTS
  u1 = u1  u2 = u2  b1 = b1  b2 = b2
  c1 = c1  c2 = c2  c3 = c3  page = page  x = x  y = y
  NoUser = NoUser
  Users = {u1, u2}
  Browsers = {b1}
  Controls = {c1}
  Marks = {x, y}
  BrowserOf <- MCBrowserOf
  ItemOf <- MCItemOf
  ButtonsOf <- MCButtonsOf
  PersonalPages <- MCPages
  HiddenItems = {}
  LoginsOf <- SharedBrowser
  MaxClicks = 1
  MaxLogins = 2
  MaxFaults = 0
CHECK_DEADLOCK FALSE
INVARIANT OwnMarks
