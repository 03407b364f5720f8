\* Two cards of the home page, nobody signed in.
SPECIFICATION Spec
CONSTANTS
  u1 = u1  u2 = u2  b1 = b1  b2 = b2
  c1 = c1  c2 = c2  c3 = c3  page = page  x = x  y = y
  NoUser = NoUser
  Users = {u1}
  Browsers = {b1}
  Controls = {c1, c2}
  Marks = {x, y}
  BrowserOf <- MCBrowserOf
  ItemOf <- MCItemOf
  ButtonsOf <- MCButtonsOf
  PersonalPages <- MCPages
  HiddenItems = {}
  LoginsOf <- Nobody
  MaxClicks = 2
  MaxLogins = 0
  MaxFaults = 0
CHECK_DEADLOCK FALSE
INVARIANT AnonymousMarksSurvive
