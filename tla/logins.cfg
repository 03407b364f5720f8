\* Two tabs over two browsers, three requests, one fault.
SPECIFICATION Spec
CONSTANTS
  admin = admin  reader = reader  invitee = invitee  stranger = stranger
  b1 = b1  b2 = b2  r1 = r1  r2 = r2
  NoUser = NoUser
  Browsers = {b1, b2}
  Users = {admin, reader}
  Admins = {admin}
  Invited = {invitee}
  Strangers = {stranger}
  Tabs = {r1, r2}
  MaxSessions = 2
  MaxRequests = 3
  MaxFaults = 1
CHECK_DEADLOCK FALSE
INVARIANT LoginsLeaveTraces
INVARIANT LogoutsRevoke
PROPERTY ImplementsSessions
PROPERTY LiveCookiesStay
SYMMETRY Symmetry
