\* Two accounts, three services, pages of one service.
SPECIFICATION Spec
CONSTANTS
  admin = admin
  dev = dev
  None = None
  Accounts = {admin, dev}
  L0 = {admin}
  Services <- MCServices
  Maintained <- MCMaintained
  FirstOwner <- MCFirstOwner
  MaxPage = 2
  MaxFlight = 2
  MaxClicks = 2
  MaxLogins = 1
  MaxFailures = 1
  MaxOthers = 1
INVARIANTS TypeOK ActsAsShown LoadingAwaits ListCurrent BusyAwaits
CHECK_DEADLOCK FALSE
