SPECIFICATION PeopleSpec
CONSTANTS
  None = None
  q1 = q1 q2 = q2 s1 = s1 s2 = s2 p1 = p1 p2 = p2
  owner = owner staff = staff new = new bar = bar pub = pub browser = browser phone = phone
  ownerEmail = ownerEmail staffEmail = staffEmail invited = invited google = google
  Unset = Unset Empty = Empty Nil = Nil Login = Login App = App
  Connections = {s1, s2}
  Requests = {q1, q2}
  Users = {owner, staff}
  Businesses = {bar, pub}
  Memberships <- BelongTo
  MaxWrites = 1
  MaxStops = 1
  Phones = {phone}
  Emails = {ownerEmail, staffEmail}
  Persons = {owner, staff, new}
  Bars = {bar}
  Invitations = {invited}
  Verifications = {s1, s2}
  Roles = {"staff"}
  Registered <- Accounted
  Passwords = {s1, s2}
  Google = {google}
  GoogleEmail <- Addressed
  MaxCodes = 2
  Role <- InRole
  Browsers = {browser}
  Pages = {p1, p2}
  BrowserOf <- OneBrowser
  Sessions = {s1, s2}
  Tried <- allCapabilities
  MaxTokens = 3
  MaxLost = 1
  Staff = {owner, staff}
  Superadmins = {owner}
  MaxAudit = 2
  MaxRotations = 1
SYMMETRY Symmetry
INVARIANTS IdentifiersProven CodesHold AcceptedIsMember ActsAsItsUser DoneByThoseWhoMay AuditTellsAll SeesItsOwn
PROPERTIES OverStaysOver ChangesItsOwn
\* The supply of rows, codes and tokens runs out.
CHECK_DEADLOCK FALSE
