\* The owner leaves, and the server restarts before the group is handed on.
CONSTANTS
    ana = ana  ben = ben  cam = cam  gus = gus  flat = flat  direct = direct  phone = phone  laptop = laptop
    bens = bens  cams = cams  e1 = e1  e2 = e2  e3 = e3  s1 = s1  s2 = s2  s3 = s3
    s4 = s4  s5 = s5  s6 = s6  whole = whole  again = again  third = third
    Procs = {p1, p2}
    People = {ana, ben, gus}
    Groups = {flat}
    NoGroup = direct
    Sessions = {phone, bens}
    PersonOf <- MCPersonOf
    ExpenseIds = {e1}
    PaymentIds = {s1}
    BatchIds = {}
    NoRow = NoRow  NoRequest = NoRequest  NoSheet = NoSheet
    NoBatch = NoBatch  NoClaim = NoClaim
    MaxCached = 1
    Draft <- MCDraft
    Bills <- MCBills
    PaymentDraft <- MCPaymentDraft
    BatchDraft <- MCBatchDraft
    Ops = {"remove"}
    MaxRequests = 2
    Registered <- MCRegistered
    Seated <- MCSeated
    Founders <- MCFounders
    Contacts <- MCContacts
    Filed = {}
SYMMETRY Handlers
SPECIFICATION Spec
INVARIANTS GroupHasAnOwner
CHECK_DEADLOCK FALSE
