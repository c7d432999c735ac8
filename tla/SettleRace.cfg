\* A debt settled as a batch and in its group at once.
CONSTANTS
    ana = ana  ben = ben  cam = cam  gus = gus  flat = flat  direct = direct  phone = phone  laptop = laptop
    bens = bens  cams = cams  e1 = e1  e2 = e2  e3 = e3  s1 = s1  s2 = s2  s3 = s3
    s4 = s4  s5 = s5  s6 = s6  whole = whole  again = again  third = third
    Procs = {p1, p2}
    People = {ana, ben, cam}
    Groups = {flat}
    NoGroup = direct
    Sessions = {phone, cams}
    PersonOf <- MCPersonOf
    ExpenseIds = {e2}
    PaymentIds = {s1, s6}
    BatchIds = {third}
    NoRow = NoRow  NoRequest = NoRequest  NoSheet = NoSheet
    NoBatch = NoBatch  NoClaim = NoClaim
    MaxCached = 1
    Draft <- MCDraft
    Bills <- JustTaxi
    PaymentDraft <- TaxiPaid
    BatchDraft <- MCBatchDraft
    Ops = {"batch", "pay"}
    MaxRequests = 2
    Registered <- MCRegistered
    Seated <- MCSeated
    Founders <- MCFounders
    Contacts <- MCContacts
    Filed = {e2}
SYMMETRY Handlers
SPECIFICATION Spec
PROPERTIES BatchWithinDebt
CHECK_DEADLOCK FALSE
