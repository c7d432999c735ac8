\* The same debt settled from both ends, by up to three handlers on one key.
CONSTANTS
    ana = ana  ben = ben  cam = cam  gus = gus  flat = flat  direct = direct  phone = phone  laptop = laptop
    bens = bens  cams = cams  e1 = e1  e2 = e2  e3 = e3  s1 = s1  s2 = s2  s3 = s3
    s4 = s4  s5 = s5  s6 = s6  whole = whole  again = again  third = third
    Procs = {p1, p2, p3}
    People = {ana, ben}
    Groups = {flat}
    NoGroup = direct
    Sessions = {phone, bens}
    PersonOf <- MCPersonOf
    ExpenseIds = {e2, e3}
    PaymentIds = {s2, s3, s4, s5}
    BatchIds = {whole, again}
    NoRow = NoRow  NoRequest = NoRequest  NoSheet = NoSheet
    NoBatch = NoBatch  NoClaim = NoClaim
    MaxCached = 1
    Draft <- MCDraft
    Bills <- JustTaxi
    PaymentDraft <- MCPaymentDraft
    BatchDraft <- MCBatchDraft
    Ops = {"batch", "deletePayment", "look"}
    MaxRequests = 3
    Registered <- MCRegistered
    Seated <- MCSeated
    Founders <- MCFounders
    Contacts <- MCContacts
    Filed = {e2, e3}
SPECIFICATION FairSpec
INVARIANTS DebtPaidOnce OneAtATime
PROPERTIES Answered
CHECK_DEADLOCK FALSE
