\* Two handlers at once on payments, a batch and the memberships.
CONSTANTS
    ana = ana  ben = ben  cam = cam  gus = gus  flat = flat  direct = direct  phone = phone  laptop = laptop
    bens = bens  cams = cams  e1 = e1  e2 = e2  e3 = e3  s1 = s1  s2 = s2  s3 = s3
    s4 = s4  s5 = s5  s6 = s6  whole = whole  again = again  third = third
    Procs = {p1, p2}
    People = {ana, ben, cam, gus}
    Groups = {flat}
    NoGroup = direct
    Sessions = {phone, bens}
    PersonOf <- MCPersonOf
    ExpenseIds = {e2, e3}
    PaymentIds = {s1, s2, s3}
    BatchIds = {whole}
    NoRow = NoRow  NoRequest = NoRequest  NoSheet = NoSheet
    NoBatch = NoBatch  NoClaim = NoClaim
    MaxCached = 1
    Draft <- MCDraft
    Bills <- JustTaxi
    PaymentDraft <- MCPaymentDraft
    BatchDraft <- MCBatchDraft
    Ops = {"pay", "batch", "deletePayment", "restorePayment", "look", "remove",
           "disband", "close",
           "join", "addGhost", "merge"}
    MaxRequests = 3
    Registered <- Unborn
    Seated <- AllButCam
    Founders <- MCFounders
    Contacts <- MCContacts
    Filed = {e2, e3}
SYMMETRY Handlers
SPECIFICATION Spec
INVARIANTS TypeOK IInv AnnouncedOnce BatchWhole
CHECK_DEADLOCK FALSE
