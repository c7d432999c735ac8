\* One handler at a time: what every endpoint, and any order of them, achieves.
CONSTANTS
    ana = ana  ben = ben  cam = cam  gus = gus  flat = flat  direct = direct  phone = phone  laptop = laptop
    bens = bens  cams = cams  e1 = e1  e2 = e2  e3 = e3  s1 = s1  s2 = s2  s3 = s3
    s4 = s4  s5 = s5  s6 = s6  whole = whole  again = again  third = third
    Procs = {p1}
    People = {ana, ben, gus}
    Groups = {flat}
    NoGroup = direct
    Sessions = {phone, bens}
    PersonOf <- MCPersonOf
    ExpenseIds = {e1, e3}
    PaymentIds = {s1}
    BatchIds = {}
    NoRow = NoRow  NoRequest = NoRequest  NoSheet = NoSheet
    NoBatch = NoBatch  NoClaim = NoClaim
    MaxCached = 1
    Draft <- MCDraft
    Bills <- MCBills
    PaymentDraft <- MCPaymentDraft
    BatchDraft <- MCBatchDraft
    Ops = {"edit", "deleteExpense", "restoreExpense", "pay",
           "deletePayment", "restorePayment", "remove", "join", "add", "merge", "look",
           "befriend", "unfriend", "joinFriend", "disband", "close"}
    MaxRequests = 4
    Registered <- MCRegistered
    Seated <- MCSeated
    Founders <- MCFounders
    Contacts = {}
    Filed = {e1, e3}
SPECIFICATION Spec
INVARIANTS BillsAddUp NoSelfPayment
PROPERTIES SettledToLeave RestoreReopensNobody MergeConserves
CHECK_DEADLOCK FALSE
