\* Two tabs of one device, two changes, the second needing the first; one is
\* retried by hand, and one tab is closed in the middle of something.
CONSTANTS
    expense = expense  comment = comment
    Tabs = {tab1, tab2}
    Changes = {expense, comment}
    Needs <- MCNeeds
    Nobody = Nobody
    MaxAttempts = 2
    MaxRetries = 1  MaxCloses = 1
SPECIFICATION Spec
SYMMETRY Twins
INVARIANTS Kept IInv
PROPERTIES SentInOrder
CHECK_DEADLOCK FALSE
