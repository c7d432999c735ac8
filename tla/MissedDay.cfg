\* Every frequency, at noon, in zones whose clocks change while it runs.
CONSTANTS
    Parts = {"calendar"}
    old = old  new = new
    first = first  second = second  third = third
    Servers = {old, new}
    Runners = {first, second}
    Home <- MCHome
    Crons = {}
    Kinds = {TRUE, FALSE}
    Nobody = Nobody  Gone = Gone
    Ttl = 4
    MaxRun = 2  MaxDelay = 2  MaxCrashes = 2
    Clients = {first, second, third}
    Length <- MCLength
    Transactions = {second, third}
    NoOne = NoOne
    MaxRestarts = 1
    Runs = {first, second}
    FirstDay = 1  Today0 = 1  Ends = {1}  LastDay = 2
    MaxPerRun = 2
    MaxEdits = 1  MaxTroubles = 1
    Party = {1, 2, 3, 4}
    Payers = {1, 2, 3}
    Totals = {4}
    Entries <- MCEntries
    Receipts <- MCReceipts
    Foreign = {1, 7}
    Owes = {1, 2, 7, 30}
    Pays = {1, 3, 9, 10, 29, 99, 120}
    Scales = {1, 10}
    FewestPlaces = 1  MostPlaces = 5
    MaxPayments = 1
    Crew = {1, 2, 3, 4, 5}
    ours = ours  theirs = theirs  other = other
    Mine = {ours}
    Theirs = {}
    Paid <- MCPaid
    Share <- MCShare
    MaxChanges = 2
    Zones <- MCZones
    Starts <- MCNoons
    FirstYear = 2028  MaxOccurrences = 3
    Intervals = {1, 2}
    Callers = {ann, bob, spare}
    Allowance = 2  Span = 2  MaxTracked = 2  MaxTime = 2  MaxReboots = 1
    ann = ann  bob = bob  phone = phone  tablet = tablet  mine = mine  spare = spare
    Senders = {first, second}
    Feed = {1, 2}  Fired = {2}
    Actor <- MCActor
    Involved <- MCInvolved
    Phones = {phone}  Owners = {ann, bob}
    Batch = 1  MaxSubscriptions = 1  MaxRows = 2  MaxStops = 1
    NoRow = NoRow
    Accounts = {ann}
    Keys = {mine, spare, other}
    Codes = {ours}  Challenges = {theirs}
    Devices = {phone, tablet}
    Unset = Unset
    FirstKey <- MCFirstKey
    FirstDevice <- MCFirstDevice
    MaxCalls = 4
    Tabs = {first, second}
    Changes = {ours, other}
    Needs <- MCNeeds
    MaxAttempts = 2  MaxRetries = 0  MaxCloses = 0
SPECIFICATION ServicesSpec
INVARIANTS
    NoDayMissed
CHECK_DEADLOCK FALSE
