------------------------------ MODULE Identity ------------------------------
(***************************************************************************)
(* Ways into an account, lib/identity.ts and api/identity: a recovery key, *)
(* passkeys, codes shown on a signed-in device, and the sessions that each *)
(* of them starts. A request is a chain of actions, from one await to the  *)
(* next that another could come between, and those of devices interleave.  *)
(***************************************************************************)
EXTENDS Naturals, FiniteSets

CONSTANTS
    Accounts,
    Keys,               \* secrets ever made: recovery keys and passkeys
    Codes, Challenges,  \* one-time codes (DeviceLink) and passkey challenges
    Devices,            \* each has at most one session
    Unset,
    FirstKey,           \* the recovery key each account begins with
    FirstDevice,        \* and the device it is made on
    MaxCalls            \* bound: requests

ASSUME IdentityAssumption ==
    /\ FirstKey \in [Accounts -> Keys] /\ FirstDevice \in [Accounts -> Devices]
    /\ \A a, b \in Accounts : a # b => FirstKey[a] # FirstKey[b] /\ FirstDevice[a] # FirstDevice[b]
    /\ Unset \notin Accounts \cup Keys \cup Codes \cup Challenges
    /\ MaxCalls \in Nat

VARIABLES
    deletedAccounts,    \* Person.deletedAt
    credentials,        \* rows: [key, owner, kind]
    links,              \* the row of each code: "none", or its owner and usedAt
    challenges,         \* rows of WebAuthnChallenge
    sessions,           \* rows: [device, owner]
    minted,             \* secrets, codes and challenges made so far
    let,                \* history: who was let in by which code or challenge
    call,               \* the request of each device, and where it is
    calls

identityVars == <<deletedAccounts, credentials, links, challenges, sessions, minted,
                  let, call, calls>>

NoLink == [owner |-> Unset, used |-> FALSE]
Idle   == [does |-> "nothing", at |-> "idle", who |-> Unset, by |-> Unset, key |-> Unset]

\* createIdentity(): every account has its recovery key, and one device.
IdentityInit ==
    /\ deletedAccounts = {}
    /\ credentials = {[key |-> FirstKey[a], owner |-> a, kind |-> "recovery"] : a \in Accounts}
    /\ sessions = {[device |-> FirstDevice[a], owner |-> a] : a \in Accounts}
    /\ minted = {FirstKey[a] : a \in Accounts}
    /\ links = [c \in Codes |-> NoLink]
    /\ challenges = {} /\ let = {}
    /\ call = [d \in Devices |-> Idle] /\ calls = 0

-----------------------------------------------------------------------------

Anybody(a) == TRUE              \* mutant: a deleted account is let in
Live(a) == a \notin deletedAccounts

\* getSession() lets the device in as this account.
SignedIn(d, a) == [device |-> d, owner |-> a] \in sessions /\ Live(a)

Fresh(S) == S \ minted

StepsTo(d, at) == call' = [call EXCEPT ![d].at = at]
Done(d) == call' = [call EXCEPT ![d] = Idle]
Same == UNCHANGED <<calls, minted, let>>

Begins(d, c) ==
    /\ call[d] = Idle /\ calls < MaxCalls
    /\ calls' = calls + 1
    /\ call' = [call EXCEPT ![d] = c]

Calling(d, does, at) == call[d].does = does /\ call[d].at = at

\* A request of a signed-in device: requireSession(), and then the rest.
Enter(d) ==
    /\ \E a \in Accounts, does \in {"mint", "register", "rotate", "delete"} :
          /\ SignedIn(d, a)
          /\ Begins(d, [Idle EXCEPT !.does = does, !.at = "in", !.who = a])
    /\ UNCHANGED <<deletedAccounts, credentials, links, challenges, sessions, minted, let>>

\* POST /link: the codes not yet used are retired with it.
Mint(d) ==
    /\ Calling(d, "mint", "in")
    /\ \E c \in Fresh(Codes) :
          /\ minted' = minted \cup {c}
          /\ links' = [x \in Codes |->
                IF x = c THEN [owner |-> call[d].who, used |-> FALSE]
                ELSE IF links[x].owner = call[d].who /\ ~links[x].used THEN NoLink ELSE links[x]]
    /\ Done(d)
    /\ UNCHANGED <<deletedAccounts, credentials, challenges, sessions, let, calls>>

\* GET /passkeys/*: a challenge, for anybody.
Challenge ==
    /\ \E c \in Fresh(Challenges) : minted' = minted \cup {c} /\ challenges' = challenges \cup {c}
    /\ UNCHANGED <<deletedAccounts, credentials, links, sessions, let, call, calls>>

\* POST /passkeys/register: the challenge of the device is taken (below), and the
\* passkey that answers it kept.
FindChallenge(d) ==
    /\ Calling(d, "register", "in")
    /\ \E c \in challenges : call' = [call EXCEPT ![d].at = "found", ![d].by = c]
    /\ UNCHANGED <<deletedAccounts, credentials, links, challenges, sessions>> /\ Same

Register(d) ==
    /\ Calling(d, "register", "taken")
    /\ \E k \in Fresh(Keys) :
          /\ minted' = minted \cup {k}
          /\ credentials' = credentials
                \cup {[key |-> k, owner |-> call[d].who, kind |-> "passkey"]}
    /\ let' = let \cup {<<call[d].by, d, call[d].who>>}
    /\ Done(d)
    /\ UNCHANGED <<deletedAccounts, links, challenges, sessions, calls>>

\* POST /recovery: rotateSecret(), in one transaction.
Rotate(d) ==
    /\ Calling(d, "rotate", "in")
    /\ \E k \in Fresh(Keys) :
          /\ minted' = minted \cup {k}
          /\ credentials' =
                {c \in credentials : c.owner # call[d].who \/ c.kind # "recovery"}
                \cup {[key |-> k, owner |-> call[d].who, kind |-> "recovery"]}
    /\ Done(d)
    /\ UNCHANGED <<deletedAccounts, links, challenges, sessions, let, calls>>

\* DELETE /account, for somebody settled up who shows a credential of theirs.
DeleteAccount(d) ==
    /\ Calling(d, "delete", "in")
    /\ \E c \in credentials : c.owner = call[d].who
    /\ deletedAccounts' = deletedAccounts \cup {call[d].who}
    /\ credentials' = {c \in credentials : c.owner # call[d].who}
    /\ sessions' = {s \in sessions : s.owner # call[d].who}
    /\ links' = [x \in Codes |-> IF links[x].owner = call[d].who THEN NoLink ELSE links[x]]
    /\ Done(d)
    /\ UNCHANGED <<challenges>> /\ Same

-----------------------------------------------------------------------------
(* Getting in.                                                             *)

\* POST /link/[code]/claim: the code as it is now, of an account not deleted ...
ClaimCode(d) ==
    /\ \E c \in Codes :
          /\ links[c].owner # Unset /\ ~links[c].used /\ Live(links[c].owner)
          /\ Begins(d, [Idle EXCEPT !.does = "claim", !.at = "found", !.who = links[c].owner,
                                    !.by = c])
    /\ UNCHANGED <<deletedAccounts, credentials, links, challenges, sessions, minted, let>>

AnyRow(c) == links[c].owner # Unset           \* mutant: by its id alone
StillUnused(c) == links[c].owner # Unset /\ ~links[c].used

\* ... marked as used, if it still is not, and is still there ...
Spend(d) ==
    /\ Calling(d, "claim", "found")
    /\ IF StillUnused(call[d].by)
       THEN links' = [links EXCEPT ![call[d].by].used = TRUE] /\ StepsTo(d, "start")
       ELSE Done(d) /\ UNCHANGED links
    /\ UNCHANGED <<deletedAccounts, credentials, challenges, sessions>> /\ Same

\* POST /passkeys/auth: takeChallenge() reads the row, then deletes it ...
AnswerPasskey(d) ==
    /\ \E c \in challenges :
          Begins(d, [Idle EXCEPT !.does = "passkey", !.at = "found", !.by = c])
    /\ UNCHANGED <<deletedAccounts, credentials, links, challenges, sessions, minted, let>>

TakeChallenge(d) ==
    /\ Calling(d, "passkey", "found") \/ Calling(d, "register", "found")
    /\ challenges' = challenges \ {call[d].by}
    /\ IF call[d].by \in challenges THEN StepsTo(d, "taken") ELSE Done(d)
    /\ UNCHANGED <<deletedAccounts, credentials, links, sessions>> /\ Same

\* ... the passkey is read with its owner ...
Verify(d) ==
    /\ Calling(d, "passkey", "taken")
    /\ \E c \in credentials :
          /\ c.kind = "passkey" /\ Live(c.owner)
          /\ call' = [call EXCEPT ![d].at = "verified", ![d].who = c.owner, ![d].key = c.key]
    /\ UNCHANGED <<deletedAccounts, credentials, links, challenges, sessions>> /\ Same

\* POST /restore: a recovery key is read with its owner ...
Restore(d) ==
    /\ \E c \in credentials :
          /\ c.kind = "recovery" /\ Live(c.owner)
          /\ Begins(d, [Idle EXCEPT !.does = "restore", !.at = "verified", !.who = c.owner,
                                    !.key = c.key])
    /\ UNCHANGED <<deletedAccounts, credentials, links, challenges, sessions, minted, let>>

\* ... and written back, which fails if it has been removed since.
Touch(d) ==
    /\ call[d].at = "verified"
    /\ IF \E c \in credentials : c.key = call[d].key THEN StepsTo(d, "start") ELSE Done(d)
    /\ UNCHANGED <<deletedAccounts, credentials, links, challenges, sessions>> /\ Same

\* startSession(), for whoever the request was verified as.
StartSession(d) ==
    /\ call[d].at = "start"
    /\ sessions' = {s \in sessions : s.device # d} \cup {[device |-> d, owner |-> call[d].who]}
    /\ let' = let \cup {<<call[d].by, d, call[d].who>>}
    /\ Done(d)
    /\ UNCHANGED <<deletedAccounts, credentials, links, challenges, minted, calls>>

\* A request that finds nothing, is refused, or is lost with the server.
RequestFails(d) ==
    /\ call[d] # Idle
    /\ Done(d)
    /\ UNCHANGED <<deletedAccounts, credentials, links, challenges, sessions>> /\ Same

-----------------------------------------------------------------------------
(* DELETE /devices/[id]                                                    *)

\* Of one's own: a session goes at once, a credential is looked at first ...
RemoveAccess(d) ==
    /\ \E a \in Accounts :
          /\ SignedIn(d, a)
          /\ \/ \E s \in sessions : s.owner = a /\ sessions' = sessions \ {s}
                /\ calls < MaxCalls /\ calls' = calls + 1 /\ UNCHANGED call
             \/ \E c \in credentials :
                   /\ c.owner = a
                   /\ Begins(d, [Idle EXCEPT !.does = "remove", !.at = "in", !.who = a,
                                             !.key = c.key])
                   /\ UNCHANGED sessions
    /\ UNCHANGED <<deletedAccounts, credentials, links, challenges, minted, let>>

AnyKind(kind) == TRUE           \* mutant: the recovery key too, if others remain
MayGo(kind) == kind # "recovery"

\* ... refused if it is the recovery key, or if nothing else remains ...
CountOthers(d) ==
    /\ Calling(d, "remove", "in")
    /\ LET own == {c \in credentials : c.owner = call[d].who}
       IN  IF \E c \in own : c.key = call[d].key /\ MayGo(c.kind) /\ own # {c}
           THEN StepsTo(d, "drop") ELSE Done(d)
    /\ UNCHANGED <<deletedAccounts, credentials, links, challenges, sessions>> /\ Same

\* ... and then deleted.
DropCredential(d) ==
    /\ Calling(d, "remove", "drop")
    /\ credentials' = {c \in credentials : c.key # call[d].key}
    /\ Done(d)
    /\ UNCHANGED <<deletedAccounts, links, challenges, sessions>> /\ Same

IdentityNext ==
    \/ Challenge
    \/ \E d \in Devices :
          \/ Enter(d) \/ Mint(d) \/ FindChallenge(d) \/ Register(d) \/ Rotate(d) \/ DeleteAccount(d)
          \/ ClaimCode(d) \/ Spend(d) \/ AnswerPasskey(d) \/ TakeChallenge(d) \/ Verify(d)
          \/ Restore(d) \/ Touch(d) \/ StartSession(d) \/ RequestFails(d)
          \/ RemoveAccess(d) \/ CountOthers(d) \/ DropCredential(d)

IdentitySpec == IdentityInit /\ [][IdentityNext]_identityVars

-----------------------------------------------------------------------------

\* A code shown on one device, and a challenge given to one, lets one device in,
\* however many answer it at once ("two devices racing on the same code cannot
\* both win", claim/route.ts).
CodeWorksOnce ==
    \A x, y \in let : x[1] = y[1] /\ x[1] # Unset => x = y

\* Whichever devices remove and replace what at once, an account that is not
\* deleted keeps a credential it can be entered with ("Refuses to remove the last
\* way in", devices/[id]/route.ts).
AlwaysAWayIn ==
    \A a \in Accounts : Live(a) => \E c \in credentials : c.owner = a
=============================================================================
