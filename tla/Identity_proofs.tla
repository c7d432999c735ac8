--------------------------- MODULE Identity_proofs ---------------------------
(***************************************************************************)
(* Theorems about the ways into an account of module Identity, for any     *)
(* accounts, devices, keys, codes and challenges.                          *)
(***************************************************************************)
EXTENDS Identity, TLAPS

CredentialRows == [key : Keys, owner : Accounts, kind : {"recovery", "passkey"}]
LinkRows       == [owner : Accounts \cup {Unset}, used : BOOLEAN]
Tickets        == Codes \cup Challenges
Kinds          == {"nothing", "mint", "register", "rotate", "delete", "claim", "passkey", "restore",
                   "remove"}
Places         == {"idle", "in", "found", "taken", "verified", "start", "drop"}
CallRows       == [does : Kinds, at : Places,
                   who : Accounts \cup {Unset}, by : Tickets \cup {Unset},
                   key : Keys \cup {Unset}]

IdentityTypeOK ==
    /\ credentials \subseteq CredentialRows
    /\ links \in [Codes -> LinkRows]
    /\ challenges \subseteq Challenges
    /\ call \in [Devices -> CallRows]
    /\ \A d \in Devices :
          /\ call[d].at = "idle" => call[d] = Idle
          /\ call[d].does = "claim" => call[d].by \in Codes
          /\ call[d].does \in {"passkey", "register"} /\ call[d].at = "found" =>
                call[d].by \in Challenges
          /\ call[d].does \in {"mint", "register", "rotate", "delete", "remove", "claim"} =>
                call[d].who \in Accounts
          /\ call[d].at \in {"verified", "start"} => call[d].who \in Accounts
          /\ call[d].at = "drop" => call[d].does = "remove" /\ call[d].key \in Keys

\* Spent: a code or a challenge that was made and lets nobody else in.
Spent(t) ==
    /\ t \in minted /\ t \notin challenges
    /\ t \in Codes => links[t].owner = Unset \/ links[t].used

\* The request of a device has the code or the challenge to itself.
Holds(d, t) == call[d].by = t /\ call[d].at \in {"taken", "verified", "start"}

\* Codes and challenges are made once, ...
MadeOnce ==
    /\ challenges \subseteq minted
    /\ \A c \in Codes : links[c].owner # Unset => c \in minted \ challenges

\* ... and whoever was let in by one, or is about to be, is the only one.
OneWinner ==
    \A t \in Tickets :
        /\ \A d \in Devices : Holds(d, t) => Spent(t)
        /\ \A d, e \in Devices : Holds(d, t) /\ Holds(e, t) => d = e
        /\ \A x \in let : x[1] = t => Spent(t) /\ \A d \in Devices : ~Holds(d, t)
        /\ \A x, y \in let : x[1] = t /\ y[1] = t => x = y

Lettings == \A x \in let : x[1] \in Tickets \cup {Unset}

\* Each key is one credential's, and one on its way out is no recovery key; every
\* account that is not deleted has one of those.
KeysApart ==
    /\ \A c \in credentials : c.key \in minted
    /\ \A b, c \in credentials : b.key = c.key => b = c
    /\ \A d \in Devices : call[d].at = "drop" =>
          /\ call[d].key \in minted
          /\ \A c \in credentials : c.key = call[d].key => c.kind = "passkey"
    /\ \A a \in Accounts : Live(a) =>
          \E c \in credentials : c.owner = a /\ c.kind = "recovery"

IdentityInv == IdentityTypeOK /\ MadeOnce /\ OneWinner /\ Lettings /\ KeysApart

-----------------------------------------------------------------------------

LEMMA IdleTyped == Idle \in CallRows
BY DEF Idle, CallRows, Kinds, Places

\* How the request of a device changes: it ends, begins, or moves on.
OnlyCall(d, c) == call'[d] = c /\ \A e \in Devices \ {d} : call'[e] = call[e]

LEMMA CallMoves ==
    ASSUME call \in [Devices -> CallRows], NEW d \in Devices, NEW c \in CallRows,
           call' = [call EXCEPT ![d] = c]
    PROVE  call' \in [Devices -> CallRows] /\ OnlyCall(d, c)
BY DEF OnlyCall

CallOK(c) ==
    /\ c \in CallRows
    /\ c.at = "idle" => c = Idle
    /\ c.does = "claim" => c.by \in Codes
    /\ c.does \in {"passkey", "register"} /\ c.at = "found" => c.by \in Challenges
    /\ c.does \in {"mint", "register", "rotate", "delete", "remove", "claim"} => c.who \in Accounts
    /\ c.at \in {"verified", "start"} => c.who \in Accounts
    /\ c.at = "drop" => c.does = "remove" /\ c.key \in Keys

RowsOK ==
    /\ credentials \subseteq CredentialRows
    /\ links \in [Codes -> LinkRows]
    /\ challenges \subseteq Challenges

LEMMA TypeParts ==
    IdentityTypeOK <=> RowsOK /\ call \in [Devices -> CallRows] /\ \A d \in Devices : CallOK(call[d])
BY DEF IdentityTypeOK, RowsOK, CallOK

LEMMA CallTypes ==
    ASSUME IdentityTypeOK, NEW d \in Devices, NEW c, CallOK(c), call' = [call EXCEPT ![d] = c]
    PROVE  /\ call' \in [Devices -> CallRows] /\ \A e \in Devices : CallOK(call'[e])
           /\ OnlyCall(d, c)
BY TypeParts DEF CallOK, OnlyCall

LEMMA SameCallTypes ==
    ASSUME IdentityTypeOK, call' = call
    PROVE  call' \in [Devices -> CallRows] /\ \A e \in Devices : CallOK(call'[e])
BY TypeParts

LEMMA IdleOK == CallOK(Idle)
BY IdleTyped DEF CallOK, Idle

LEMMA DoneTypes ==
    ASSUME IdentityTypeOK, NEW d \in Devices, Done(d)
    PROVE  /\ call' \in [Devices -> CallRows] /\ \A e \in Devices : CallOK(call'[e])
           /\ OnlyCall(d, Idle)
BY CallTypes, IdleOK DEF Done

\* The record that a request is after it has gone to a new place.
At(c, at) == [does |-> c.does, at |-> at, who |-> c.who, by |-> c.by, key |-> c.key]

LEMMA StepTypes ==
    ASSUME IdentityTypeOK, NEW d \in Devices, NEW at, StepsTo(d, at), CallOK(At(call[d], at))
    PROVE  /\ call' \in [Devices -> CallRows] /\ \A e \in Devices : CallOK(call'[e])
           /\ OnlyCall(d, At(call[d], at))
<1>1. [call[d] EXCEPT !.at = at] = At(call[d], at)
  BY DEF IdentityTypeOK, CallRows, At
<1>2. call' = [call EXCEPT ![d] = At(call[d], at)]
  BY <1>1 DEF StepsTo
<1> QED
  BY <1>2, CallTypes


LEMMA TypePartsNext ==
    ASSUME RowsOK', call' \in [Devices -> CallRows], \A d \in Devices : CallOK(call'[d])
    PROVE  IdentityTypeOK'
BY DEF IdentityTypeOK, RowsOK, CallOK

LEMMA Moves ==
    ASSUME IdentityTypeOK, NEW d \in Devices, NEW c, CallOK(c), call' = [call EXCEPT ![d] = c],
           RowsOK'
    PROVE  OnlyCall(d, c) /\ IdentityTypeOK'
BY CallTypes, TypePartsNext

LEMMA SameRows ==
    ASSUME IdentityTypeOK, UNCHANGED <<credentials, links, challenges>> PROVE RowsOK'
BY TypeParts DEF RowsOK

LEMMA InitIsTyped == IdentityInit => IdentityTypeOK
<1> SUFFICES ASSUME IdentityInit PROVE IdentityTypeOK
  OBVIOUS
<1> USE IdentityAssumption
<1>1. credentials \subseteq CredentialRows
  BY DEF IdentityInit, CredentialRows
<1>2. NoLink \in LinkRows
  BY DEF LinkRows, NoLink
<1>3. links \in [Codes -> LinkRows] /\ challenges \subseteq Challenges
  BY <1>2 DEF IdentityInit
<1>4. call \in [Devices -> CallRows] /\ \A d \in Devices : CallOK(call[d])
  BY IdleTyped, IdleOK DEF IdentityInit
<1> QED
  BY <1>1, <1>3, <1>4, TypeParts DEF RowsOK

LEMMA IdentityBegins == IdentityInit => IdentityInv
<1> SUFFICES ASSUME IdentityInit PROVE IdentityInv
  OBVIOUS
<1> USE IdentityAssumption
<1>1. IdentityTypeOK
  BY InitIsTyped
<1>2. \A d \in Devices : call[d].at = "idle"
  BY DEF IdentityInit, Idle
<1>3. \A c \in Codes : links[c].owner = Unset
  BY DEF IdentityInit, NoLink
<1>4. MadeOnce
  BY <1>3 DEF IdentityInit, MadeOnce
<1>5. OneWinner
  BY <1>2 DEF IdentityInit, OneWinner, Holds
<1>6. Lettings
  BY DEF IdentityInit, Lettings
<1>7. KeysApart
  <2>1. \A c \in credentials : c.key \in minted
    BY DEF IdentityInit
  <2>2. \A b, c \in credentials : b.key = c.key => b = c
    BY DEF IdentityInit
  <2>3. \A a \in Accounts : \E c \in credentials : c.owner = a /\ c.kind = "recovery"
    <3> TAKE a \in Accounts
    <3>1. [key |-> FirstKey[a], owner |-> a, kind |-> "recovery"] \in credentials
      BY DEF IdentityInit
    <3> QED
      BY <3>1
  <2> QED
    BY <2>1, <2>2, <2>3, <1>2 DEF KeysApart
<1> QED
  BY <1>1, <1>4, <1>5, <1>6, <1>7 DEF IdentityInv

-----------------------------------------------------------------------------
(* A request with some of its fields changed.                              *)

Req(does, at, who, by, key) ==
    [does |-> does, at |-> at, who |-> who, by |-> by, key |-> key]

Has(c, does, at, who, by, key) ==
    c \in CallRows /\ c.does = does /\ c.at = at /\ c.who = who /\ c.by = by /\ c.key = key

LEMMA HasAll ==
    ASSUME NEW c, NEW does, NEW at, NEW who, NEW by, NEW key, Has(c, does, at, who, by, key)
    PROVE  c = Req(does, at, who, by, key)
BY DEF Has, CallRows, Req

LEMMA Puts ==
    ASSUME NEW c \in CallRows
    PROVE  /\ \A does \in Kinds : Has([c EXCEPT !.does = does], does, c.at, c.who, c.by, c.key)
           /\ \A at \in Places : Has([c EXCEPT !.at = at], c.does, at, c.who, c.by, c.key)
           /\ \A who \in Accounts \cup {Unset} :
                 Has([c EXCEPT !.who = who], c.does, c.at, who, c.by, c.key)
           /\ \A by \in Tickets \cup {Unset} :
                 Has([c EXCEPT !.by = by], c.does, c.at, c.who, by, c.key)
           /\ \A key \in Keys \cup {Unset} :
                 Has([c EXCEPT !.key = key], c.does, c.at, c.who, c.by, key)
BY DEF Has, CallRows

LEMMA PutFound ==
    ASSUME NEW c \in CallRows, NEW at \in Places, NEW by \in Tickets \cup {Unset}
    PROVE  [c EXCEPT !.at = at, !.by = by] = Req(c.does, at, c.who, by, c.key)
<1>1. [c EXCEPT !.at = at, !.by = by]
         = [[c EXCEPT !.at = at] EXCEPT !.by = by]
  BY DEF CallRows
<1> DEFINE c1 == [c EXCEPT !.at = at]
<1>2. Has(c1, c.does, at, c.who, c.by, c.key)
  BY Puts DEF Has
<1> HIDE DEF c1
<1> DEFINE c2 == [c1 EXCEPT !.by = by]
<1>3. Has(c2, c.does, at, c.who, by, c.key)
  BY <1>2, Puts DEF Has
<1> HIDE DEF c2
<1>4. c2 = Req(c.does, at, c.who, by, c.key)
  BY <1>3, HasAll
<1> QED
  BY <1>1, <1>4 DEF c1, c2

LEMMA PutEnter ==
    ASSUME NEW c \in CallRows, NEW does \in Kinds, NEW at \in Places, NEW who \in Accounts \cup {Unset}
    PROVE  [c EXCEPT !.does = does, !.at = at, !.who = who] = Req(does, at, who, c.by, c.key)
<1>1. [c EXCEPT !.does = does, !.at = at, !.who = who]
         = [[[c EXCEPT !.does = does] EXCEPT !.at = at] EXCEPT !.who = who]
  BY DEF CallRows
<1> DEFINE c1 == [c EXCEPT !.does = does]
<1>2. Has(c1, does, c.at, c.who, c.by, c.key)
  BY Puts DEF Has
<1> HIDE DEF c1
<1> DEFINE c2 == [c1 EXCEPT !.at = at]
<1>3. Has(c2, does, at, c.who, c.by, c.key)
  BY <1>2, Puts DEF Has
<1> HIDE DEF c2
<1> DEFINE c3 == [c2 EXCEPT !.who = who]
<1>4. Has(c3, does, at, who, c.by, c.key)
  BY <1>3, Puts DEF Has
<1> HIDE DEF c3
<1>5. c3 = Req(does, at, who, c.by, c.key)
  BY <1>4, HasAll
<1> QED
  BY <1>1, <1>5 DEF c1, c2, c3

LEMMA PutClaim ==
    ASSUME NEW c \in CallRows, NEW does \in Kinds, NEW at \in Places, NEW who \in Accounts \cup {Unset}, NEW by \in Tickets \cup {Unset}
    PROVE  [c EXCEPT !.does = does, !.at = at, !.who = who, !.by = by] = Req(does, at, who, by, c.key)
<1>1. [c EXCEPT !.does = does, !.at = at, !.who = who, !.by = by]
         = [[[[c EXCEPT !.does = does] EXCEPT !.at = at] EXCEPT !.who = who] EXCEPT !.by = by]
  BY DEF CallRows
<1> DEFINE c1 == [c EXCEPT !.does = does]
<1>2. Has(c1, does, c.at, c.who, c.by, c.key)
  BY Puts DEF Has
<1> HIDE DEF c1
<1> DEFINE c2 == [c1 EXCEPT !.at = at]
<1>3. Has(c2, does, at, c.who, c.by, c.key)
  BY <1>2, Puts DEF Has
<1> HIDE DEF c2
<1> DEFINE c3 == [c2 EXCEPT !.who = who]
<1>4. Has(c3, does, at, who, c.by, c.key)
  BY <1>3, Puts DEF Has
<1> HIDE DEF c3
<1> DEFINE c4 == [c3 EXCEPT !.by = by]
<1>5. Has(c4, does, at, who, by, c.key)
  BY <1>4, Puts DEF Has
<1> HIDE DEF c4
<1>6. c4 = Req(does, at, who, by, c.key)
  BY <1>5, HasAll
<1> QED
  BY <1>1, <1>6 DEF c1, c2, c3, c4

LEMMA PutAnswer ==
    ASSUME NEW c \in CallRows, NEW does \in Kinds, NEW at \in Places, NEW by \in Tickets \cup {Unset}
    PROVE  [c EXCEPT !.does = does, !.at = at, !.by = by] = Req(does, at, c.who, by, c.key)
<1>1. [c EXCEPT !.does = does, !.at = at, !.by = by]
         = [[[c EXCEPT !.does = does] EXCEPT !.at = at] EXCEPT !.by = by]
  BY DEF CallRows
<1> DEFINE c1 == [c EXCEPT !.does = does]
<1>2. Has(c1, does, c.at, c.who, c.by, c.key)
  BY Puts DEF Has
<1> HIDE DEF c1
<1> DEFINE c2 == [c1 EXCEPT !.at = at]
<1>3. Has(c2, does, at, c.who, c.by, c.key)
  BY <1>2, Puts DEF Has
<1> HIDE DEF c2
<1> DEFINE c3 == [c2 EXCEPT !.by = by]
<1>4. Has(c3, does, at, c.who, by, c.key)
  BY <1>3, Puts DEF Has
<1> HIDE DEF c3
<1>5. c3 = Req(does, at, c.who, by, c.key)
  BY <1>4, HasAll
<1> QED
  BY <1>1, <1>5 DEF c1, c2, c3

LEMMA PutRestore ==
    ASSUME NEW c \in CallRows, NEW does \in Kinds, NEW at \in Places, NEW who \in Accounts \cup {Unset}, NEW key \in Keys \cup {Unset}
    PROVE  [c EXCEPT !.does = does, !.at = at, !.who = who, !.key = key] = Req(does, at, who, c.by, key)
<1>1. [c EXCEPT !.does = does, !.at = at, !.who = who, !.key = key]
         = [[[[c EXCEPT !.does = does] EXCEPT !.at = at] EXCEPT !.who = who] EXCEPT !.key = key]
  BY DEF CallRows
<1> DEFINE c1 == [c EXCEPT !.does = does]
<1>2. Has(c1, does, c.at, c.who, c.by, c.key)
  BY Puts DEF Has
<1> HIDE DEF c1
<1> DEFINE c2 == [c1 EXCEPT !.at = at]
<1>3. Has(c2, does, at, c.who, c.by, c.key)
  BY <1>2, Puts DEF Has
<1> HIDE DEF c2
<1> DEFINE c3 == [c2 EXCEPT !.who = who]
<1>4. Has(c3, does, at, who, c.by, c.key)
  BY <1>3, Puts DEF Has
<1> HIDE DEF c3
<1> DEFINE c4 == [c3 EXCEPT !.key = key]
<1>5. Has(c4, does, at, who, c.by, key)
  BY <1>4, Puts DEF Has
<1> HIDE DEF c4
<1>6. c4 = Req(does, at, who, c.by, key)
  BY <1>5, HasAll
<1> QED
  BY <1>1, <1>6 DEF c1, c2, c3, c4

LEMMA PutVerify ==
    ASSUME NEW c \in CallRows, NEW at \in Places, NEW who \in Accounts \cup {Unset}, NEW key \in Keys \cup {Unset}
    PROVE  [c EXCEPT !.at = at, !.who = who, !.key = key] = Req(c.does, at, who, c.by, key)
<1>1. [c EXCEPT !.at = at, !.who = who, !.key = key]
         = [[[c EXCEPT !.at = at] EXCEPT !.who = who] EXCEPT !.key = key]
  BY DEF CallRows
<1> DEFINE c1 == [c EXCEPT !.at = at]
<1>2. Has(c1, c.does, at, c.who, c.by, c.key)
  BY Puts DEF Has
<1> HIDE DEF c1
<1> DEFINE c2 == [c1 EXCEPT !.who = who]
<1>3. Has(c2, c.does, at, who, c.by, c.key)
  BY <1>2, Puts DEF Has
<1> HIDE DEF c2
<1> DEFINE c3 == [c2 EXCEPT !.key = key]
<1>4. Has(c3, c.does, at, who, c.by, key)
  BY <1>3, Puts DEF Has
<1> HIDE DEF c3
<1>5. c3 = Req(c.does, at, who, c.by, key)
  BY <1>4, HasAll
<1> QED
  BY <1>1, <1>5 DEF c1, c2, c3

-----------------------------------------------------------------------------
(* What each action does to the request of its device.                     *)

LEMMA Fields ==
    ASSUME NEW does, NEW at, NEW who, NEW by, NEW key
    PROVE  LET c == Req(does, at, who, by, key)
           IN  c.does = does /\ c.at = at /\ c.who = who /\ c.by = by /\ c.key = key
BY DEF Req

LEMMA CallFields ==
    ASSUME IdentityTypeOK, NEW d \in Devices
    PROVE  /\ CallOK(call[d])
           /\ call[d] = Req(call[d].does, call[d].at, call[d].who, call[d].by, call[d].key)
BY DEF IdentityTypeOK, CallOK, CallRows, Req

LEMMA IdleFields ==
    Idle.does = "nothing" /\ Idle.at = "idle" /\ Idle.who = Unset /\ Idle.by = Unset /\ Idle.key = Unset
BY DEF Idle

LEMMA EnterMoves ==
    ASSUME IdentityTypeOK, NEW d \in Devices, Enter(d)
    PROVE  \E c : CallOK(c) /\ c.at = "in" /\ OnlyCall(d, c) /\ IdentityTypeOK'
<1>1. PICK a \in Accounts, does \in {"mint", "register", "rotate", "delete"} :
         Begins(d, [Idle EXCEPT !.does = does, !.at = "in", !.who = a])
  BY DEF Enter
<1> DEFINE c == Req(does, "in", a, Unset, Unset)
<1>2. [Idle EXCEPT !.does = does, !.at = "in", !.who = a] = c
  <2>1. /\ does \in Kinds /\ "in" \in Places /\ a \in Accounts \cup {Unset}
    BY DEF Kinds, Places, Tickets, IdentityTypeOK, CredentialRows, LinkRows
  <2>2. [Idle EXCEPT !.does = does, !.at = "in", !.who = a]
        = Req(does, "in", a, Idle.by, Idle.key)
    BY <2>1, IdleTyped, PutEnter
  <2> QED
    BY <2>2, IdleFields
<1>3. CallOK(c) /\ c.at = "in"
  BY DEF CallOK, CallRows, Kinds, Places, Req
<1>4. call' = [call EXCEPT ![d] = c]
  BY <1>1, <1>2 DEF Begins
<1>5. RowsOK'
  BY SameRows DEF Enter
<1> HIDE DEF c
<1>6. OnlyCall(d, c) /\ IdentityTypeOK'
  BY <1>3, <1>4, <1>5, Moves
<1> QED
  BY <1>3, <1>6

LEMMA FindChallengeMoves ==
    ASSUME IdentityTypeOK, NEW d \in Devices, FindChallenge(d)
    PROVE  \E c : CallOK(c) /\ c.at = "found" /\ OnlyCall(d, c) /\ IdentityTypeOK'
<1>1. PICK x \in challenges : call' = [call EXCEPT ![d].at = "found", ![d].by = x]
  BY DEF FindChallenge
<1> DEFINE c == Req(call[d].does, "found", call[d].who, x, call[d].key)
<1>2. [call[d] EXCEPT !.at = "found", !.by = x] = c
  <2>1. call[d] \in CallRows
    BY DEF IdentityTypeOK
  <2>2. /\ "found" \in Places /\ x \in Tickets \cup {Unset}
    BY DEF Places, Tickets, IdentityTypeOK, CredentialRows
  <2> QED
    BY <2>1, <2>2, PutFound
<1>3. CallOK(c) /\ c.at = "found"
  BY CallFields DEF CallOK, CallRows, Kinds, Places, Req, FindChallenge, Calling, IdentityTypeOK, Tickets
<1>4. call' = [call EXCEPT ![d] = c]
  BY <1>1, <1>2
<1>5. RowsOK'
  BY SameRows DEF FindChallenge
<1> HIDE DEF c
<1>6. OnlyCall(d, c) /\ IdentityTypeOK'
  BY <1>3, <1>4, <1>5, Moves
<1> QED
  BY <1>3, <1>6

LEMMA ClaimCodeMoves ==
    ASSUME IdentityTypeOK, NEW d \in Devices, ClaimCode(d)
    PROVE  \E c : CallOK(c) /\ c.at = "found" /\ OnlyCall(d, c) /\ IdentityTypeOK'
<1>1. PICK x \in Codes :
         /\ links[x].owner # Unset
         /\ Begins(d, [Idle EXCEPT !.does = "claim", !.at = "found", !.who = links[x].owner, !.by = x])
  BY DEF ClaimCode
<1> DEFINE c == Req("claim", "found", links[x].owner, x, Unset)
<1>2. [Idle EXCEPT !.does = "claim", !.at = "found", !.who = links[x].owner, !.by = x] = c
  <2>1. /\ "claim" \in Kinds /\ "found" \in Places
          /\ links[x].owner \in Accounts \cup {Unset} /\ x \in Tickets \cup {Unset}
    BY DEF Kinds, Places, Tickets, IdentityTypeOK, CredentialRows, LinkRows
  <2>2. [Idle EXCEPT !.does = "claim", !.at = "found", !.who = links[x].owner, !.by = x]
        = Req("claim", "found", links[x].owner, x, Idle.key)
    BY <2>1, IdleTyped, PutClaim
  <2> QED
    BY <2>2, IdleFields
<1>3. links[x].owner \in Accounts
  BY <1>1 DEF IdentityTypeOK, LinkRows
<1>4. CallOK(c) /\ c.at = "found"
  BY <1>3 DEF CallOK, CallRows, Kinds, Places, Req, Tickets
<1>5. call' = [call EXCEPT ![d] = c]
  BY <1>1, <1>2 DEF Begins
<1>6. RowsOK'
  BY SameRows DEF ClaimCode
<1> HIDE DEF c
<1>7. OnlyCall(d, c) /\ IdentityTypeOK'
  BY <1>4, <1>5, <1>6, Moves
<1> QED
  BY <1>4, <1>7

LEMMA AnswerPasskeyMoves ==
    ASSUME IdentityTypeOK, NEW d \in Devices, AnswerPasskey(d)
    PROVE  \E c : CallOK(c) /\ c.at = "found" /\ OnlyCall(d, c) /\ IdentityTypeOK'
<1>1. PICK x \in challenges :
         Begins(d, [Idle EXCEPT !.does = "passkey", !.at = "found", !.by = x])
  BY DEF AnswerPasskey
<1> DEFINE c == Req("passkey", "found", Unset, x, Unset)
<1>2. [Idle EXCEPT !.does = "passkey", !.at = "found", !.by = x] = c
  <2>1. /\ "passkey" \in Kinds /\ "found" \in Places /\ x \in Tickets \cup {Unset}
    BY DEF Kinds, Places, Tickets, IdentityTypeOK, CredentialRows, LinkRows
  <2>2. [Idle EXCEPT !.does = "passkey", !.at = "found", !.by = x]
        = Req("passkey", "found", Idle.who, x, Idle.key)
    BY <2>1, IdleTyped, PutAnswer
  <2> QED
    BY <2>2, IdleFields
<1>3. CallOK(c) /\ c.at = "found"
  BY DEF CallOK, CallRows, Kinds, Places, Req, Tickets, IdentityTypeOK
<1>4. call' = [call EXCEPT ![d] = c]
  BY <1>1, <1>2 DEF Begins
<1>5. RowsOK'
  BY SameRows DEF AnswerPasskey
<1> HIDE DEF c
<1>6. OnlyCall(d, c) /\ IdentityTypeOK'
  BY <1>3, <1>4, <1>5, Moves
<1> QED
  BY <1>3, <1>6

LEMMA RestoreMoves ==
    ASSUME IdentityTypeOK, NEW d \in Devices, Restore(d)
    PROVE  \E c : CallOK(c) /\ c.at = "verified" /\ c.by = Unset /\ OnlyCall(d, c) /\ IdentityTypeOK'
<1>1. PICK o \in Accounts, k \in Keys :
         Begins(d, [Idle EXCEPT !.does = "restore", !.at = "verified", !.who = o, !.key = k])
  BY DEF Restore, IdentityTypeOK, CredentialRows
<1> DEFINE c == Req("restore", "verified", o, Unset, k)
<1>2. [Idle EXCEPT !.does = "restore", !.at = "verified", !.who = o, !.key = k] = c
  <2>1. /\ "restore" \in Kinds /\ "verified" \in Places
          /\ o \in Accounts \cup {Unset} /\ k \in Keys \cup {Unset}
    BY DEF Kinds, Places, Tickets, IdentityTypeOK, CredentialRows, LinkRows
  <2>2. \A who \in Accounts \cup {Unset}, key \in Keys \cup {Unset} :
           [Idle EXCEPT !.does = "restore", !.at = "verified", !.who = who, !.key = key]
           = Req("restore", "verified", who, Idle.by, key)
    BY <2>1, IdleTyped, PutRestore
  <2> QED
    BY <2>1, <2>2, IdleFields
<1>3. CallOK(c) /\ c.at = "verified" /\ c.by = Unset
  BY DEF CallOK, CallRows, Kinds, Places, Req
<1>4. call' = [call EXCEPT ![d] = c]
  BY <1>1, <1>2 DEF Begins
<1>5. RowsOK'
  BY SameRows DEF Restore
<1> HIDE DEF c
<1>6. OnlyCall(d, c) /\ IdentityTypeOK'
  BY <1>3, <1>4, <1>5, Moves
<1> QED
  BY <1>3, <1>6

LEMMA VerifyMoves ==
    ASSUME IdentityTypeOK, NEW d \in Devices, Verify(d)
    PROVE  \E c : /\ CallOK(c) /\ c.at = "verified" /\ c.by = call[d].by /\ OnlyCall(d, c)
                  /\ IdentityTypeOK'
<1>1. PICK o \in Accounts, k \in Keys :
         call' = [call EXCEPT ![d].at = "verified", ![d].who = o, ![d].key = k]
  BY DEF Verify, IdentityTypeOK, CredentialRows
<1> DEFINE c == Req(call[d].does, "verified", o, call[d].by, k)
<1>2. [call[d] EXCEPT !.at = "verified", !.who = o, !.key = k] = c
  <2>1. call[d] \in CallRows
    BY DEF IdentityTypeOK
  <2>2. /\ "verified" \in Places /\ o \in Accounts \cup {Unset} /\ k \in Keys \cup {Unset}
    BY DEF Places, Tickets, IdentityTypeOK, CredentialRows
  <2>3. \A key \in Keys \cup {Unset} :
           [call[d] EXCEPT !.at = "verified", !.who = o, !.key = key]
           = Req(call[d].does, "verified", o, call[d].by, key)
    BY <2>1, <2>2, PutVerify
  <2> QED
    BY <2>2, <2>3
<1>3. CallOK(c) /\ c.at = "verified" /\ c.by = call[d].by
  BY CallFields DEF CallOK, CallRows, Kinds, Places, Req, Verify, Calling
<1>4. call' = [call EXCEPT ![d] = c]
  BY <1>1, <1>2
<1>5. RowsOK'
  BY SameRows DEF Verify
<1> HIDE DEF c
<1>6. OnlyCall(d, c) /\ IdentityTypeOK'
  BY <1>3, <1>4, <1>5, Moves
<1> QED
  BY <1>3, <1>6

LEMMA DoneMoves ==
    ASSUME IdentityTypeOK, NEW d \in Devices, Done(d), RowsOK'
    PROVE  OnlyCall(d, Idle) /\ IdentityTypeOK'
BY IdleOK, Moves DEF Done

LEMMA StepMoves ==
    ASSUME IdentityTypeOK, NEW d \in Devices, NEW at, StepsTo(d, at), CallOK(At(call[d], at)), RowsOK'
    PROVE  OnlyCall(d, At(call[d], at)) /\ IdentityTypeOK'
BY StepTypes, TypePartsNext

\* A request at another place, of the same kind and with the same account.
LEMMA AtFields ==
    ASSUME IdentityTypeOK, NEW d \in Devices, NEW at \in {"taken", "start", "drop"}
    PROVE  LET c == At(call[d], at)
           IN  /\ c.does = call[d].does /\ c.at = at /\ c.who = call[d].who
               /\ c.by = call[d].by /\ c.key = call[d].key
               /\ c \in CallRows
<1>1. CallOK(call[d])
  BY CallFields
<1> QED
  BY <1>1 DEF At, CallOK, CallRows, Places

-----------------------------------------------------------------------------
(* What the steps that end, that begin and that only move on have alike:   *)
(* they hold no code or challenge that they did not hold before.           *)

NoNewHolder == \A e \in Devices, t \in Tickets : Holds(e, t)' => Holds(e, t)
NoNewDrop   == \A e \in Devices :
                   call'[e].at = "drop" => call[e].at = "drop" /\ call'[e].key = call[e].key

LEMMA Quiet ==
    ASSUME NEW d \in Devices, NEW c, OnlyCall(d, c), c.at # "drop",
           c.at \in {"taken", "verified", "start"} =>
              \/ c.by = Unset
              \/ c.by = call[d].by /\ call[d].at \in {"taken", "verified", "start"}
    PROVE  NoNewHolder /\ NoNewDrop
<1>1. Unset \notin Tickets
  BY IdentityAssumption DEF Tickets
<1>2. ASSUME NEW e \in Devices, NEW t \in Tickets, Holds(e, t)' PROVE Holds(e, t)
  <2>1. call'[e].by = t /\ call'[e].at \in {"taken", "verified", "start"}
    BY <1>2 DEF Holds
  <2>2. CASE e = d
    BY <1>1, <2>1, <2>2 DEF OnlyCall, Holds
  <2>3. CASE e # d
    BY <2>1, <2>3 DEF OnlyCall, Holds
  <2> QED
    BY <2>2, <2>3
<1>3. NoNewDrop
  BY DEF OnlyCall, NoNewDrop
<1> QED
  BY <1>2, <1>3 DEF NoNewHolder

LEMMA WinnerKept ==
    ASSUME OneWinner, NoNewHolder, let' = let, \A t \in Tickets : Spent(t) => Spent(t)'
    PROVE  OneWinner'
<1> SUFFICES ASSUME NEW t \in Tickets
             PROVE  /\ \A d \in Devices : Holds(d, t)' => Spent(t)'
                    /\ \A d, e \in Devices : Holds(d, t)' /\ Holds(e, t)' => d = e
                    /\ \A x \in let' : x[1] = t => Spent(t)' /\ \A d \in Devices : ~Holds(d, t)'
                    /\ \A x, y \in let' : x[1] = t /\ y[1] = t => x = y
  BY DEF OneWinner
<1>1. \A d \in Devices : Holds(d, t)' => Holds(d, t)
  BY DEF NoNewHolder
<1>2. Spent(t) => Spent(t)'
  OBVIOUS
<1>3. \A d \in Devices : Holds(d, t) => Spent(t)
  BY DEF OneWinner
<1>4. \A d, e \in Devices : Holds(d, t) /\ Holds(e, t) => d = e
  BY DEF OneWinner
<1>5. \A x \in let : x[1] = t => Spent(t) /\ \A d \in Devices : ~Holds(d, t)
  BY DEF OneWinner
<1>6. \A x, y \in let : x[1] = t /\ y[1] = t => x = y
  BY DEF OneWinner
<1> QED
  BY <1>1, <1>2, <1>3, <1>4, <1>5, <1>6

\* A code or a challenge that is spent by the step is the request's alone.
LEMMA WinnerTakes ==
    ASSUME OneWinner, NEW d \in Devices, NEW c, OnlyCall(d, c), c.by \in Tickets,
           ~Spent(c.by), Spent(c.by)', let' = let, \A t \in Tickets : Spent(t) => Spent(t)'
    PROVE  OneWinner'
<1>1. \A e \in Devices, t \in Tickets : Holds(e, t)' => Holds(e, t) \/ (e = d /\ t = c.by)
  BY DEF OnlyCall, Holds
<1>2. \A e \in Devices : ~Holds(e, c.by)
  BY DEF OneWinner
<1>3. \A x \in let : x[1] # c.by
  BY DEF OneWinner
<1> SUFFICES ASSUME NEW t \in Tickets
             PROVE  /\ \A e \in Devices : Holds(e, t)' => Spent(t)'
                    /\ \A e, f \in Devices : Holds(e, t)' /\ Holds(f, t)' => e = f
                    /\ \A x \in let' : x[1] = t => Spent(t)' /\ \A e \in Devices : ~Holds(e, t)'
                    /\ \A x, y \in let' : x[1] = t /\ y[1] = t => x = y
  BY DEF OneWinner
<1>4. CASE t = c.by
  BY <1>1, <1>2, <1>3, <1>4
<1>5. CASE t # c.by
  <2>1. \A e \in Devices : Holds(e, t)' => Holds(e, t)
    BY <1>1, <1>5
  <2>2. Spent(t) => Spent(t)'
    OBVIOUS
  <2>3. \A e \in Devices : Holds(e, t) => Spent(t)
    BY DEF OneWinner
  <2>4. \A e, f \in Devices : Holds(e, t) /\ Holds(f, t) => e = f
    BY DEF OneWinner
  <2>5. \A x \in let : x[1] = t => Spent(t) /\ \A e \in Devices : ~Holds(e, t)
    BY DEF OneWinner
  <2>6. \A x, y \in let : x[1] = t /\ y[1] = t => x = y
    BY DEF OneWinner
  <2> QED
    BY <2>1, <2>2, <2>3, <2>4, <2>5, <2>6
<1> QED
  BY <1>4, <1>5

\* Whoever is let in was the one that held what it was let in by.
LEMMA WinnerEnters ==
    ASSUME IdentityTypeOK, OneWinner, Lettings, NEW d \in Devices, OnlyCall(d, Idle),
           call[d].at \in {"taken", "start"}, let' = let \cup {<<call[d].by, d, call[d].who>>},
           \A t \in Tickets : Spent(t) => Spent(t)'
    PROVE  OneWinner' /\ Lettings'
<1> DEFINE new == <<call[d].by, d, call[d].who>>
<1>1. new[1] = call[d].by /\ let' = let \cup {new}
  OBVIOUS
<1> HIDE DEF new
<1>2. Lettings'
  BY <1>1 DEF Lettings, IdentityTypeOK, CallRows
<1>3. \A t \in Tickets : ~Holds(d, t)'
  BY DEF OnlyCall, Holds, Idle
<1>4. \A e \in Devices \ {d}, t \in Tickets : Holds(e, t)' => Holds(e, t)
  BY DEF OnlyCall, Holds
<1> SUFFICES ASSUME NEW t \in Tickets
             PROVE  /\ \A e \in Devices : Holds(e, t)' => Spent(t)'
                    /\ \A e, f \in Devices : Holds(e, t)' /\ Holds(f, t)' => e = f
                    /\ \A x \in let' : x[1] = t => Spent(t)' /\ \A e \in Devices : ~Holds(e, t)'
                    /\ \A x, y \in let' : x[1] = t /\ y[1] = t => x = y
  BY <1>2 DEF OneWinner
<1>5. \A e \in Devices : Holds(e, t)' => Holds(e, t) /\ e # d
  BY <1>3, <1>4
<1>6. Spent(t) => Spent(t)'
  OBVIOUS
<1>7. /\ \A e \in Devices : Holds(e, t) => Spent(t)
      /\ \A e, f \in Devices : Holds(e, t) /\ Holds(f, t) => e = f
  BY DEF OneWinner
<1>8. \A x \in let : x[1] = t => Spent(t) /\ \A e \in Devices : ~Holds(e, t)
  BY DEF OneWinner
<1>9. \A x, y \in let : x[1] = t /\ y[1] = t => x = y
  BY DEF OneWinner
<1>10. new[1] = t => Holds(d, t)
  BY <1>1 DEF Holds
<1>11. \A x \in let' : x[1] = t => Spent(t)' /\ \A e \in Devices : ~Holds(e, t)'
  BY <1>1, <1>5, <1>6, <1>7, <1>8, <1>10
<1>12. \A x, y \in let' : x[1] = t /\ y[1] = t => x = y
  BY <1>1, <1>8, <1>9, <1>10
<1> QED
  BY <1>5, <1>6, <1>7, <1>11, <1>12

LEMMA TicketsKept ==
    ASSUME MadeOnce, minted \subseteq minted', challenges' \subseteq challenges,
           \A c \in Codes : \/ links'[c] = links[c]
                            \/ links'[c].owner = Unset
                            \/ links'[c].owner = links[c].owner /\ links'[c].used
    PROVE  MadeOnce' /\ \A t \in Tickets : Spent(t) => Spent(t)'
<1>1. MadeOnce'
  BY DEF MadeOnce
<1>2. \A t \in Tickets : Spent(t) => Spent(t)'
  BY DEF Spent
<1> QED
  BY <1>1, <1>2

LEMMA KeysKept ==
    ASSUME KeysApart, UNCHANGED <<credentials, deletedAccounts>>, minted \subseteq minted', NoNewDrop
    PROVE  KeysApart'
<1>1. /\ \A c \in credentials' : c.key \in minted'
      /\ \A b, c \in credentials' : b.key = c.key => b = c
  BY DEF KeysApart
<1>2. ASSUME NEW d \in Devices, call'[d].at = "drop"
      PROVE  call'[d].key \in minted' /\ \A c \in credentials' : c.key = call'[d].key => c.kind = "passkey"
  BY <1>2 DEF KeysApart, NoNewDrop
<1>3. \A a \in Accounts : Live(a)' => \E c \in credentials' : c.owner = a /\ c.kind = "recovery"
  BY DEF KeysApart, Live
<1> QED
  BY <1>1, <1>2, <1>3 DEF KeysApart

-----------------------------------------------------------------------------
(* The actions, one by one.                                                *)

\* A step that changes nothing but its request, and quietly.
LEMMA QuietStep ==
    ASSUME IdentityInv, IdentityTypeOK', NoNewHolder, NoNewDrop,
           UNCHANGED <<deletedAccounts, credentials, links, challenges, minted, let>>
    PROVE  IdentityInv'
<1>1. MadeOnce' /\ \A t \in Tickets : Spent(t) => Spent(t)'
  BY TicketsKept DEF IdentityInv
<1>2. OneWinner'
  BY <1>1, WinnerKept DEF IdentityInv
<1>3. Lettings'
  BY DEF IdentityInv, Lettings
<1>4. KeysApart'
  BY KeysKept DEF IdentityInv
<1> QED
  BY <1>1, <1>2, <1>3, <1>4 DEF IdentityInv

LEMMA EnterStep ==
    ASSUME IdentityInv, NEW d \in Devices, Enter(d) PROVE IdentityInv'
<1>1. IdentityTypeOK
  BY DEF IdentityInv
<1>2. PICK c : c.at = "in" /\ OnlyCall(d, c) /\ IdentityTypeOK'
  BY <1>1, EnterMoves
<1>3. NoNewHolder /\ NoNewDrop
  BY <1>2, Quiet
<1> QED
  BY <1>2, <1>3, QuietStep DEF Enter

LEMMA FindChallengeStep ==
    ASSUME IdentityInv, NEW d \in Devices, FindChallenge(d) PROVE IdentityInv'
<1>1. IdentityTypeOK
  BY DEF IdentityInv
<1>2. PICK c : c.at = "found" /\ OnlyCall(d, c) /\ IdentityTypeOK'
  BY <1>1, FindChallengeMoves
<1>3. NoNewHolder /\ NoNewDrop
  BY <1>2, Quiet
<1> QED
  BY <1>2, <1>3, QuietStep DEF FindChallenge, Same

LEMMA ClaimCodeStep ==
    ASSUME IdentityInv, NEW d \in Devices, ClaimCode(d) PROVE IdentityInv'
<1>1. IdentityTypeOK
  BY DEF IdentityInv
<1>2. PICK c : c.at = "found" /\ OnlyCall(d, c) /\ IdentityTypeOK'
  BY <1>1, ClaimCodeMoves
<1>3. NoNewHolder /\ NoNewDrop
  BY <1>2, Quiet
<1> QED
  BY <1>2, <1>3, QuietStep DEF ClaimCode

LEMMA AnswerPasskeyStep ==
    ASSUME IdentityInv, NEW d \in Devices, AnswerPasskey(d) PROVE IdentityInv'
<1>1. IdentityTypeOK
  BY DEF IdentityInv
<1>2. PICK c : c.at = "found" /\ OnlyCall(d, c) /\ IdentityTypeOK'
  BY <1>1, AnswerPasskeyMoves
<1>3. NoNewHolder /\ NoNewDrop
  BY <1>2, Quiet
<1> QED
  BY <1>2, <1>3, QuietStep DEF AnswerPasskey

LEMMA RestoreStep ==
    ASSUME IdentityInv, NEW d \in Devices, Restore(d) PROVE IdentityInv'
<1>1. IdentityTypeOK
  BY DEF IdentityInv
<1>2. PICK c : c.at = "verified" /\ c.by = Unset /\ OnlyCall(d, c) /\ IdentityTypeOK'
  BY <1>1, RestoreMoves
<1>3. NoNewHolder /\ NoNewDrop
  BY <1>2, Quiet
<1> QED
  BY <1>2, <1>3, QuietStep DEF Restore

LEMMA VerifyStep ==
    ASSUME IdentityInv, NEW d \in Devices, Verify(d) PROVE IdentityInv'
<1>1. IdentityTypeOK
  BY DEF IdentityInv
<1>2. PICK c : c.at = "verified" /\ c.by = call[d].by /\ OnlyCall(d, c) /\ IdentityTypeOK'
  BY <1>1, VerifyMoves
<1>3. NoNewHolder /\ NoNewDrop
  BY <1>2, Quiet DEF Verify, Calling
<1> QED
  BY <1>2, <1>3, QuietStep DEF Verify, Same

LEMMA TouchStep ==
    ASSUME IdentityInv, NEW d \in Devices, Touch(d) PROVE IdentityInv'
<1>1. IdentityTypeOK /\ RowsOK'
  BY SameRows DEF IdentityInv, Touch
<1>2. CASE StepsTo(d, "start")
  <2> DEFINE c == At(call[d], "start")
  <2>1. c.at = "start" /\ c.by = call[d].by
    BY <1>1, AtFields
  <2>2. CallOK(c)
    BY <1>1, AtFields, CallFields DEF CallOK, Touch
  <2>3. OnlyCall(d, c) /\ IdentityTypeOK'
    BY <1>1, <1>2, <2>2, StepMoves
  <2> HIDE DEF c
  <2>4. NoNewHolder /\ NoNewDrop
    BY <2>1, <2>3, Quiet DEF Touch
  <2> QED
    BY <2>3, <2>4, QuietStep DEF Touch, Same
<1>3. CASE Done(d)
  <2>1. OnlyCall(d, Idle) /\ IdentityTypeOK'
    BY <1>1, <1>3, DoneMoves
  <2>2. NoNewHolder /\ NoNewDrop
    BY <2>1, IdleFields, Quiet
  <2> QED
    BY <2>1, <2>2, QuietStep DEF Touch, Same
<1> QED
  BY <1>2, <1>3 DEF Touch

LEMMA RequestFailsStep ==
    ASSUME IdentityInv, NEW d \in Devices, RequestFails(d) PROVE IdentityInv'
<1>1. IdentityTypeOK /\ RowsOK'
  BY SameRows DEF IdentityInv, RequestFails
<1>2. OnlyCall(d, Idle) /\ IdentityTypeOK'
  BY <1>1, DoneMoves DEF RequestFails
<1>3. NoNewHolder /\ NoNewDrop
  BY <1>2, IdleFields, Quiet
<1> QED
  BY <1>2, <1>3, QuietStep DEF RequestFails, Same

LEMMA RemoveAccessStep ==
    ASSUME IdentityInv, NEW d \in Devices, RemoveAccess(d) PROVE IdentityInv'
<1>1. IdentityTypeOK /\ RowsOK'
  BY SameRows DEF IdentityInv, RemoveAccess
<1>2. CASE UNCHANGED call
  <2>1. IdentityTypeOK'
    BY <1>1, <1>2, SameCallTypes, TypePartsNext
  <2>2. NoNewHolder /\ NoNewDrop
    BY <1>2 DEF NoNewHolder, NoNewDrop, Holds
  <2> QED
    BY <2>1, <2>2, QuietStep DEF RemoveAccess
<1>3. CASE \E a \in Accounts, k \in Keys :
              Begins(d, [Idle EXCEPT !.does = "remove", !.at = "in", !.who = a, !.key = k])
  <2>1. PICK a \in Accounts, k \in Keys :
            Begins(d, [Idle EXCEPT !.does = "remove", !.at = "in", !.who = a, !.key = k])
    BY <1>3
  <2> DEFINE c == Req("remove", "in", a, Unset, k)
  <2>2. [Idle EXCEPT !.does = "remove", !.at = "in", !.who = a, !.key = k] = c
    <3>1. /\ "remove" \in Kinds /\ "in" \in Places
          /\ a \in Accounts \cup {Unset} /\ k \in Keys \cup {Unset}
      BY DEF Kinds, Places
    <3>2. \A who \in Accounts \cup {Unset}, key \in Keys \cup {Unset} :
              [Idle EXCEPT !.does = "remove", !.at = "in", !.who = who, !.key = key]
              = Req("remove", "in", who, Idle.by, key)
      BY <3>1, IdleTyped, PutRestore
    <3> QED
      BY <3>1, <3>2, IdleFields
  <2>3. CallOK(c) /\ c.at = "in"
    BY DEF CallOK, CallRows, Kinds, Places, Req
  <2>4. call' = [call EXCEPT ![d] = c]
    BY <2>1, <2>2 DEF Begins
  <2> HIDE DEF c
  <2>5. OnlyCall(d, c) /\ IdentityTypeOK'
    BY <1>1, <2>3, <2>4, Moves
  <2>6. NoNewHolder /\ NoNewDrop
    BY <2>3, <2>5, Quiet
  <2> QED
    BY <2>5, <2>6, QuietStep DEF RemoveAccess
<1>4. \A x \in credentials : x.key \in Keys
  BY <1>1 DEF IdentityTypeOK, CredentialRows
<1> QED
  BY <1>2, <1>3, <1>4 DEF RemoveAccess

LEMMA ChallengeStep == ASSUME IdentityInv, Challenge PROVE IdentityInv'
<1>1. PICK c \in Fresh(Challenges) : minted' = minted \cup {c} /\ challenges' = challenges \cup {c}
  BY DEF Challenge
<1>2. c \in Challenges /\ c \notin minted
  BY DEF Fresh
<1>3. IdentityTypeOK /\ UNCHANGED <<deletedAccounts, credentials, links, let, call>>
  BY DEF IdentityInv, Challenge
<1>4. IdentityTypeOK'
  <2>1. RowsOK'
    BY <1>1, <1>2, <1>3, TypeParts DEF RowsOK
  <2> QED
    BY <1>3, <2>1, SameCallTypes, TypePartsNext
<1>5. MadeOnce'
  BY <1>1, <1>2, <1>3 DEF IdentityInv, MadeOnce
<1>6. \A t \in Tickets : Spent(t) => Spent(t)'
  BY <1>1, <1>2, <1>3 DEF Spent
<1>7. NoNewHolder /\ NoNewDrop
  BY <1>3 DEF NoNewHolder, NoNewDrop, Holds
<1>8. OneWinner'
  BY <1>3, <1>6, <1>7, WinnerKept DEF IdentityInv
<1>9. Lettings'
  BY <1>3 DEF IdentityInv, Lettings
<1>10. KeysApart'
  BY <1>1, <1>3, <1>7, KeysKept DEF IdentityInv
<1> QED
  BY <1>4, <1>5, <1>8, <1>9, <1>10 DEF IdentityInv

LEMMA MintStep ==
    ASSUME IdentityInv, NEW d \in Devices, Mint(d) PROVE IdentityInv'
<1>1. PICK c \in Fresh(Codes) :
         /\ minted' = minted \cup {c}
         /\ links' = [x \in Codes |->
               IF x = c THEN [owner |-> call[d].who, used |-> FALSE]
               ELSE IF links[x].owner = call[d].who /\ ~links[x].used THEN NoLink ELSE links[x]]
  BY DEF Mint
<1>2. c \in Codes /\ c \notin minted
  BY DEF Fresh
<1>3. IdentityTypeOK /\ UNCHANGED <<deletedAccounts, credentials, challenges, let>> /\ Done(d)
  BY DEF IdentityInv, Mint
<1>4. RowsOK'
  <2>1. [owner |-> call[d].who, used |-> FALSE] \in LinkRows /\ NoLink \in LinkRows
    BY <1>3 DEF LinkRows, NoLink, IdentityTypeOK, CallRows
  <2>2. links' \in [Codes -> LinkRows]
    BY <1>1, <1>3, <2>1 DEF IdentityTypeOK
  <2> QED
    BY <1>3, <2>2, TypeParts DEF RowsOK
<1>5. OnlyCall(d, Idle) /\ IdentityTypeOK'
  BY <1>3, <1>4, DoneMoves
<1>6. NoNewHolder /\ NoNewDrop
  BY <1>5, IdleFields, Quiet
<1>7. \A x \in Codes \ {c} : links'[x] = links[x] \/ links'[x].owner = Unset
  BY <1>1 DEF NoLink
<1>8. MadeOnce'
  <2>1. challenges' \subseteq minted'
    BY <1>1, <1>3 DEF IdentityInv, MadeOnce
  <2>2. ASSUME NEW x \in Codes, links'[x].owner # Unset PROVE x \in minted' \ challenges'
    <3>1. CASE x = c
      BY <1>1, <1>2, <1>3, <3>1 DEF IdentityInv, MadeOnce
    <3>2. CASE x # c
      BY <1>1, <1>3, <1>7, <2>2, <3>2 DEF IdentityInv, MadeOnce
    <3> QED
      BY <3>1, <3>2
  <2> QED
    BY <2>1, <2>2 DEF MadeOnce
<1>9. \A t \in Tickets : Spent(t) => Spent(t)'
  BY <1>1, <1>2, <1>3, <1>7 DEF Spent
<1>10. OneWinner'
  BY <1>3, <1>6, <1>9, WinnerKept DEF IdentityInv
<1>11. Lettings'
  BY <1>3 DEF IdentityInv, Lettings
<1>12. KeysApart'
  BY <1>1, <1>3, <1>6, KeysKept DEF IdentityInv
<1> QED
  BY <1>5, <1>8, <1>10, <1>11, <1>12 DEF IdentityInv

LEMMA SpendStep ==
    ASSUME IdentityInv, NEW d \in Devices, Spend(d) PROVE IdentityInv'
<1>1. /\ IdentityTypeOK /\ MadeOnce /\ OneWinner /\ Lettings /\ KeysApart
      /\ UNCHANGED <<deletedAccounts, credentials, challenges, minted, let>>
  BY DEF IdentityInv, Spend, Same
<1>2. call[d].by \in Codes /\ call[d].at = "found" /\ call[d].does = "claim"
  BY <1>1 DEF IdentityTypeOK, Spend, Calling
<1>3. CASE /\ StillUnused(call[d].by)
           /\ links' = [links EXCEPT ![call[d].by].used = TRUE] /\ StepsTo(d, "start")
  <2>0. PICK c, t : c = At(call[d], "start") /\ t = call[d].by
    OBVIOUS
  <2>1. c.by = t /\ c.at = "start"
    BY <1>1, <2>0, AtFields
  <2>2. CallOK(c)
    BY <1>1, <1>2, <2>0, AtFields, CallFields DEF CallOK
  <2>3. /\ links'[t].owner = links[t].owner /\ links'[t].used
        /\ \A x \in Codes \ {t} : links'[x] = links[x]
        /\ links' \in [Codes -> LinkRows]
    BY <1>1, <1>2, <1>3, <2>0 DEF IdentityTypeOK, LinkRows
  <2>4. RowsOK'
    BY <1>1, <2>3, TypeParts DEF RowsOK
  <2>5. OnlyCall(d, c) /\ IdentityTypeOK'
    BY <1>1, <1>3, <2>2, <2>4, <2>0, StepMoves
  <2>6. MadeOnce' /\ \A x \in Tickets : Spent(x) => Spent(x)'
    BY <1>1, <2>3, TicketsKept
  <2>7. t \in minted /\ t \notin challenges /\ links[t].owner # Unset /\ ~links[t].used
    BY <1>1, <1>2, <1>3, <2>0 DEF MadeOnce, StillUnused
  <2>8. t \in Tickets /\ ~Spent(t) /\ Spent(t)'
    BY <1>1, <1>2, <2>0, <2>3, <2>7 DEF Spent, Tickets
  <2>9. OneWinner'
    BY <1>1, <2>1, <2>5, <2>6, <2>8, WinnerTakes
  <2>10. NoNewDrop
    BY <2>1, <2>5 DEF OnlyCall, NoNewDrop
  <2>11. KeysApart' /\ Lettings'
    BY <1>1, <2>10, KeysKept DEF Lettings
  <2> QED
    BY <2>5, <2>6, <2>9, <2>11 DEF IdentityInv
<1>4. CASE Done(d) /\ UNCHANGED links
  <2>1. OnlyCall(d, Idle) /\ IdentityTypeOK'
    BY <1>1, <1>4, SameRows, DoneMoves
  <2>2. NoNewHolder /\ NoNewDrop
    BY <2>1, IdleFields, Quiet
  <2> QED
    BY <1>1, <1>4, <2>1, <2>2, QuietStep
<1> QED
  BY <1>3, <1>4 DEF Spend

LEMMA TakeChallengeStep ==
    ASSUME IdentityInv, NEW d \in Devices, TakeChallenge(d) PROVE IdentityInv'
<1>1. /\ IdentityTypeOK /\ MadeOnce /\ OneWinner /\ Lettings /\ KeysApart
      /\ UNCHANGED <<deletedAccounts, credentials, links, minted, let>>
      /\ challenges' = challenges \ {call[d].by}
  BY DEF IdentityInv, TakeChallenge, Same
<1>2. call[d].by \in Challenges /\ call[d].at = "found" /\ call[d].does \in {"passkey", "register"}
  BY <1>1 DEF IdentityTypeOK, TakeChallenge, Calling
<1>3. RowsOK'
  BY <1>1, TypeParts DEF RowsOK
<1>4. MadeOnce' /\ \A x \in Tickets : Spent(x) => Spent(x)'
  BY <1>1, TicketsKept
<1>5. CASE call[d].by \in challenges /\ StepsTo(d, "taken")
  <2>0. PICK c, t : c = At(call[d], "taken") /\ t = call[d].by
    OBVIOUS
  <2>1. c.by = t /\ c.at = "taken"
    BY <1>1, <2>0, AtFields
  <2>2. CallOK(c)
    BY <1>1, <1>2, <2>0, AtFields, CallFields DEF CallOK
  <2>3. OnlyCall(d, c) /\ IdentityTypeOK'
    BY <1>1, <1>3, <1>5, <2>2, <2>0, StepMoves
  <2>4. t \in minted /\ (t \in Codes => links[t].owner = Unset)
    BY <1>1, <1>5, <2>0 DEF MadeOnce
  <2>5. t \in Tickets /\ ~Spent(t) /\ Spent(t)'
    BY <1>1, <1>2, <1>5, <2>0, <2>4 DEF Spent, Tickets
  <2>6. OneWinner'
    BY <1>1, <1>4, <2>1, <2>3, <2>5, WinnerTakes
  <2>7. NoNewDrop
    BY <2>1, <2>3 DEF OnlyCall, NoNewDrop
  <2>8. KeysApart' /\ Lettings'
    BY <1>1, <2>7, KeysKept DEF Lettings
  <2> QED
    BY <1>4, <2>3, <2>6, <2>8 DEF IdentityInv
<1>6. CASE call[d].by \notin challenges /\ Done(d)
  <2>1. OnlyCall(d, Idle) /\ IdentityTypeOK'
    BY <1>1, <1>3, <1>6, DoneMoves
  <2>2. NoNewHolder /\ NoNewDrop
    BY <2>1, IdleFields, Quiet
  <2>3. challenges' = challenges
    BY <1>1, <1>6
  <2> QED
    BY <1>1, <2>1, <2>2, <2>3, QuietStep
<1> QED
  BY <1>5, <1>6 DEF TakeChallenge

LEMMA StartSessionStep ==
    ASSUME IdentityInv, NEW d \in Devices, StartSession(d) PROVE IdentityInv'
<1>1. /\ IdentityTypeOK /\ MadeOnce /\ OneWinner /\ Lettings /\ KeysApart
      /\ UNCHANGED <<deletedAccounts, credentials, links, challenges, minted>>
      /\ call[d].at = "start" /\ let' = let \cup {<<call[d].by, d, call[d].who>>}
  BY DEF IdentityInv, StartSession
<1>2. OnlyCall(d, Idle) /\ IdentityTypeOK'
  BY <1>1, SameRows, DoneMoves DEF StartSession
<1>3. NoNewHolder /\ NoNewDrop
  BY <1>2, IdleFields, Quiet
<1>4. MadeOnce' /\ \A x \in Tickets : Spent(x) => Spent(x)'
  BY <1>1, TicketsKept
<1>5. OneWinner' /\ Lettings'
  BY <1>1, <1>2, <1>4, WinnerEnters
<1>6. KeysApart'
  BY <1>1, <1>3, KeysKept
<1> QED
  BY <1>2, <1>4, <1>5, <1>6 DEF IdentityInv

LEMMA RegisterStep ==
    ASSUME IdentityInv, NEW d \in Devices, Register(d) PROVE IdentityInv'
<1>1. /\ IdentityTypeOK /\ MadeOnce /\ OneWinner /\ Lettings /\ KeysApart
      /\ UNCHANGED <<deletedAccounts, links, challenges>>
      /\ let' = let \cup {<<call[d].by, d, call[d].who>>} /\ Done(d)
      /\ call[d].does = "register" /\ call[d].at = "taken"
  BY DEF IdentityInv, Register, Calling
<1>2. PICK k \in Fresh(Keys) :
         /\ minted' = minted \cup {k}
         /\ credentials' = credentials
               \cup {[key |-> k, owner |-> call[d].who, kind |-> "passkey"]}
  BY DEF Register
<1> DEFINE new == [key |-> k, owner |-> call[d].who, kind |-> "passkey"]
<1>3. k \in Keys /\ k \notin minted /\ call[d].who \in Accounts
  BY <1>1 DEF Fresh, IdentityTypeOK
<1>4. new.key = k /\ new.kind = "passkey" /\ new \in CredentialRows
  BY <1>3 DEF CredentialRows
<1>5. credentials' = credentials \cup {new}
  BY <1>2
<1> HIDE DEF new
<1>6. RowsOK'
  BY <1>1, <1>4, <1>5, TypeParts DEF RowsOK
<1>7. OnlyCall(d, Idle) /\ IdentityTypeOK'
  BY <1>1, <1>6, DoneMoves
<1>8. NoNewHolder /\ NoNewDrop
  BY <1>7, IdleFields, Quiet
<1>9. MadeOnce' /\ \A x \in Tickets : Spent(x) => Spent(x)'
  BY <1>1, <1>2, TicketsKept
<1>10. OneWinner' /\ Lettings'
  BY <1>1, <1>7, <1>9, WinnerEnters
<1>11. KeysApart'
  <2>1. \A c \in credentials : c.key \in minted /\ c.key # k
    BY <1>1, <1>3 DEF KeysApart
  <2>2. \A c \in credentials' : c.key \in minted'
    BY <1>2, <1>4, <1>5, <2>1
  <2>3. \A b, c \in credentials' : b.key = c.key => b = c
    BY <1>1, <1>4, <1>5, <2>1 DEF KeysApart
  <2>4. ASSUME NEW e \in Devices, call'[e].at = "drop"
        PROVE  call'[e].key \in minted' /\ \A c \in credentials' : c.key = call'[e].key => c.kind = "passkey"
    BY <1>1, <1>2, <1>4, <1>5, <1>8, <2>4 DEF KeysApart, NoNewDrop
  <2>5. \A a \in Accounts : Live(a)' => \E c \in credentials' : c.owner = a /\ c.kind = "recovery"
    BY <1>1, <1>5 DEF KeysApart, Live
  <2> QED
    BY <2>2, <2>3, <2>4, <2>5 DEF KeysApart
<1> QED
  BY <1>7, <1>9, <1>10, <1>11 DEF IdentityInv

LEMMA RotateStep ==
    ASSUME IdentityInv, NEW d \in Devices, Rotate(d) PROVE IdentityInv'
<1>1. /\ IdentityTypeOK /\ MadeOnce /\ OneWinner /\ Lettings /\ KeysApart
      /\ UNCHANGED <<deletedAccounts, links, challenges, let>> /\ Done(d)
      /\ call[d].does = "rotate"
  BY DEF IdentityInv, Rotate, Calling
<1>2. PICK k \in Fresh(Keys) :
         /\ minted' = minted \cup {k}
         /\ credentials' =
               {c \in credentials : c.owner # call[d].who \/ c.kind # "recovery"}
               \cup {[key |-> k, owner |-> call[d].who, kind |-> "recovery"]}
  BY DEF Rotate
<1> DEFINE new == [key |-> k, owner |-> call[d].who, kind |-> "recovery"]
           kept == {c \in credentials : c.owner # call[d].who \/ c.kind # "recovery"}
<1>3. k \in Keys /\ k \notin minted /\ call[d].who \in Accounts
  BY <1>1 DEF Fresh, IdentityTypeOK
<1>4. /\ new.key = k /\ new.kind = "recovery" /\ new.owner = call[d].who
      /\ new \in CredentialRows
  BY <1>3 DEF CredentialRows
<1>5. credentials' = kept \cup {new} /\ kept \subseteq credentials
  BY <1>2
<1>6. \A c \in credentials : c.owner # call[d].who => c \in kept
  OBVIOUS
<1> HIDE DEF new, kept
<1>7. RowsOK'
  BY <1>1, <1>4, <1>5, TypeParts DEF RowsOK
<1>8. OnlyCall(d, Idle) /\ IdentityTypeOK'
  BY <1>1, <1>7, DoneMoves
<1>9. NoNewHolder /\ NoNewDrop
  BY <1>8, IdleFields, Quiet
<1>10. MadeOnce' /\ \A x \in Tickets : Spent(x) => Spent(x)'
  BY <1>1, <1>2, TicketsKept
<1>11. OneWinner' /\ Lettings'
  BY <1>1, <1>9, <1>10, WinnerKept DEF Lettings
<1>12. KeysApart'
  <2>1. \A c \in kept : c.key \in minted /\ c.key # k
    BY <1>1, <1>3, <1>5 DEF KeysApart
  <2>2. \A c \in credentials' : c.key \in minted'
    BY <1>2, <1>4, <1>5, <2>1
  <2>3. \A b, c \in kept : b.key = c.key => b = c
    BY <1>1, <1>5 DEF KeysApart
  <2>4. \A b, c \in credentials' : b.key = c.key => b = c
    BY <1>4, <1>5, <2>1, <2>3
  <2>5. ASSUME NEW e \in Devices, call'[e].at = "drop"
        PROVE  call'[e].key \in minted' /\ \A c \in credentials' : c.key = call'[e].key => c.kind = "passkey"
    <3>1. call'[e].key \in minted /\ \A c \in credentials : c.key = call'[e].key => c.kind = "passkey"
      BY <1>1, <1>9, <2>5 DEF KeysApart, NoNewDrop
    <3> QED
      BY <1>2, <1>3, <1>4, <1>5, <3>1
  <2>6. ASSUME NEW a \in Accounts, Live(a)'
        PROVE  \E c \in credentials' : c.owner = a /\ c.kind = "recovery"
    <3>1. CASE a = call[d].who
      BY <1>4, <1>5, <3>1
    <3>2. CASE a # call[d].who
      <4>1. PICK c \in credentials : c.owner = a /\ c.kind = "recovery"
        BY <1>1, <2>6 DEF KeysApart, Live
      <4> QED
        BY <1>5, <1>6, <3>2, <4>1
    <3> QED
      BY <3>1, <3>2
  <2> QED
    BY <2>2, <2>4, <2>5, <2>6 DEF KeysApart
<1> QED
  BY <1>8, <1>10, <1>11, <1>12 DEF IdentityInv

\* Some credentials go, none of them the recovery key of an account still there.
LEMMA KeysLeft ==
    ASSUME KeysApart, NoNewDrop, minted' = minted, credentials' \subseteq credentials,
           \A a \in Accounts : Live(a)' =>
              Live(a) /\ \A c \in credentials : c.owner = a /\ c.kind = "recovery" => c \in credentials'
    PROVE  KeysApart'
<1>1. \A b, c \in credentials' : b.key = c.key => b = c
  BY DEF KeysApart
<1>2. \A c \in credentials' : c.key \in minted'
  BY DEF KeysApart
<1>3. ASSUME NEW e \in Devices, call'[e].at = "drop"
      PROVE  call'[e].key \in minted' /\ \A c \in credentials' : c.key = call'[e].key => c.kind = "passkey"
  BY <1>3 DEF KeysApart, NoNewDrop
<1>4. ASSUME NEW a \in Accounts, Live(a)'
      PROVE  \E c \in credentials' : c.owner = a /\ c.kind = "recovery"
  BY <1>4 DEF KeysApart
<1> QED
  BY <1>1, <1>2, <1>3, <1>4 DEF KeysApart

LEMMA DeleteAccountStep ==
    ASSUME IdentityInv, NEW d \in Devices, DeleteAccount(d) PROVE IdentityInv'
<1>1. /\ IdentityTypeOK /\ MadeOnce /\ OneWinner /\ Lettings /\ KeysApart
      /\ UNCHANGED <<challenges, minted, let>> /\ Done(d)
      /\ deletedAccounts' = deletedAccounts \cup {call[d].who}
      /\ credentials' = {c \in credentials : c.owner # call[d].who}
      /\ links' = [x \in Codes |-> IF links[x].owner = call[d].who THEN NoLink ELSE links[x]]
  BY DEF IdentityInv, DeleteAccount, Same
<1>2. \A x \in Codes : links'[x] = links[x] \/ links'[x].owner = Unset
  BY <1>1 DEF NoLink
<1>3. RowsOK'
  <2>1. NoLink \in LinkRows
    BY DEF LinkRows, NoLink
  <2>2. links' \in [Codes -> LinkRows]
    BY <1>1, <2>1 DEF IdentityTypeOK
  <2> QED
    BY <1>1, <2>2, TypeParts DEF RowsOK
<1>4. OnlyCall(d, Idle) /\ IdentityTypeOK'
  BY <1>1, <1>3, DoneMoves
<1>5. NoNewHolder /\ NoNewDrop
  BY <1>4, IdleFields, Quiet
<1>6. MadeOnce' /\ \A x \in Tickets : Spent(x) => Spent(x)'
  BY <1>1, <1>2, TicketsKept
<1>7. OneWinner' /\ Lettings'
  BY <1>1, <1>5, <1>6, WinnerKept DEF Lettings
<1>8. KeysApart'
  BY <1>1, <1>5, KeysLeft DEF Live
<1> QED
  BY <1>4, <1>6, <1>7, <1>8 DEF IdentityInv

LEMMA DropCredentialStep ==
    ASSUME IdentityInv, NEW d \in Devices, DropCredential(d) PROVE IdentityInv'
<1>1. /\ IdentityTypeOK /\ MadeOnce /\ OneWinner /\ Lettings /\ KeysApart
      /\ UNCHANGED <<deletedAccounts, links, challenges, minted, let>> /\ Done(d)
      /\ credentials' = {c \in credentials : c.key # call[d].key} /\ call[d].at = "drop"
  BY DEF IdentityInv, DropCredential, Same, Calling
<1>2. RowsOK'
  BY <1>1, TypeParts DEF RowsOK
<1>3. OnlyCall(d, Idle) /\ IdentityTypeOK'
  BY <1>1, <1>2, DoneMoves
<1>4. NoNewHolder /\ NoNewDrop
  BY <1>3, IdleFields, Quiet
<1>5. MadeOnce' /\ \A x \in Tickets : Spent(x) => Spent(x)'
  BY <1>1, TicketsKept
<1>6. OneWinner' /\ Lettings'
  BY <1>1, <1>4, <1>5, WinnerKept DEF Lettings
<1>7. \A c \in credentials : c.kind = "recovery" => c \in credentials'
  BY <1>1 DEF KeysApart
<1>8. KeysApart'
  BY <1>1, <1>4, <1>7, KeysLeft DEF Live
<1> QED
  BY <1>3, <1>5, <1>6, <1>8 DEF IdentityInv

LEMMA CountOthersStep ==
    ASSUME IdentityInv, NEW d \in Devices, CountOthers(d) PROVE IdentityInv'
<1>1. /\ IdentityTypeOK /\ MadeOnce /\ OneWinner /\ Lettings /\ KeysApart
      /\ UNCHANGED <<deletedAccounts, credentials, links, challenges, minted, let>>
      /\ call[d].does = "remove" /\ call[d].at = "in"
  BY DEF IdentityInv, CountOthers, Same, Calling
<1>2. RowsOK'
  BY <1>1, SameRows
<1>3. CASE /\ StepsTo(d, "drop")
           /\ \E x \in credentials : x.key = call[d].key /\ x.kind # "recovery"
  <2> DEFINE c == At(call[d], "drop")
  <2>1. PICK x \in credentials : x.key = call[d].key /\ x.kind # "recovery"
    BY <1>3
  <2>2. c.at = "drop" /\ c.key = x.key /\ c.by = call[d].by
    BY <1>1, <2>1, AtFields
  <2>3. x.key \in Keys /\ x.kind = "passkey"
    BY <1>1, <2>1 DEF IdentityTypeOK, CredentialRows
  <2>4. CallOK(c)
    BY <1>1, <2>2, <2>3, AtFields, CallFields DEF CallOK
  <2>5. OnlyCall(d, c) /\ IdentityTypeOK'
    BY <1>1, <1>2, <1>3, <2>4, StepMoves
  <2> HIDE DEF c
  <2>6. NoNewHolder
    BY <2>2, <2>5 DEF NoNewHolder, OnlyCall, Holds
  <2>7. MadeOnce' /\ \A t \in Tickets : Spent(t) => Spent(t)'
    BY <1>1, TicketsKept
  <2>8. OneWinner' /\ Lettings'
    BY <1>1, <2>6, <2>7, WinnerKept DEF Lettings
  <2>9. KeysApart'
    <3>1. x.key \in minted /\ \A y \in credentials : y.key = x.key => y.kind = "passkey"
      BY <1>1, <2>3 DEF KeysApart
    <3>2. ASSUME NEW e \in Devices, call'[e].at = "drop"
          PROVE  call'[e].key \in minted' /\ \A y \in credentials' : y.key = call'[e].key => y.kind = "passkey"
      <4>1. CASE e = d
        BY <1>1, <2>2, <2>5, <3>1, <4>1 DEF OnlyCall
      <4>2. CASE e # d
        BY <1>1, <2>5, <3>2, <4>2 DEF OnlyCall, KeysApart
      <4> QED
        BY <4>1, <4>2
    <3>3. /\ \A y \in credentials' : y.key \in minted'
          /\ \A y, z \in credentials' : y.key = z.key => y = z
          /\ \A a \in Accounts : Live(a)' => \E y \in credentials' : y.owner = a /\ y.kind = "recovery"
      BY <1>1 DEF KeysApart, Live
    <3> QED
      BY <3>2, <3>3 DEF KeysApart
  <2> QED
    BY <2>5, <2>7, <2>8, <2>9 DEF IdentityInv
<1>4. CASE Done(d)
  <2>1. OnlyCall(d, Idle) /\ IdentityTypeOK'
    BY <1>1, <1>2, <1>4, DoneMoves
  <2>2. NoNewHolder /\ NoNewDrop
    BY <2>1, IdleFields, Quiet
  <2> QED
    BY <1>1, <2>1, <2>2, QuietStep
<1> QED
  BY <1>3, <1>4 DEF CountOthers, MayGo

-----------------------------------------------------------------------------

LEMMA IdentityStep == IdentityInv /\ [IdentityNext]_identityVars => IdentityInv'
<1> SUFFICES ASSUME IdentityInv, [IdentityNext]_identityVars PROVE IdentityInv'
  OBVIOUS
<1>1. CASE UNCHANGED identityVars
  <2>1. IdentityTypeOK'
    BY <1>1, SameRows, SameCallTypes, TypePartsNext DEF IdentityInv, identityVars
  <2>2. NoNewHolder /\ NoNewDrop
    BY <1>1 DEF NoNewHolder, NoNewDrop, Holds, identityVars
  <2> QED
    BY <1>1, <2>1, <2>2, QuietStep DEF identityVars
<1>2. CASE Challenge
  BY <1>2, ChallengeStep
<1>3. ASSUME NEW d \in Devices,
             \/ Enter(d) \/ Mint(d) \/ FindChallenge(d) \/ Register(d) \/ Rotate(d)
             \/ DeleteAccount(d) \/ ClaimCode(d) \/ Spend(d) \/ AnswerPasskey(d)
      PROVE  IdentityInv'
  BY <1>3, EnterStep, MintStep, FindChallengeStep, RegisterStep, RotateStep, DeleteAccountStep,
     ClaimCodeStep, SpendStep, AnswerPasskeyStep
<1>4. ASSUME NEW d \in Devices,
             \/ TakeChallenge(d) \/ Verify(d) \/ Restore(d) \/ Touch(d) \/ StartSession(d)
             \/ RequestFails(d) \/ RemoveAccess(d) \/ CountOthers(d) \/ DropCredential(d)
      PROVE  IdentityInv'
  BY <1>4, TakeChallengeStep, VerifyStep, RestoreStep, TouchStep, StartSessionStep,
     RequestFailsStep, RemoveAccessStep, CountOthersStep, DropCredentialStep
<1> QED
  BY <1>1, <1>2, <1>3, <1>4 DEF IdentityNext

LEMMA IdentityInvariant == IdentitySpec => []IdentityInv
BY IdentityBegins, IdentityStep, PTL DEF IdentitySpec

\* Whatever the requests of any number of devices do between each other's awaits
\* (api/identity), a code or a passkey challenge lets in at most one of them.
THEOREM CodesWorkOnce == IdentitySpec => []CodeWorksOnce
<1>1. IdentityInv => CodeWorksOnce
  <2> SUFFICES ASSUME IdentityInv, NEW x \in let, NEW y \in let, x[1] = y[1], x[1] # Unset
               PROVE  x = y
    BY DEF CodeWorksOnce
  <2>1. x[1] \in Tickets
    BY DEF IdentityInv, Lettings
  <2> QED
    BY <2>1 DEF IdentityInv, OneWinner
<1> QED
  BY <1>1, IdentityInvariant, PTL

\* However devices rotate, register and remove credentials at once, an account that
\* is not deleted keeps one: its recovery key, which is only ever replaced
\* (rotateSecret) and never picked for removal (devices/[id]/route.ts).
THEOREM KeepsAWayIn == IdentitySpec => []AlwaysAWayIn
<1>1. IdentityInv => AlwaysAWayIn
  BY DEF IdentityInv, KeysApart, AlwaysAWayIn
<1> QED
  BY <1>1, IdentityInvariant, PTL
=============================================================================
