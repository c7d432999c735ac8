------------------------------ MODULE Figures -------------------------------
(***************************************************************************)
(* The arithmetic of a bill, in whole cents: lib/split.ts, lib/balances.ts *)
(* and the rates of lib/money.ts. People are integers, in the order of     *)
(* their ids and of every list they appear in.                             *)
(***************************************************************************)
EXTENDS Integers, FiniteSets, SequencesExt, FiniteSetsExt, Functions

CONSTANTS
    Party,                      \* who is in it
    FewestPlaces, MostPlaces    \* of a rate

ASSUME FiguresAssumption ==
    /\ Party \subseteq Nat /\ IsFiniteSet(Party)
    /\ FewestPlaces \in Nat /\ MostPlaces \in Nat

Given(x, F(_)) == CHOOSE y \in {F(z) : z \in {x}} : y = y    \* F(x), which TLC works out once

-----------------------------------------------------------------------------
(* split.ts: whole cents of a total                                        *)

AtLeastZero(n) == IF n < 0 THEN 0 ELSE n
Size(n) == IF n < 0 THEN -n ELSE n
One(people) == [p \in people |-> 1]
None(people) == [p \in people |-> 0]

Weighed(weights) ==
    IF SumFunction(weights) <= 0 THEN One(DOMAIN weights)
    ELSE [p \in DOMAIN weights |-> AtLeastZero(weights[p])]

RoundedDown(over) == 0                  \* mutant: the cents left over are dropped
LeftOver(over) == over

\* apportion(): rounded down, and a cent more to those who lost most by it, a payer
\* before another, the first before the next.
Apportion(total, weights, payers) ==
    LET Shares(w, whole) ==
            LET base == [p \in DOMAIN w |-> (Size(total) * w[p]) \div whole]
                cut  == [p \in DOMAIN w |-> (Size(total) * w[p]) % whole]
                Before(p, q) ==
                    \/ cut[p] > cut[q]
                    \/ cut[p] = cut[q] /\ p \in payers /\ q \notin payers
                    \/ cut[p] = cut[q] /\ (p \in payers <=> q \in payers) /\ p < q
                over == LeftOver(Size(total) - SumFunction(base))
                Part(p) == base[p] + IF Cardinality({q \in DOMAIN w : Before(q, p)}) < over
                                     THEN 1 ELSE 0
            IN  [p \in DOMAIN w |-> (IF total < 0 THEN -1 ELSE 1) * Part(p)]
    IN  Given(Weighed(weights), LAMBDA w : Shares(w, SumFunction(w)))

Added(f, g) == [p \in DOMAIN f |-> f[p] + IF p \in DOMAIN g THEN g[p] ELSE 0]
Result(ok, shares) == [ok |-> ok, shares |-> shares]
Nothing == Result(FALSE, None(Party))

EqualSplit(total, payers, included) ==
    IF included = {} THEN Nothing
    ELSE Result(TRUE, Added(None(Party), Apportion(total, One(included), payers)))

ExactSplit(total, amounts) == Result(SumFunction(amounts) = total, amounts)

PercentSplit(total, payers, percents) ==
    Result(SumFunction(percents) = 100, Apportion(total, percents, payers))

SharesSplit(total, payers, typed) ==
    LET weights == [p \in Party |-> AtLeastZero(typed[p])]
    IN  IF SumFunction(weights) = 0 THEN Nothing
        ELSE Result(TRUE, Apportion(total, weights, payers))

\* Adjustments come off the top; the rest is shared evenly.
AdjustmentSplit(total, payers, included, adjustments) ==
    LET rest == total - SumFunction(adjustments)
    IN  IF included = {} THEN Nothing
        ELSE Result(rest >= 0, Added(adjustments, Apportion(rest, One(included), payers)))

ByItems(running) ==
    IF \E p \in DOMAIN running : running[p] > 0 THEN running ELSE One(DOMAIN running)

\* Each line by those who had it; the extras by what everyone had.
ItemizedSplit(total, payers, included, lines) ==
    LET Sharers(l) == IF l.by \cap included # {} THEN l.by \cap included ELSE included
        Claim(running, l) == Added(running, Apportion(l.amount, One(Sharers(l)), payers))
        WithExtras(running, extras) ==
            Result(extras >= 0,
                   Added(None(Party), IF extras = 0 THEN running
                                      ELSE Added(running, Apportion(extras, ByItems(running), payers))))
    IN  IF included = {} THEN Nothing
        ELSE Given(FoldLeft(Claim, None(included), lines),
                   LAMBDA running : WithExtras(running, total - SumFunction(running)))

\* validateExpenseBalance(), the server's, of what is to be saved.
Balanced(total, paid, shares) ==
    /\ total > 0 /\ SumFunction(paid) = total /\ SumFunction(shares) = total
    /\ \A p \in DOMAIN paid : paid[p] >= 0
    /\ \A p \in DOMAIN shares : shares[p] >= 0

\* convertedBreakdown(): both sides in the group's currency, to the same cent.
ConvertedBreakdown(converted, paid, shares) ==
    LET nonZero == {p \in DOMAIN shares : shares[p] # 0}
    IN  [paid |-> Apportion(converted, paid, {}),
         owed |-> Added(None(DOMAIN shares),
                        Apportion(converted, [p \in nonZero |-> shares[p]], {}))]

-----------------------------------------------------------------------------
(* balances.ts: who owes whom                                              *)

NetOf(paid, owed) == [p \in DOMAIN owed |-> (IF p \in DOMAIN paid THEN paid[p] ELSE 0) - owed[p]]

ByWhole(debt, remaining, credits) == Apportion(debt, credits, {})   \* mutant: by the original surplus
ByRemaining(debt, remaining, credits) == Apportion(debt, remaining, {})

\* expenseEdges(): every debtor in turn, to the creditors by what is left of each.
ExpenseEdges(net) ==
    LET creditors == {p \in DOMAIN net : net[p] > 0}
        debtors   == {p \in DOMAIN net : net[p] < 0}
        credits   == [c \in creditors |-> net[c]]
        Spent(acc, d, parts) ==
            [remaining |-> [c \in creditors |-> acc.remaining[c] - parts[c]],
             edges |-> [e \in DOMAIN acc.edges |->
                           IF e[1] = d THEN parts[e[2]] ELSE acc.edges[e]]]
        Spread(acc, d) ==
            IF SumFunction(acc.remaining) <= 0 THEN acc
            ELSE Given(ByRemaining(-net[d], acc.remaining, credits),
                       LAMBDA parts : Spent(acc, d, parts))
    IN  IF Cardinality(creditors) = 1
        THEN [e \in debtors \X creditors |-> -net[e[1]]]
        ELSE MapThenFoldSet(LAMBDA d, acc : Spread(acc, d),
                            [remaining |-> credits, edges |-> [e \in debtors \X creditors |-> 0]],
                            LAMBDA d : d, Max, debtors).edges

Pairs(people) == {xy \in people \X people : xy[1] < xy[2]}
EmptySheet(people) == [net |-> None(people), pairs |-> [xy \in Pairs(people) |-> 0], spend |-> 0]
Owed(edges, x, y) == IF <<x, y>> \in DOMAIN edges THEN edges[<<x, y>>] ELSE 0

\* accumulate(): an expense, or a payment, in a sheet of its own ...
ExpenseSheet(paid, owed) ==
    LET Sheet(net, edges) ==
            [net   |-> net,
             pairs |-> [xy \in Pairs(DOMAIN owed) |->
                           Owed(edges, xy[1], xy[2]) - Owed(edges, xy[2], xy[1])],
             spend |-> SumFunction(paid)]
        WithEdges(net) == Given(ExpenseEdges(net), LAMBDA edges : Sheet(net, edges))
    IN  Given(NetOf(paid, owed), WithEdges)

PaymentSheet(people, from, to, amount) ==
    [net   |-> [None(people) EXCEPT ![from] = amount, ![to] = -amount],
     pairs |-> [xy \in Pairs(people) |-> CASE xy = <<from, to>> -> -amount
                                           [] xy = <<to, from>> -> amount
                                           [] OTHER -> 0],
     spend |-> 0]

\* ... and in the one there is (applyEvent).
Together(s, t) ==
    [net |-> Added(s.net, t.net), pairs |-> Added(s.pairs, t.pairs), spend |-> s.spend + t.spend]

\* byAmountDesc: the first of them by what they owed, or were owed, at the start.
Biggest(net, people) ==
    CHOOSE p \in people : \A q \in people \ {p} :
        Size(net[p]) > Size(net[q]) \/ (Size(net[p]) = Size(net[q]) /\ p < q)

OnToNext(left, from, to, amount) == [left EXCEPT ![from] = 0, ![to] = 0]    \* mutant: both sides move on
PaidOff(left, from, to, amount) == [left EXCEPT ![from] = @ + amount, ![to] = @ - amount]

\* simplifyDebts(): the biggest debtor pays the biggest creditor, and so on, for as
\* long as there is one of each.
SimplifyDebts(net) ==
    LET Pay(acc, from, to, amount) ==
            [left |-> PaidOff(acc.left, from, to, amount),
             plan |-> Append(acc.plan, [from |-> from, to |-> to, amount |-> amount])]
        Transfer(acc) ==
            LET debtors   == {p \in DOMAIN net : acc.left[p] < 0}
                creditors == {p \in DOMAIN net : acc.left[p] > 0}
                from      == Biggest(net, debtors)
                to        == Biggest(net, creditors)
            IN  IF debtors = {} \/ creditors = {} THEN acc
                ELSE Pay(acc, from, to, Min({-acc.left[from], acc.left[to]}))
    IN  FoldSet(LAMBDA step, acc : Transfer(acc), [left |-> net, plan |-> <<>>], DOMAIN net).plan

-----------------------------------------------------------------------------
(* money.ts: rates, as a number of 1/10^places                             *)

TenTo[n \in Nat] == IF n = 0 THEN 1 ELSE 10 * TenTo[n - 1]

FixedPlaces(size) == FewestPlaces       \* mutant: the same for every amount
\* A place more than the amount has digits, between the fewest and the most.
Places(size) == Min({MostPlaces} \cup {p \in FewestPlaces..MostPlaces : 10 * size < TenTo[p]})

\* exactRate()
ExactRate(owed, owedScale, paid, paidScale) ==
    LET denominator == paid * owedScale
        places      == Places(denominator)
    IN  [places |-> places,
         scaled |-> (owed * paidScale * TenTo[places] + denominator \div 2) \div denominator]

\* convert(): rounded half up; a rate of nothing is one to one.
Convert(minor, fromScale, toScale, rate) ==
    LET scaled      == IF rate.scaled > 0 THEN rate.scaled ELSE TenTo[rate.places]
        denominator == fromScale * TenTo[rate.places]
    IN  (2 * minor * scaled * toScale + denominator) \div (2 * denominator)
=============================================================================
