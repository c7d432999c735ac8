------------------------------ MODULE Composer ------------------------------
(***************************************************************************)
(* One bill as the composer, the server and the screens compute it: typed  *)
(* in any of the modes, filed in the balances of a group, with payments    *)
(* after it; or a debt paid in another currency.                           *)
(***************************************************************************)
EXTENDS Figures

CONSTANTS
    Payers,             \* who may pay for it
    Totals, Entries,    \* what may be typed as its total, and for a person
    Receipts,           \* and as its lines: [amount, by]
    Foreign,            \* what it may come to in the group's own currency
    Owes, Pays, Scales, \* a debt, what is paid for it, and cents in a unit
    MaxPayments         \* bound

ASSUME ComposerAssumption ==
    /\ Payers \subseteq Party
    /\ Totals \subseteq Nat \ {0} /\ Entries \subseteq Int /\ Foreign \subseteq Nat \ {0}
    /\ Receipts \subseteq Seq([amount : Int, by : SUBSET Party])
    /\ Owes \subseteq Nat \ {0} /\ Pays \subseteq Nat \ {0} /\ Scales \subseteq Nat \ {0}
    /\ MaxPayments \in Nat

VARIABLES
    form,       \* the bill as composed
    sheet,      \* the group's balances
    posted,     \* the payments in it since the bill
    quote       \* a debt, and what a payment at the exact rate takes off it

composerVars == <<form, sheet, posted, quote>>

NoForm  == [total |-> 0, payers |-> {}, even |-> {}, ok |-> FALSE, shares |-> None(Party)]
NoQuote == [owed |-> 0, credited |-> 0]

ComposerInit ==
    form = NoForm /\ sheet = EmptySheet(Party) /\ posted = 0 /\ quote = NoQuote

Blank == form = NoForm /\ quote = NoQuote /\ sheet = EmptySheet(Party) /\ posted = 0

\* resolveSplit()
Composed(total, payers, even, result) ==
    form' = [total |-> total, payers |-> payers, even |-> even,
             ok |-> result.ok, shares |-> result.shares]

Compose ==
    /\ Blank
    /\ \E total \in Totals, payers \in (SUBSET Payers) \ {{}} :
          \/ \E included \in SUBSET Party :
                Composed(total, payers, included, EqualSplit(total, payers, included))
          \/ \E amounts \in [Party -> Entries] :
                Composed(total, payers, {}, ExactSplit(total, amounts))
          \/ \E percents \in [Party -> {0, 30, 50, 70, 100}] :
                Composed(total, payers, {}, PercentSplit(total, payers, percents))
          \/ \E weights \in [Party -> Entries] :
                Composed(total, payers, {}, SharesSplit(total, payers, weights))
          \/ \E included \in SUBSET Party, adjustments \in [Party -> Entries] :
                Composed(total, payers, {}, AdjustmentSplit(total, payers, included, adjustments))
          \/ \E included \in SUBSET Party, lines \in Receipts :
                Composed(total, payers, {}, ItemizedSplit(total, payers, included, lines))
    /\ UNCHANGED <<sheet, posted, quote>>

\* Saved, if the server finds it balanced, and taken into the sheet.
FileBill ==
    /\ form.ok
    /\ \E paid \in [form.payers -> 1..form.total], converted \in {form.total} \cup Foreign :
          /\ Balanced(form.total, paid, form.shares)
          /\ LET Sheet(both) == ExpenseSheet(both.paid, both.owed)
                 ofBill == Given(ConvertedBreakdown(converted, paid, form.shares), Sheet)
             IN  sheet' = Given(ofBill, LAMBDA bill : Together(sheet, bill))
    /\ form' = NoForm
    /\ UNCHANGED <<posted, quote>>

\* A payment between two of them: what the plan says, or another.
PostPayment ==
    /\ form = NoForm /\ sheet.spend > 0
    /\ posted < MaxPayments /\ posted' = posted + 1
    /\ \E from, to \in Party, amount \in Totals :
          /\ from # to
          /\ sheet' = Together(sheet, PaymentSheet(Party, from, to, amount))
    /\ UNCHANGED <<form, quote>>

\* The whole debt paid in another currency.
QuoteRate ==
    /\ Blank
    /\ \E owed \in Owes, paid \in Pays, owedScale, paidScale \in Scales :
          quote' = [owed |-> owed,
                    credited |-> Convert(paid, paidScale, owedScale,
                                         ExactRate(owed, owedScale, paid, paidScale))]
    /\ UNCHANGED <<form, sheet, posted>>

ComposerNext == Compose \/ FileBill \/ PostPayment \/ QuoteRate
ComposerSpec == ComposerInit /\ [][ComposerNext]_composerVars

-----------------------------------------------------------------------------

\* A split without an error shares out the whole total, in every mode; evenly, no
\* two of those in it are a cent apart unless the one with more comes first, and a
\* payer before one who is not ("Empty when the split is valid and safe to save",
\* split.ts).
SharesAddUp ==
    form.ok => /\ SumFunction(form.shares) = form.total
               /\ \A p, q \in form.even :
                     /\ form.shares[p] - form.shares[q] \in -1..1
                     /\ p \in form.payers /\ q \notin form.payers =>
                            form.shares[p] >= form.shares[q]

\* What a person is owed in all is what the others owe them one by one: "two
\* screens, two answers, from the same expense" does not happen (balances.ts).
ScreensAgree ==
    \A p \in Party :
        sheet.net[p] = SumFunction([xy \in Pairs(Party) |->
                          IF xy[2] = p THEN sheet.pairs[xy] ELSE IF xy[1] = p THEN -sheet.pairs[xy] ELSE 0])

\* Who pays as the plan says settles every debt, in fewer payments than there are
\* people in it (simplifyDebts, balances.ts).
SettlesUp ==
    LET plan  == SimplifyDebts(sheet.net)
        After(s, t) == Together(s, PaymentSheet(Party, t.from, t.to, t.amount))
        ended == FoldLeft(After, sheet, plan)
        open  == {p \in Party : sheet.net[p] # 0}
    IN  /\ ended.net = None(Party)
        /\ Len(plan) <= IF open = {} THEN 0 ELSE Cardinality(open) - 1

\* A payment of the whole debt in another currency takes off all of it and no more,
\* whatever the amounts and the currencies (exactRate, money.ts).
ExactRatePays == quote.credited = quote.owed
=============================================================================
