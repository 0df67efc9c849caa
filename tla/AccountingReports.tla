--------------------------- MODULE AccountingReports ---------------------------
(***************************************************************************)
(* The reports of accounting_pdf_reports and trial_balance_report: general  *)
(* ledger, trial balances, partner ledger, aged balance, journal audit,     *)
(* taxes and financial statements, each with queries of its own over the    *)
(* same journal items.                                                      *)
(*                                                                         *)
(* The framework that enters, posts and reconciles entries is not part of   *)
(* the repository.  There are one company and one currency, the accounts    *)
(* have codes that differ and are in the order of their codes.              *)
(***************************************************************************)
EXTENDS Sums, Sequences

CONSTANTS
    Accounts,    \* the codes of the chart of accounts
    TypeOf,      \* the account_type of each
    Partners,
    NoPartner,
    Kinds,       \* the entries that are made, with the dates they may have
    Sheet,       \* the nodes of a financial report, by number
    Lengths,     \* the lengths of the periods of the aged balance
    LastDate,    \* bound on the dates
    MaxEntries,  \* bound on the entries
    MaxResets,   \* bound on resets, cancellations and undone reconciliations
    NoDate

Dates == 1..LastDate
Reconcilable == {"asset_receivable", "liability_payable"}
KindRecord ==
    [journal : {"sale", "purchase", "bank", "general"}, term : Int,
     partner : Partners \cup {NoPartner}, dates : SUBSET Dates,
     lines : Seq([account : Accounts, amount : Int, tax : {"", "base", "tax"}])]

ASSUME ReportsAssumption ==
    /\ Accounts \subseteq Nat /\ IsFiniteSet(Accounts) /\ DOMAIN TypeOf = Accounts
    /\ NoPartner \notin Partners /\ NoDate \notin Dates
    /\ Kinds \subseteq KindRecord /\ IsFiniteSet(Kinds)
    /\ \A k \in Kinds : Total([i \in DOMAIN k.lines |-> k.lines[i].amount]) = 0
    /\ Lengths \subseteq Nat \ {0} /\ {LastDate, MaxEntries, MaxResets} \subseteq Nat

VARIABLES
    entries,   \* the records of account.move with their lines
    partials,  \* those of account.partial.reconcile
    resets     \* history: the number of edits

reportsVars == <<entries, partials, resets>>

ReportsInit == entries = <<>> /\ partials = {} /\ resets = 0

-----------------------------------------------------------------------------
(* Journal items. *)

Items == UNION {{e} \X DOMAIN entries[e].lines : e \in DOMAIN entries}

AccountOf(l) == entries[l[1]].lines[l[2]].account
Balance(l) == entries[l[1]].lines[l[2]].amount
Positive(n) == IF n > 0 THEN n ELSE 0
Debit(l) == Positive(Balance(l))
Credit(l) == Positive(-Balance(l))
DateOf(l) == entries[l[1]].date
Maturity(l) == entries[l[1]].maturity
Partner(l) == entries[l[1]].partner
State(l) == entries[l[1]].state

MaxDate(p) == IF DateOf(p.debit) > DateOf(p.credit) THEN DateOf(p.debit) ELSE DateOf(p.credit)
PartialsOf(l) == {p \in partials : l \in {p.debit, p.credit}}
Matched(S) == Total([p \in S |-> p.amount])
LeftOf(l) == Debit(l) + Credit(l) - Matched(PartialsOf(l))
Reconciled(l) == PartialsOf(l) # {} /\ LeftOf(l) = 0

\* full_reconcile_id: nothing is left of an item and of the items that it is
\* reconciled with, of those that they are reconciled with, and so on.
Ends(P) == UNION {{p.debit, p.credit} : p \in P}
FullyReconciled(l) ==
    \E M \in SUBSET Ends(partials) :
        l \in M /\ \A m \in M : Reconciled(m) /\ Ends(PartialsOf(m)) \subseteq M

-----------------------------------------------------------------------------
(* Accounting. *)

Enter ==
    /\ Len(entries) < MaxEntries
    /\ \E k \in Kinds : \E date \in k.dates :
        entries' = Append(entries, [journal |-> k.journal, lines |-> k.lines, date |-> date,
                                    maturity |-> date + k.term, partner |-> k.partner, state |-> "draft"])
    /\ UNCHANGED <<partials, resets>>

Set(e, state) == entries' = [entries EXCEPT ![e].state = state]
Undo == resets < MaxResets /\ resets' = resets + 1

PostEntry(e) == entries[e].state = "draft" /\ Set(e, "posted") /\ UNCHANGED <<partials, resets>>

CancelEntry(e) == Undo /\ entries[e].state = "draft" /\ Set(e, "cancel") /\ UNCHANGED partials

\* What is reconciled with an entry is no longer when it is reset to draft.
ResetEntry(e) ==
    /\ Undo /\ entries[e].state # "draft" /\ Set(e, "draft")
    /\ partials' = {p \in partials : e \notin {p.debit[1], p.credit[1]}}

\* Items of an account and a partner, of as much as is left of both.
Reconcile(d, c) ==
    /\ State(d) = "posted" /\ State(c) = "posted"
    /\ AccountOf(d) = AccountOf(c) /\ TypeOf[AccountOf(d)] \in Reconcilable /\ Partner(d) = Partner(c)
    /\ Balance(d) > 0 /\ Balance(c) < 0 /\ LeftOf(d) > 0 /\ LeftOf(c) > 0
    /\ partials' = partials \cup {[debit |-> d, credit |-> c, amount |-> Min({LeftOf(d), LeftOf(c)})]}
    /\ UNCHANGED <<entries, resets>>

Unreconcile(p) == Undo /\ partials' = partials \ {p} /\ UNCHANGED entries

ReportsNext ==
    \/ Enter
    \/ \E e \in DOMAIN entries : PostEntry(e) \/ CancelEntry(e) \/ ResetEntry(e)
    \/ \E d, c \in Items : Reconcile(d, c)
    \/ \E p \in partials : Unreconcile(p)

ReportsSpec == ReportsInit /\ [][ReportsNext]_reportsVars

-----------------------------------------------------------------------------
(* Queries.  A form has the dates and the target of a report.                 *)

Journals == {k.journal : k \in Kinds}

\* What _build_contexts makes of a form of all journals; strict_range is set with
\* a start date.
Form(from, to, target) == [from |-> from, to |-> to, target |-> target, initial |-> FALSE]

\* _query_get.
Query(form) ==
    {l \in Items :
        /\ State(l) # "cancel"
        /\ form.to # NoDate => DateOf(l) <= form.to
        /\ form.from # NoDate =>
            IF form.initial THEN DateOf(l) < form.from ELSE DateOf(l) >= form.from
        /\ form.target # "all" => State(l) = form.target}

Debits(S) == Total([l \in S |-> Debit(l)])
Credits(S) == Total([l \in S |-> Credit(l)])
Balances(S) == Total([l \in S |-> Balance(l)])
TotalsOf(S) == [debit |-> Debits(S), credit |-> Credits(S), balance |-> Debits(S) - Credits(S)]

OfAccount(a, S) == {l \in S : AccountOf(l) = a}

\* _get_accounts of the trial balance.
TrialBalance(form) ==
    LET S == Query(form) IN [a \in Accounts |-> TotalsOf(OfAccount(a, S))]

\* Items by date and entry, those of an entry as they come.
Precedes(l, m) ==
    \/ DateOf(l) < DateOf(m)
    \/ DateOf(l) = DateOf(m) /\ (l[1] < m[1] \/ (l[1] = m[1] /\ l[2] <= m[2]))
InOrder(S) == Arranged(S, [m \in S |-> {l \in S : Precedes(l, m)}])

\* Mutant: the day that the report starts with is in the initial balance also.
InitialThrough(form) == Query([form EXCEPT !.from = NoDate, !.to = form.from])

\* What the initial balances are of: all items before the report starts.
Initial(form) == Query([form EXCEPT !.to = NoDate, !.initial = TRUE])

\* The row of an item, with the balance of the rows before it and of its own.
LedgerRow(rows, l) ==
    [TotalsOf({l}) EXCEPT !.balance = @ + Total([i \in DOMAIN rows |-> rows[i].debit - rows[i].credit])]

\* _get_account_move_entry: the rows of an account, from the items before and in
\* the period.
LedgerRows(before, during) ==
    LET list == InOrder(during)
        rows[n \in 0..Len(list)] ==
            IF n = 0 THEN IF before = {} THEN <<>> ELSE <<TotalsOf(before)>>
            ELSE Append(rows[n - 1], LedgerRow(rows[n - 1], list[n]))
    IN rows[Len(list)]

\* What the rows of an account add up to; the balance is the one of the last.
LedgerTotals(rows) ==
    [debit |-> Total([i \in DOMAIN rows |-> rows[i].debit]),
     credit |-> Total([i \in DOMAIN rows |-> rows[i].credit]),
     balance |-> IF rows = <<>> THEN 0 ELSE rows[Len(rows)].balance]

GeneralLedger(form, withInitial) ==
    LET before == IF withInitial THEN Initial(form) ELSE {}
        during == Query(form)
    IN [a \in Accounts |-> LedgerTotals(LedgerRows(OfAccount(a, before), OfAccount(a, during)))]

-----------------------------------------------------------------------------
(* Journals and taxes. *)

\* A journal is queried like all of them.
OfJournal(j, S) == {l \in S : entries[l[1]].journal = j}

\* _sum_debit and _sum_credit of a journal.
JournalSum(S, j) == TotalsOf(OfJournal(j, S))

\* What a tax is taken of, and the tax.
Taxed(S) == {l \in S : entries[l[1]].lines[l[2]].tax = "base"}
TaxLines(S) == {l \in S : entries[l[1]].lines[l[2]].tax = "tax"}

\* Sales are credits.
Sign(j) == IF j = "sale" THEN -1 ELSE 1

\* _get_taxes of a journal.
JournalTaxes(S, j) ==
    [base |-> Sign(j) * Balances(Taxed(OfJournal(j, S))),
     tax |-> Sign(j) * Balances(TaxLines(OfJournal(j, S)))]

Abs(n) == IF n < 0 THEN -n ELSE n

\* _compute_from_amls of the tax report.
TaxReport(S) == [net |-> Abs(Balances(Taxed(S))), tax |-> Abs(Balances(TaxLines(S)))]

-----------------------------------------------------------------------------
(* Financial statements. *)

\* The accounts of a node that has some of its own.
NodeAccounts(node) ==
    IF node.type = "accounts" THEN node.accounts ELSE {a \in Accounts : TypeOf[a] \in node.types}

\* _compute_report_balance: a node has a value of its own, from its accounts, or
\* is the sum of its children, or another node again.
NodeValue(n, value, own) ==
    LET node == Sheet[n]
    IN CASE node.type \in {"accounts", "account_type"} -> own[n]
         [] node.type = "account_report" -> value[node.report]
         [] node.type = "sum" -> Total([c \in node.children |-> value[c]])

RolledUp(own) == LET value[n \in DOMAIN Sheet] == NodeValue(n, value, own) IN value

\* Mutant: sums add up what is below their children also.
ReportBalanceDeep(form) ==
    LET trial == TrialBalance(form)
        own == [n \in DOMAIN Sheet |-> Total([a \in NodeAccounts(Sheet[n]) |-> trial[a].balance])]
        value[n \in DOMAIN Sheet] ==
            LET node == Sheet[n]
                below == node.children \cup UNION {Sheet[c].children : c \in node.children}
            IN IF node.type = "sum" THEN Total([c \in below |-> value[c]]) ELSE NodeValue(n, value, own)
    IN value

ReportBalance(form) ==
    LET trial == TrialBalance(form)
    IN RolledUp([n \in DOMAIN Sheet |-> Total([a \in NodeAccounts(Sheet[n]) |-> trial[a].balance])])

-----------------------------------------------------------------------------
(* The trial balance of trial_balance_report: three lists in the order of the *)
(* codes, of which two are walked with a cursor.                              *)

\* The posted items in a range of dates by account and date, in the order of the
\* accounts.
KeyOf(l) == <<AccountOf(l), DateOf(l)>>
KeysUpTo(K) == [k \in K |-> {h \in K : h[1] < k[1] \/ (h[1] = k[1] /\ h[2] <= k[2])}]
GroupsOf(S) ==
    LET K == {KeyOf(l) : l \in S}
        keys == Arranged(K, KeysUpTo(K))
    IN [n \in DOMAIN keys |-> [code |-> keys[n][1], sum |-> TotalsOf({l \in S : KeyOf(l) = keys[n]})]]

PostedItems(from, to) == {l \in Items : State(l) = "posted" /\ DateOf(l) \in from..to}

\* Mutant: one date of an account is taken.
FirstAtCursor(list, cursor, code) ==
    IF cursor <= Len(list) /\ list[cursor].code = code THEN {cursor} ELSE {}

\* The groups of an account, if the cursor is at them.
AtCursor(list, cursor, code) ==
    {i \in cursor..Len(list) : \A k \in cursor..i : list[k].code = code}

\* The debits and credits of some groups.
SumOf(list, I) == [debit |-> Total([i \in I |-> list[i].sum.debit]),
                   credit |-> Total([i \in I |-> list[i].sum.credit])]

Row(a, init, filter) ==
    LET net == init.debit + filter.debit - init.credit - filter.credit
    IN [code |-> a, initD |-> init.debit, initC |-> init.credit,
        filterD |-> filter.debit, filterC |-> filter.credit,
        totalD |-> Positive(net), totalC |-> Positive(-net)]

\* One step of the walk: acc has the rows so far and the two cursors.
Merged(before, during, acc, a) ==
    [init |-> acc.init + Cardinality(AtCursor(before, acc.init, a)),
     filter |-> acc.filter + Cardinality(AtCursor(during, acc.filter, a)),
     rows |-> Append(acc.rows, Row(a, SumOf(before, AtCursor(before, acc.init, a)),
                                      SumOf(during, AtCursor(during, acc.filter, a))))]

Walk(before, during) ==
    LET A == {AccountOf(l) : l \in Items}
        codes == Arranged(A, [a \in A |-> {b \in A : b <= a}])
        walk[n \in 0..Len(codes)] ==
            IF n = 0 THEN [init |-> 1, filter |-> 1, rows |-> <<>>]
            ELSE Merged(before, during, walk[n - 1], codes[n])
    IN walk[Len(codes)].rows

\* account_trial_bl: the row of each account that has items, and what is added up.
AccountTrialBl(from, to) == Walk(GroupsOf(PostedItems(1, from - 1)), GroupsOf(PostedItems(from, to)))

-----------------------------------------------------------------------------
(* Partners. *)

OfTypes(types, S) == {l \in S : TypeOf[AccountOf(l)] \in types}

\* _lines and _sum_partner of the partner ledger, which may leave out what is
\* reconciled in full.
PartnerItems(form, types, withReconciled, partner) ==
    {l \in OfTypes(types, Query(form)) : /\ Partner(l) = partner
                                         /\ withReconciled \/ ~FullyReconciled(l)}

SumPartner(form, types, withReconciled, partner) ==
    Balances(PartnerItems(form, types, withReconciled, partner))

\* The partners that the ledger has pages for.
LedgerPartners(form, types, withReconciled) ==
    {p \in Partners : PartnerItems(form, types, withReconciled, p) # {}}

\* The periods of the aged balance, the one of not yet due items being 6: the
\* last dates of periods 5, 4, ... before date.
Period(maturity, date, length) ==
    IF maturity >= date THEN 6
    ELSE Max({i \in 1..5 : i = 1 \/ maturity >= date - (6 - i) * length})

\* Mutant: what was reconciled later is taken off also.
OpenNow(l, date) ==
    LET matched == Matched(PartialsOf(l))
    IN IF Balance(l) > 0 THEN Balance(l) - matched ELSE Balance(l) + matched

\* What is left of an item at a date.
OpenAt(l, date) ==
    LET matched == Matched({p \in PartialsOf(l) : MaxDate(p) <= date})
    IN IF Balance(l) > 0 THEN Balance(l) - matched ELSE Balance(l) + matched

AgedItems(date, target, types) ==
    {l \in OfTypes(types, Items) : /\ State(l) \in IF target = "posted" THEN {"posted"} ELSE {"draft", "posted"}
                                   /\ DateOf(l) <= date}

\* The partners with items that are open, or were at the date.
AgedPartners(date, target, types) ==
    {Partner(l) : l \in {m \in AgedItems(date, target, types) :
                            ~Reconciled(m) \/ \E p \in PartialsOf(m) : MaxDate(p) > date}}

\* _get_partner_move_lines, for the chosen partners or all: what each partner
\* owes by period; items without partner are in any report but an empty one.
AgedBalance(date, target, types, length, chosen) ==
    LET found == AgedPartners(date, target, types)
        of == IF chosen = {} THEN found \ {NoPartner} ELSE chosen
        shown == {l \in AgedItems(date, target, types) : of # {} /\ Partner(l) \in of \cup {NoPartner}}
    IN [p \in IF of = {} THEN {} ELSE found |->
            [i \in 1..6 |->
                LET S == {l \in shown : Partner(l) = p /\ Period(Maturity(l), date, length) = i}
                IN Total([l \in S |-> OpenAt(l, date)])]]

-----------------------------------------------------------------------------
(* A statement of all accounts: nodes are numbered from the root down, and each *)
(* account is in it once.                                                      *)
ASSUME SheetAssumption ==
    /\ Sheet # <<>>
    /\ Sheet \in Seq([type : {"accounts", "account_type", "account_report", "sum"},
                      accounts : SUBSET Accounts, types : SUBSET STRING, report : Nat, children : SUBSET Nat])
    /\ \A n \in DOMAIN Sheet :
        /\ Sheet[n].type = "account_report" => Sheet[n].report \in (n + 1)..Len(Sheet)
        /\ Sheet[n].type = "sum" => Sheet[n].children \subseteq (n + 1)..Len(Sheet)
    /\ \A a \in Accounts :
        RolledUp([n \in DOMAIN Sheet |-> IF a \in NodeAccounts(Sheet[n]) THEN 1 ELSE 0])[1] = 1

-----------------------------------------------------------------------------
(* Properties. *)

Targets == {"posted", "all"}

\* Whatever the dates, the general ledger ends with the balance that the trial
\* balance has at the end date when it begins with the initial balance, and with
\* the one of the period when it does not; the journals and their taxes add up to
\* the same amounts as the accounts and the tax report.
LedgersAgree ==
    LET Agree(form, trial, S, sums) ==
            /\ GeneralLedger(form, FALSE) = trial
            /\ form.from # NoDate =>
                    GeneralLedger(form, TRUE) = TrialBalance([form EXCEPT !.from = NoDate])
            /\ \A j \in Journals : sums[j].balance = 0
            /\ Total([j \in Journals |-> sums[j].debit]) = Total([a \in Accounts |-> trial[a].debit])
            /\ TaxReport(S).tax = Abs(Total([j \in Journals |-> Sign(j) * JournalTaxes(S, j).tax]))
        AgreeIn(form, S) == Agree(form, TrialBalance(form), S, [j \in Journals |-> JournalSum(S, j)])
    IN \A to \in Dates, target \in Targets : \A from \in 1..to \cup {NoDate} :
            AgreeIn(Form(from, to, target), Query(Form(from, to, target)))

\* A statement that has each account once comes to nothing in every period, its
\* accounts listed, taken by type or by reference to another report: no account is
\* counted twice or left out and every entry is in the period as a whole.
SheetBalances ==
    \A to \in Dates, target \in Targets : \A from \in 1..to \cup {NoDate} :
        ReportBalance(Form(from, to, target))[1] = 0

\* The merged lists agree with the accounts: each account has its items before and
\* in the period, and debit and credit of the totals are the same.
MergedAgrees ==
    LET Agree(rows, before, during) ==
            /\ \A i \in DOMAIN rows :
                /\ rows[i].initD = before[rows[i].code].debit /\ rows[i].initC = before[rows[i].code].credit
                /\ rows[i].filterD = during[rows[i].code].debit /\ rows[i].filterC = during[rows[i].code].credit
            /\ Total([i \in DOMAIN rows |-> rows[i].totalD]) = Total([i \in DOMAIN rows |-> rows[i].totalC])
    IN \A to \in Dates : \A from \in 1..to :
            Agree(AccountTrialBl(from, to),
                  TrialBalance([Form(from, NoDate, "posted") EXCEPT !.initial = TRUE]),
                  TrialBalance(Form(from, to, "posted")))

\* What the aged balance says of a partner at a date, over all periods, is what the
\* ledger of the partner comes to at that date, whatever was reconciled before and
\* after it and reset again; what is reconciled in full adds nothing to a ledger.
AgedAgrees ==
    \A date \in Dates, target \in Targets, length \in Lengths :
        LET Aged(chosen) == AgedBalance(date, target, Reconcilable, length, chosen)
            aged == Aged({})
            Owes(to, withReconciled, p) == SumPartner(Form(NoDate, to, target), Reconcilable, withReconciled, p)
        IN \A p \in Partners :
            /\ Owes(date, TRUE, p) = IF p \in DOMAIN aged THEN Total(aged[p]) ELSE 0
            /\ p \in DOMAIN aged => Aged({p})[p] = aged[p]
            /\ Owes(NoDate, FALSE, p) = Owes(NoDate, TRUE, p)
            /\ Owes(NoDate, FALSE, p) # 0 =>
                    p \in LedgerPartners(Form(NoDate, NoDate, target), Reconcilable, FALSE)
=============================================================================
