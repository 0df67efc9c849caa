----------------------------- MODULE AccountAsset -----------------------------
(***************************************************************************)
(* The fixed assets of om_account_asset: an asset, its board of planned    *)
(* depreciation lines, the accounting entries that are generated from the  *)
(* lines by the cron, a wizard or a click, and the closing of the asset.   *)
(*                                                                         *)
(* A transaction that touches a line writes its row, one that posts takes  *)
(* the number of its entry from the sequence of the journal, and one that  *)
(* edits an asset writes the row of the asset: of two that overlap on an   *)
(* asset one is run again, so each is a step.  Dates are months, amounts   *)
(* are units of the currency; the day of a date only matters in the first  *)
(* line pro rata temporis, whose share of a period is data of the plan.    *)
(***************************************************************************)
EXTENDS Sums, SequencesExt

CONSTANTS
    Assets,       \* the records of account.asset.asset, by number
    GroupEntries, \* the categories whose entries are grouped
    OpenAsset,    \* the categories whose assets and entries are confirmed at once
    Categories,   \* the categories of assets
    Plans,        \* how assets are depreciated
    Prices,       \* the pairs <<value, salvage_value>> of assets
    Changes,      \* what asset.modify may set in a plan
    MaxTime,      \* bound on the months
    MaxEdits,     \* bound on what users edit, modify, delete, book by hand and cancel
    NoMove

States == {"none", "draft", "open", "close"}
PlanRecord ==
    [category : Categories, method : {"linear", "degressive"}, factor : Int \X (Nat \ {0}),
     number : Nat, period : Nat \ {0}, time : {"number", "end"}, end : Int,
     prorata : BOOLEAN, share : Int \X (Nat \ {0}), start : Nat, lastDay : BOOLEAN]

\* _check_prorata.
CheckProrata(p) == p.prorata => p.time = "number"

ASSUME AssetAssumption ==
    /\ Assets \subseteq Nat /\ IsFiniteSet(Assets) /\ Prices \subseteq Int \X Int
    /\ Plans \subseteq PlanRecord /\ \A p \in Plans : CheckProrata(p)
    /\ \A c \in Changes : c.number \in Nat /\ c.period \in Nat \ {0} /\ c.end \in Int
    /\ MaxTime \in Nat /\ MaxEdits \in Nat /\ NoMove \notin Nat

VARIABLES
    asset,   \* account.asset.asset, each with its depreciation_line_ids
    moves,   \* the account.moves made for lines, by number
    now,     \* the month
    edits    \* history: the number of edits

assetVars == <<asset, moves, now, edits>>

NoPlan == [number |-> 0, period |-> 0, end |-> 0]
NoAsset == [state |-> "none", price |-> <<0, 0>>, plan |-> NoPlan, lines |-> <<>>]

AssetInit ==
    /\ asset = [a \in Assets |-> NoAsset]
    /\ moves = <<>>
    /\ now = 0
    /\ edits = 0

-----------------------------------------------------------------------------
(* The depreciation board. *)

\* move_check of a line.
IsLinked(line) == line.move # NoMove

LinkedIn(lines) == {i \in DOMAIN lines : IsLinked(lines[i])}

HasPlanned(r) == LinkedIn(r.lines) # DOMAIN r.lines

\* The lines with an entry, in their order.
Linked(lines) ==
    LET S == LinkedIn(lines)
        nth(n) == CHOOSE i \in S : Cardinality({j \in S : j <= i}) = n
    IN [n \in 1..Cardinality(S) |-> lines[nth(n)]]

Amount(lines, S) == Total([i \in S |-> lines[i].amount])

\* value_residual.
ValueResidual(r) == r.price[1] - Amount(r.lines, LinkedIn(r.lines)) - r.price[2]

\* currency_id.round of the quotient: half away from zero.
Round(num, den) ==
    IF num >= 0 THEN (2 * num + den) \div (2 * den) ELSE -((den - 2 * num) \div (2 * den))

\* The last day of the period that the asset is bought in: of the month, or of
\* the year when there is one depreciation a year.
PeriodEnd(month, period) ==
    IF period = 12 THEN Min({m \in month..(month + 11) : m % 12 = 11}) ELSE month

FirstDate(r) ==
    IF LinkedIn(r.lines) # {} THEN Max({r.lines[i].date : i \in LinkedIn(r.lines)}) + r.plan.period
    ELSE IF r.plan.lastDay THEN PeriodEnd(r.plan.start, r.plan.period) ELSE r.plan.start

\* _compute_board_undone_dotation_nb: the periods from the first date to the
\* end, all of the asset's when the plan says how many.
Undone(r) ==
    (IF r.plan.time = "number" THEN r.plan.number
     ELSE Cardinality({m \in FirstDate(r)..r.plan.end : (m - FirstDate(r)) % r.plan.period = 0}))
    + (IF r.plan.prorata THEN 1 ELSE 0)

Posted(r) == Cardinality(LinkedIn(r.lines))

\* Mutant: every line is an even part.
BoardAmountEven(p, seq, residual, todo, undone, posted) ==
    IF p.prorata THEN Round(todo, p.number) ELSE Round(todo, undone - posted)

\* _compute_board_amount and its rounding.
BoardAmount(p, seq, residual, todo, undone, posted) ==
    LET part == IF p.prorata /\ seq = 1 THEN p.share ELSE <<1, 1>>
    IN IF seq = undone THEN residual
       ELSE IF p.method = "degressive"
            THEN Round(residual * p.factor[1] * part[1], p.factor[2] * part[2])
       ELSE IF p.prorata THEN Round(todo * part[1], p.number * part[2])
       ELSE Round(todo, undone - posted)

\* The board with one line more, unless its amount is 0; the date moves on only
\* with a line.
WithLine(r, board, seq) ==
    LET amount == BoardAmount(r.plan, seq, board.residual, ValueResidual(r), Undone(r), Posted(r))
    IN IF amount = 0 THEN board
       ELSE [residual |-> board.residual - amount,
             date |-> board.date + r.plan.period,
             lines |-> Append(board.lines, [seq |-> seq, amount |-> amount,
                                            date |-> board.date, move |-> NoMove])]

\* The lines planned for the rest of the asset.
Planned(r) ==
    LET board[seq \in Posted(r)..Undone(r)] ==
            IF seq = Posted(r)
            THEN [residual |-> ValueResidual(r), date |-> FirstDate(r), lines |-> <<>>]
            ELSE WithLine(r, board[seq - 1], seq)
    IN IF ValueResidual(r) = 0 \/ Undone(r) <= Posted(r) THEN <<>> ELSE board[Undone(r)].lines

\* compute_depreciation_board: the lines without an entry are made again.
Board(r) == [r EXCEPT !.lines = Linked(r.lines) \o Planned(r)]

-----------------------------------------------------------------------------
(* Assets before their entries. *)

Edit == edits < MaxEdits /\ edits' = edits + 1

Save(a, r) == asset' = [asset EXCEPT ![a] = r] /\ UNCHANGED <<moves, now>>

New(state, price, plan) ==
    Board([state |-> state, price |-> price, plan |-> plan, lines |-> <<>>])

\* create, from the form; unlink gives the place of a deleted asset back.
Create(a) ==
    /\ asset[a].state = "none" /\ UNCHANGED edits
    /\ \E price \in Prices, plan \in Plans : Save(a, New("draft", price, plan))

\* asset_create when an invoice with a line of the category is posted.
AssetCreate(a) ==
    /\ asset[a].state = "none" /\ UNCHANGED edits
    /\ \E price \in Prices, plan \in Plans :
        Save(a, New(IF plan.category \in OpenAsset THEN "open" ELSE "draft", price, plan))

\* write of the fields that are editable in draft.
Write(a) ==
    /\ Edit /\ asset[a].state = "draft"
    /\ \E price \in Prices, plan \in Plans :
        Save(a, Board([asset[a] EXCEPT !.price = price, !.plan = plan]))

Unlink(a) ==
    /\ Edit /\ asset[a].state = "draft"
    /\ LinkedIn(asset[a].lines) = {}
    /\ Save(a, NoAsset)

Validate(a) ==
    /\ asset[a].state = "draft"
    /\ Save(a, [asset[a] EXCEPT !.state = "open"]) /\ UNCHANGED edits

\* The button is hidden once the asset has entries.
SetToDraft(a) ==
    /\ Edit /\ asset[a].state = "open"
    /\ LinkedIn(asset[a].lines) = {}
    /\ Save(a, [asset[a] EXCEPT !.state = "draft"])

\* AssetModify.modify: the wizard shows the number or the end.
Modify(a) ==
    /\ Edit /\ asset[a].state = "open"
    /\ \E c \in Changes :
        /\ c.time = asset[a].plan.time
        /\ Save(a, Board([asset[a] EXCEPT !.plan.number = c.number,
                          !.plan.period = c.period, !.plan.end = c.end]))

-----------------------------------------------------------------------------
(* Entries. *)

LinesOf(as, A) == UNION {{a} \X DOMAIN as[a].lines : a \in A}
Line(as, l) == as[l[1]].lines[l[2]]
AmountOf(as, S) == Total([l \in S |-> Line(as, l).amount])

\* Entries are made for batches of lines, one for each.  The amount of one is
\* the sum of its lines.
Entries(as, batches) ==
    moves \o [k \in DOMAIN batches |-> [state |-> "draft", amount |-> AmountOf(as, batches[k])]]

\* The assets when their lines in the batches are linked to the entries.
Link(as, batches) ==
    LET in(l) == {k \in DOMAIN batches : l \in batches[k]}
        entry(l) == Len(moves) + CHOOSE k \in in(l) : TRUE
    IN [a \in Assets |->
           [as[a] EXCEPT !.lines = [i \in DOMAIN as[a].lines |->
               IF in(<<a, i>>) = {} THEN as[a].lines[i]
               ELSE [as[a].lines[i] EXCEPT !.move = entry(<<a, i>>)]]]]

\* create_move: an entry for each line, in their order.
Before(l, S) == {k \in S : k[1] < l[1] \/ (k[1] = l[1] /\ k[2] <= l[2])}
Each(S) == [n \in 1..Cardinality(S) |-> {l \in S : Cardinality(Before(l, S)) = n}]

\* create_grouped_move: an entry for all the lines of a category, if there are any.
Grouped(sets) == SetToSeq(sets \ {{}})

HasLineIn(r, M) == \E i \in DOMAIN r.lines : r.lines[i].move \in M

\* Mutant: an asset is closed with its last line.
PostLast(as, mv, M) ==
    /\ asset' = [a \in Assets |->
                    IF HasLineIn(as[a], M) /\ IsLinked(Last(as[a].lines))
                    THEN [as[a] EXCEPT !.state = "close"] ELSE as[a]]
    /\ moves' = [m \in DOMAIN mv |-> IF m \in M THEN [mv[m] EXCEPT !.state = "posted"] ELSE mv[m]]

\* AccountMove.post: post_lines_and_close_asset closes the assets of the lines
\* that have nothing left to depreciate.
PostEntries(as, mv, M) ==
    /\ asset' = [a \in Assets |->
                    IF HasLineIn(as[a], M) /\ ValueResidual(as[a]) = 0
                    THEN [as[a] EXCEPT !.state = "close"] ELSE as[a]]
    /\ moves' = [m \in DOMAIN mv |-> IF m \in M THEN [mv[m] EXCEPT !.state = "posted"] ELSE mv[m]]

\* Entries for lines one by one and for lines in groups.  The former are posted
\* in categories that confirm at once, the latter whatever the category says.
Book(each, grouped) ==
    LET as == Link(asset, each \o grouped)
        first == Len(moves) + 1
        single == first..(Len(moves) + Len(each))
        atOnce == {m \in single : \E a \in Assets : HasLineIn(as[a], {m})
                                                   /\ as[a].plan.category \in OpenAsset}
        mv == Entries(asset, each \o grouped)
    IN PostEntries(as, mv, (first..Len(mv) \ single) \cup atOnce)

\* A click on the toggler of a line of a running asset.
CreateMove(a) ==
    /\ Edit /\ asset[a].state = "open"
    /\ \E l \in LinesOf(asset, {a}) : ~IsLinked(Line(asset, l)) /\ Book(<<{l}>>, <<>>)
    /\ UNCHANGED now

\* Mutant: the search forgets move_check.
DueAgain(A, date) == {l \in LinesOf(asset, A) : Line(asset, l).date <= date}

\* The lines that _compute_entries finds.
Due(A, date) ==
    {l \in LinesOf(asset, A) : Line(asset, l).date <= date /\ ~IsLinked(Line(asset, l))}

\* compute_generated_entries: the assets of ungrouped categories, then each
\* grouped category.
GenerateEntries(date) ==
    LET open == {a \in Assets : asset[a].state = "open"}
        in(c) == {a \in open : asset[a].plan.category = c}
        single == {a \in open : asset[a].plan.category \notin GroupEntries}
    IN /\ Due(open, date) # {}
       /\ Book(Each(Due(single, date)), Grouped({Due(in(c), date) : c \in GroupEntries}))
       /\ UNCHANGED now

CronGenerateEntries == GenerateEntries(now) /\ UNCHANGED edits

\* The wizard asks for the date.
AssetCompute == Edit /\ \E date \in 0..MaxTime : GenerateEntries(date)

\* _get_disposal_moves: the rest of the value in one line, with a draft entry.
SetToClose(a) ==
    LET r == asset[a]
        seq == Posted(r) + 1
        last == [seq |-> seq, amount |-> ValueResidual(r), date |-> now, move |-> NoMove]
        sold == [r EXCEPT !.lines = Append(Linked(r.lines), last), !.plan.end = now, !.plan.number = seq]
        as == [asset EXCEPT ![a] = sold]
    IN /\ Edit /\ r.state = "open"
       /\ HasPlanned(r)
       /\ PostEntries(Link(as, <<{<<a, seq>>}>>), Entries(as, <<{<<a, seq>>}>>), {})
       /\ UNCHANGED now

\* Mutant: posting by hand does not look at the assets.
PostMoveOnly(m) ==
    /\ moves[m].state = "draft"
    /\ moves' = [moves EXCEPT ![m].state = "posted"]
    /\ UNCHANGED <<asset, now, edits>>

PostMove(m) ==
    /\ moves[m].state = "draft"
    /\ PostEntries(asset, moves, {m})
    /\ UNCHANGED <<now, edits>>

SetMove(m, from, to) ==
    /\ moves[m].state \in from
    /\ moves' = [moves EXCEPT ![m].state = to]
    /\ UNCHANGED <<asset, now>>

\* button_draft and button_cancel of an entry: its lines stay linked to it.
ButtonDraft(m) == SetMove(m, {"posted", "cancel"}, "draft") /\ Edit
ButtonCancel(m) == SetMove(m, {"draft"}, "cancel") /\ Edit

NextMonth == now < MaxTime /\ now' = now + 1 /\ UNCHANGED <<asset, moves, edits>>

AssetNext ==
    \/ \E a \in Assets : \/ Create(a) \/ AssetCreate(a) \/ Write(a) \/ Unlink(a)
                         \/ Validate(a) \/ SetToDraft(a) \/ Modify(a)
                         \/ CreateMove(a) \/ SetToClose(a)
    \/ CronGenerateEntries \/ AssetCompute
    \/ \E m \in DOMAIN moves : PostMove(m) \/ ButtonDraft(m) \/ ButtonCancel(m)
    \/ NextMonth

AssetSpec == AssetInit /\ [][AssetNext]_assetVars

-----------------------------------------------------------------------------
(* Properties. *)

\* While lines are planned, the board depreciates the whole value of the asset
\* and no more: what edits, disposals, entries out of order and the rounding of
\* _compute_board_amount leave over is in the last line.
BoardConserves ==
    \A a \in Assets :
        LET r == asset[a]
        IN HasPlanned(r) => Amount(r.lines, DOMAIN r.lines) = r.price[1] - r.price[2]

\* Accounting has each depreciation once: an entry is of the amount of the
\* lines that are linked to it, so that no line is booked in two.
BookedOnce ==
    \A m \in DOMAIN moves :
        moves[m].amount = AmountOf(asset, {l \in LinesOf(asset, Assets) : Line(asset, l).move = m})

\* A closed asset is depreciated to its salvage value, and the lines that it
\* still plans, if rounding left any, cancel each other out.
ClosedIsDepreciated ==
    \A a \in Assets :
        LET r == asset[a]
        IN r.state = "close" =>
            /\ ValueResidual(r) = 0
            /\ Amount(r.lines, DOMAIN r.lines) = r.price[1] - r.price[2]

\* An asset is open only as long as something will close it: a line that the
\* cron will book or an entry that somebody will post.  What can leave it open
\* for ever is a board without lines, a modification that leaves it no line for
\* the rest of its value, and an entry that is cancelled.
OpenHasWork ==
    \A a \in Assets :
        LET r == asset[a]
            entries == {moves[r.lines[i].move].state : i \in LinkedIn(r.lines)}
        IN r.state = "open" => \/ HasPlanned(r) \/ r.lines = <<>>
                               \/ {"draft", "cancel"} \cap entries # {}
                               \/ Undone(r) <= Posted(r) /\ ValueResidual(r) # 0
=============================================================================
