---------------------------- MODULE ExpenseViews ----------------------------
(***************************************************************************)
(* What the user is shown of the expenses that are stored: the list with   *)
(* its search and filters (ExpenseListScreen, ExpenseFilterModal,          *)
(* expense-filter.ts), the totals (reporting-repository.ts,                *)
(* ExpenseReportScreen) and the CSV file (expense-csv.ts).                 *)
(*                                                                         *)
(* A screen asks the tables and shows what it was answered; meanwhile      *)
(* expenses are written (by an import that is still recognising, a late    *)
(* review) and the user goes on typing.  That the statements of a report   *)
(* are one transaction is taken from SQLite here; SharedConnection says    *)
(* when it is not so.                                                      *)
(***************************************************************************)
EXTENDS ReceiptText

CONSTANTS
  Expenses,    \* receipts
  Columns,     \* what a row can hold
  Drafts,      \* what the user may enter into the filters
  Searches,    \* what the user may enter as a search, and ""
  Finds,       \* Finds[s]: the merchants whose normalised name contains s
  NoRow,       \* that there is no row
  All,         \* that nothing is asked of a column
  MaxAsked,    \* bound on the questions asked
  MaxWritten   \* bound on the rows written

ASSUME ExpensesAreFinite == IsFiniteSet(Expenses)
ASSUME ViewBounds == MaxAsked \in Nat /\ MaxWritten \in Nat
ASSUME EverythingIsFoundByNothing == \A c \in Columns : c.merchant \in Finds[""]

\* A row has a currency and an amount that its table accepts; what is entered
\* is a decimal number in a currency, or nothing.
ASSUME RowsHaveAmounts ==
  \A c \in Columns : c.currency \in Currencies /\ c.total \in 0..MaxSafeInteger
ASSUME DraftsHaveDecimals ==
  /\ All \notin Currencies /\ All \notin Int
  /\ \A d \in Drafts :
       /\ d = [currency |-> d.currency, minimum |-> d.minimum, maximum |-> d.maximum,
               from |-> d.from, to |-> d.to, category |-> d.category, tag |-> d.tag]
       /\ d.currency \in Currencies \cup {All}
       /\ {d.minimum, d.maximum} \ {All} \subseteq [whole : Nat, fraction : Nat, places : Nat]

Uncategorised == "no category"
EmptyDraft == [currency |-> All, minimum |-> All, maximum |-> All, from |-> All, to |-> All,
               category |-> All, tag |-> All]

VARIABLES
  stored,    \* the receipts rows that are not deleted, with their receipt_tags
  written,   \* the number of rows written
  page,      \* the screen: list, filters before it, report, or another
  filter,    \* filterValues, filterOptions and search of the list
  asked,     \* the questions that are awaited, with their answers
  latest,    \* the question of the effect that is active, 0 if there is none
  numbered,  \* the number of questions asked
  view,   \* what the screen shows: rows, totals, loading or an error
  changed    \* the rows written since the last question, for the properties

viewVars == <<stored, written, page, filter, asked, latest, numbered, view, changed>>

Active(e) == stored[e] # NoRow

-----------------------------------------------------------------------------
(* The filters. *)

DayOf(date) == date.year * 10000 + date.month * 100 + date.day

IsBad(amount, currency) == amount # All /\ (currency = All \/ ToMinorUnits(amount, currency) = NotAnAmount)

\* parseExpenseFilters: dates are real, amounts have a currency and its places,
\* and no end comes before its beginning.
IsParsed(d) ==
  /\ \A date \in {d.from, d.to} \ {All} : IsRealDate(date)
  /\ d.from # All /\ d.to # All => DayOf(d.from) <= DayOf(d.to)
  /\ ~IsBad(d.minimum, d.currency) /\ ~IsBad(d.maximum, d.currency)
  /\ d.minimum # All /\ d.maximum # All =>
       ToMinorUnits(d.minimum, d.currency) <= ToMinorUnits(d.maximum, d.currency)

InMinorUnits(amount, currency) == IF amount = All THEN All ELSE ToMinorUnits(amount, currency)

OptionsOf(d) ==
  [d EXCEPT !.minimum = InMinorUnits(@, d.currency), !.maximum = InMinorUnits(@, d.currency)]

\* The WHERE clause of list; validateReceiptListOptions asks for what IsParsed
\* has seen to.
Satisfies(row, options, search) ==
  /\ row.merchant \in Finds[search]
  /\ options.currency \in {All, row.currency}
  /\ options.from = All \/ DayOf(options.from) <= DayOf(row.date)
  /\ options.to = All \/ DayOf(row.date) <= DayOf(options.to)
  /\ options.minimum = All \/ options.minimum <= row.total
  /\ options.maximum = All \/ row.total <= options.maximum
  /\ options.category \in {All, row.category}
  /\ options.tag = All \/ options.tag \in row.tags

ListOf(options, search) ==
  {[id |-> e, row |-> stored[e]] : e \in {x \in Expenses : Active(x) /\ Satisfies(stored[x], options, search)}}

-----------------------------------------------------------------------------
(* The totals. *)

Empty == [list |-> {}, monthly |-> {}, byCategory |-> {}]
Awaited == [status |-> "awaited", shows |-> Empty]
Failed == [status |-> "error", shows |-> Empty]
Answered(with) == [status |-> "ready", shows |-> with]

Total(expenses) == SumFunctionOnSet([e \in expenses |-> stored[e].total], expenses)

\* Mutant: an inner join with the categories.
CategorisedOnes == {e \in Expenses : Active(e) /\ stored[e].category # Uncategorised}

ActiveOnes == {e \in Expenses : Active(e)}

\* GROUP BY: groupOf maps every active receipt to its group.
Grouped(groupOf) ==
  LET members(g) == {e \in ActiveOnes : groupOf[e] = g}
  IN {[group |-> g, count |-> Cardinality(members(g)), total |-> Total(members(g))] :
        g \in {groupOf[e] : e \in ActiveOnes}}

\* getTotals, and requireTotal: a sum that is no safe integer is an error.
TotalsOf ==
  LET monthly == Grouped([e \in ActiveOnes |->
                            <<stored[e].date.year, stored[e].date.month, stored[e].currency>>])
      byCategory == Grouped([e \in ActiveOnes |-> <<stored[e].category, stored[e].currency>>])
  IN IF \E g \in monthly \cup byCategory : g.total > MaxSafeInteger THEN Failed
     ELSE Answered([Empty EXCEPT !.monthly = monthly, !.byCategory = byCategory])

-----------------------------------------------------------------------------
(* Questions.  Each render with other dependencies ends the effect of the  *)
(* one before, whose answer is then ignored, and asks anew.                *)

AsksFor(question) ==
  /\ numbered < MaxAsked
  /\ numbered' = numbered + 1
  /\ latest' = numbered + 1
  /\ asked' = asked \cup {[number |-> numbered + 1, of |-> question, answer |-> Awaited]}
  /\ changed' = {}

ListQuestion(f) == [kind |-> "list", options |-> f.options, search |-> f.search]
ReportQuestion == [kind |-> "report"]

NoFilter == [values |-> EmptyDraft, options |-> EmptyDraft, search |-> ""]
Loading == [status |-> "loading", shows |-> Empty]

\* A screen that is mounted starts from nothing.
OpenList ==
  /\ page \in {"report", "other"}
  /\ page' = "list"
  /\ filter' = NoFilter
  /\ view' = Loading
  /\ AsksFor(ListQuestion(NoFilter))
  /\ UNCHANGED <<stored, written>>

OpenReport ==
  /\ page = "list"
  /\ page' = "report"
  /\ view' = Loading
  /\ AsksFor(ReportQuestion)
  /\ UNCHANGED <<stored, written, filter>>

LeaveViews ==
  /\ page \in {"list", "report"}
  /\ page' = "other"
  /\ latest' = 0
  /\ view' = Loading
  /\ UNCHANGED <<stored, written, filter, asked, numbered, changed>>

\* What was shown stays until the answer.
Search(s) ==
  /\ page = "list"
  /\ s # filter.search
  /\ filter' = [filter EXCEPT !.search = s]
  /\ AsksFor(ListQuestion(filter'))
  /\ UNCHANGED <<stored, written, page, view>>

OpenFilters ==
  /\ page = "list"
  /\ page' = "filters"
  /\ UNCHANGED <<stored, written, filter, asked, latest, numbered, view, changed>>

CloseFilters ==
  /\ page = "filters"
  /\ page' = "list"
  /\ UNCHANGED <<stored, written, filter, asked, latest, numbered, view, changed>>

\* The draft that cannot be parsed stays where it is, with its errors.
ApplyFilters(draft) ==
  /\ page = "filters"
  /\ IsParsed(draft)
  /\ page' = "list"
  /\ filter' = [filter EXCEPT !.values = draft, !.options = OptionsOf(draft)]
  /\ AsksFor(ListQuestion(filter'))
  /\ UNCHANGED <<stored, written, view>>

TryAgain ==
  /\ page \in {"list", "report"}
  /\ view.status = "error"
  /\ view' = Loading
  /\ AsksFor(IF page = "list" THEN ListQuestion(filter) ELSE ReportQuestion)
  /\ UNCHANGED <<stored, written, page, filter>>

\* A restore, or a deletion of all data, which also clears the filters, has
\* ended on this screen.
Refresh(f) ==
  /\ page \in {"list", "filters"}
  /\ filter' = f
  /\ AsksFor(ListQuestion(f))
  /\ UNCHANGED <<stored, written, page, view>>

\* The statements are run.
Answer(q) ==
  /\ q.answer.status = "awaited"
  /\ \E answer \in {Failed, IF q.of.kind = "list"
                            THEN Answered([Empty EXCEPT !.list = ListOf(q.of.options, q.of.search)]) ELSE TotalsOf} :
       asked' = (asked \ {q}) \cup {[q EXCEPT !.answer = answer]}
  /\ UNCHANGED <<stored, written, page, filter, latest, numbered, view, changed>>

Shown(q) ==
  IF q.answer.status = "error" THEN [view EXCEPT !.status = "error"] ELSE q.answer

\* Mutant: an effect that has ended is not told so.
DeliverToWhoeverIsThere(q) ==
  /\ q.answer.status # "awaited"
  /\ asked' = asked \ {q}
  /\ view' = IF (page = "report") <=> (q.of.kind = "report") THEN Shown(q) ELSE view
  /\ UNCHANGED <<stored, written, page, filter, latest, numbered, changed>>

\* The continuations of list and getTotals: only the active effect shows.
Deliver(q) ==
  /\ q.answer.status # "awaited"
  /\ asked' = asked \ {q}
  /\ view' = IF q.number = latest THEN Shown(q) ELSE view
  /\ UNCHANGED <<stored, written, page, filter, latest, numbered, changed>>

-----------------------------------------------------------------------------

Write(e) ==
  /\ written < MaxWritten
  /\ \E row \in (Columns \cup {NoRow}) \ {stored[e]} : stored' = [stored EXCEPT ![e] = row]
  /\ written' = written + 1
  /\ changed' = changed \cup {e}
  /\ UNCHANGED <<page, filter, asked, latest, numbered, view>>

\* createExpenseCsv: every expense, whatever the list is filtered by, its
\* amounts printed in its currency.
CsvLines ==
  {[id |-> e, currency |-> stored[e].currency,
    total |-> ToDecimal(stored[e].total, stored[e].currency)] : e \in {x \in Expenses : Active(x)}}

ViewInit ==
  /\ stored \in [Expenses -> Columns \cup {NoRow}]
  /\ written = 0
  /\ page = "other"
  /\ filter = NoFilter
  /\ asked = {}
  /\ latest = 0
  /\ numbered = 0
  /\ view = Loading
  /\ changed = {}

ViewNext ==
  \/ OpenList \/ OpenReport \/ LeaveViews
  \/ OpenFilters \/ CloseFilters
  \/ \E s \in Searches : Search(s)
  \/ \E draft \in Drafts : ApplyFilters(draft)
  \/ TryAgain
  \/ Refresh(filter) \/ Refresh(NoFilter)
  \/ \E q \in asked : Answer(q) \/ Deliver(q)
  \/ \E e \in Expenses : Write(e)

ViewSpec == ViewInit /\ [][ViewNext]_viewVars

\* A question is numbered, only the last one can be the active effect's, and
\* what is shown came from an answer.
ViewTypeOK ==
  /\ stored \in [Expenses -> Columns \cup {NoRow}]
  /\ written \in 0..MaxWritten
  /\ page \in {"list", "filters", "report", "other"}
  /\ filter.values \in Drafts \cup {EmptyDraft} /\ filter.search \in Searches \cup {""}
  /\ {q.number : q \in asked} \subseteq 1..numbered
  /\ latest \in {0, numbered}
  /\ numbered \in 0..MaxAsked
  /\ view.status \in {"loading", "ready", "error"}
  /\ changed \subseteq Expenses

-----------------------------------------------------------------------------
(* Properties. *)

\* A decimal number in hundredths, of whatever currency.
Hundredths(decimal) == decimal.whole * 100 + decimal.fraction * 10 ^ (2 - decimal.places)

\* What the user asked for, in the words it was entered in.
Wanted(row) ==
  LET d == filter.values IN
  /\ row.merchant \in Finds[filter.search]
  /\ d.currency # All => row.currency = d.currency
  /\ d.minimum # All => Hundredths(d.minimum) <= Hundredths(ToDecimal(row.total, row.currency))
  /\ d.maximum # All => Hundredths(d.maximum) >= Hundredths(ToDecimal(row.total, row.currency))
  /\ d.from # All => DayOf(d.from) <= DayOf(row.date)
  /\ d.to # All => DayOf(row.date) <= DayOf(d.to)
  /\ d.category # All => row.category = d.category
  /\ d.tag # All => d.tag \in row.tags

IsSettled == view.status = "ready" /\ \A q \in asked : q.number # latest

SumOver(groups, currency) ==
  LET ofIt == {g \in groups : Last(g.group) = currency}
  IN SumFunctionOnSet([g \in ofIt |-> g.total], ofIt)

\* A list that awaits nothing shows of every expense that was not written
\* since what is stored of it, exactly if it is what the search and the filters
\* on the screen ask for, however fast they were changed; and a CSV file says
\* the amounts of the expenses.
ExpensesAreShownAsStored ==
  /\ page = "list" /\ IsSettled =>
       \A e \in Expenses \ changed :
         IF Active(e) /\ Wanted(stored[e])
         THEN [id |-> e, row |-> stored[e]] \in view.shows.list
         ELSE \A line \in view.shows.list : line.id # e
  /\ \A line \in CsvLines : ToMinorUnits(line.total, line.currency) = stored[line.id].total

\* The months and the categories of a report that awaits nothing add up to the
\* expenses, per currency, if none was written since it was asked for
\* (getTotals, requireTotal).
ReportAddsUp ==
  page = "report" /\ IsSettled /\ changed = {} =>
    \A c \in Currencies :
      LET total == Total({e \in Expenses : Active(e) /\ stored[e].currency = c}) IN
      /\ SumOver(view.shows.monthly, c) = total
      /\ SumOver(view.shows.byCategory, c) = total
=============================================================================
