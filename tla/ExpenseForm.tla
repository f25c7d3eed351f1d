----------------------------- MODULE ExpenseForm -----------------------------
(***************************************************************************)
(* An imported receipt from its paper to the row of its expense: the text  *)
(* is read (ReceiptText), the form is filled with what was found, the user *)
(* types over it or not, and the form's text becomes an update and its     *)
(* review (expense-form.ts, expense-review.ts), which the repository       *)
(* accepts or refuses.  Meanwhile other expenses are saved: one of the     *)
(* same merchant writes the merchant's display name anew (upsertMerchant). *)
(*                                                                         *)
(* ReceiptReview has the interleavings of a review and leaves the values   *)
(* alone; here are the conversions between paper, text and row.            *)
(***************************************************************************)
EXTENDS ReceiptText

CONSTANTS
  Papers,        \* receipts, each a sequence of Prints
  MerchantNames, \* merchant names as they are written
  NormalName,    \* NormalName[n]: normalizeMerchantName(n)
  Typed,         \* decimals the user may type
  Selected,      \* currencies the user may select
  MaxEdits,      \* bound on the fields of a form the user types over
  MaxRevision    \* bound on the version of the receipt

ASSUME FormBounds == MaxEdits \in Nat /\ MaxRevision \in Nat
ASSUME TypedAreDecimals == Typed \subseteq [whole : Nat, fraction : Nat, places : Nat]
ASSUME SelectedAreSupported == Selected \subseteq Currencies

ToReview == "receipt to review"

VARIABLES
  paper,      \* what was printed, and the order of dates on the device
  expense,    \* the receipts row, its merchant by the normalised name
  display,    \* merchants: display_name by normalized_name
  suggestions, \* field_evidence of the parser, undecided
  isRead,     \* the import has recognised the text
  form,       \* the form on screen, or closed
  answer      \* what became of the form: none, saved, stale or refused

formVars == <<paper, expense, display, suggestions, isRead, form, answer>>

-----------------------------------------------------------------------------
(* The paper.  A print is what the merchant meant with a line: an amount,  *)
(* with the words before it and how the currency is named, a date, or a    *)
(* name; ReceiptText sees only how it is written.                          *)

DigitsOf(n) == Cardinality({k \in 0..9 : 10 ^ k <= n \/ k = 0})

Group(separator, n, length) == [separator |-> separator, value |-> n, length |-> length]

\* Groups of three from a thousand on, and a point: "1,234.50", "1.234,50", or
\* without groups "1234.50".
Written(minor, c, style) ==
  LET whole == minor \div 10 ^ FractionDigits(c)
      point == IF style = "de" THEN "comma" ELSE "point"
      integer == IF style = "plain" \/ whole < 1000
                 THEN <<Group("none", whole, DigitsOf(whole))>>
                 ELSE <<Group("none", whole \div 1000, DigitsOf(whole \div 1000)),
                        Group(IF style = "de" THEN "point" ELSE "comma", whole % 1000, 3)>>
  IN IF FractionDigits(c) = 0 THEN integer
     ELSE Append(integer, Group(point, minor % 100, 2))

SymbolOf(c) ==
  CASE c = "EUR" -> "euro" [] c = "GBP" -> "pound" [] c = "JPY" -> "yen" [] OTHER -> "dollar"

BlankLine == [words |-> {}, amount |-> NoAmount, date |-> NoDate, name |-> "none"]

LineOf(p) ==
  CASE p.kind = "amount" ->
         [BlankLine EXCEPT !.words = p.words, !.amount =
            [prefix |-> IF p.named = "prefix" THEN p.currency ELSE "none",
             symbol |-> IF p.named = "symbol" THEN SymbolOf(p.currency) ELSE "none",
             groups |-> Written(p.minor, p.currency, p.style),
             suffix |-> IF p.named = "suffix" THEN p.currency ELSE "none"]]
    [] p.kind = "date" -> [BlankLine EXCEPT !.words = p.words, !.date = p.date]
    [] OTHER -> [BlankLine EXCEPT !.name = p.name]

\* An amount is printed with the words for what it is, up to a million in
\* groups, and what is no amount of the bill is in no currency.
IsPrinted(p) ==
  /\ p.currency \in Currencies /\ p.minor \in 0..MaxSafeInteger
  /\ p.named \in {"none", "prefix", "symbol", "suffix"}
  /\ p.style = "plain" \/ p.minor < 1000000 * 10 ^ FractionDigits(p.currency)
  /\ p.field = ClassifyAmountField([BlankLine EXCEPT !.words = p.words])
  /\ p.field = "none" => p.named = "none"

ASSUME PapersArePrinted ==
  \A b \in Papers :
    /\ DOMAIN b.prints = 1..Len(b.prints) /\ Len(b.prints) \in Nat
    /\ \A i \in DOMAIN b.prints : b.prints[i].kind = "amount" => IsPrinted(b.prints[i])

Pages(prints) == <<[number |-> 1, lines |-> [i \in DOMAIN prints |-> LineOf(prints[i])]]>>

-----------------------------------------------------------------------------
(* Values. *)

Amounts == AmountFields \cup {"discount"}

\* createPendingReceipt.
Pending ==
  [f \in EvidenceFields |->
     CASE f \in Amounts -> 0
       [] f = "currency" -> "USD"
       [] f = "date" -> [year |-> 2025, month |-> 7, day |-> 1]
       [] OTHER -> ToReview]

\* The receipts row joined with its merchant.
Joined(e) == [e.value EXCEPT !.merchant = display[@]]

\* normalizeMerchantName.
Normal(n) == IF n = ToReview THEN ToReview ELSE NormalName[n]

NoForm == [open |-> FALSE]

FormTypeOK ==
  /\ paper \in Papers
  /\ expense.version \in Nat
  /\ DOMAIN expense.value = EvidenceFields
  /\ \A f \in Amounts : expense.value[f] \in 0..MaxSafeInteger
  /\ expense.value["currency"] \in Currencies
  /\ IsRealDate(expense.value["date"])
  /\ DOMAIN suggestions \subseteq EvidenceFields
  /\ isRead \in BOOLEAN
  /\ form.open \in BOOLEAN
  /\ answer \in {"none", "saved", "stale", "refused"}

FormInit ==
  /\ paper \in Papers
  /\ expense = [version |-> 1, value |-> Pending]
  /\ display = [n \in {NormalName[m] : m \in MerchantNames} \cup {ToReview} |->
       IF n = ToReview THEN ToReview
       ELSE CHOOSE m \in MerchantNames : NormalName[m] = n]
  /\ suggestions = <<>>
  /\ isRead = FALSE
  /\ form = NoForm
  /\ answer = "none"

-----------------------------------------------------------------------------
(* Filling in the form. *)

\* The currency of the pending receipt, which the import still holds, is the
\* one for amounts without any.
RecognizeText ==
  /\ ~isRead
  /\ isRead' = TRUE
  /\ suggestions' = Candidates(Pages(paper.prints), paper.order, Pending["currency"])
  /\ UNCHANGED <<paper, expense, display, form, answer>>

\* receiptToExpenseForm, or receiptToReviewExpenseForm over it: what was not
\* found keeps the text of the row, written in the currency of the row.
FilledForm(base, suggested) ==
  LET value(f) == IF f \in DOMAIN suggested THEN suggested[f] ELSE base[f]
  IN [open |-> TRUE, version |-> expense.version, base |-> base, suggested |-> suggested,
      currency |-> value("currency"), date |-> value("date"), merchant |-> value("merchant"),
      text |-> [f \in Amounts |->
        ToDecimal(value(f), IF f \in DOMAIN suggested THEN value("currency")
                            ELSE base["currency"])],
      touched |-> {}]

OpenForm ==
  /\ ~form.open
  /\ form' = FilledForm(Joined(expense), suggestions)
  /\ answer' = "none"
  /\ UNCHANGED <<paper, expense, display, suggestions, isRead>>

Touches(f) ==
  /\ form.open
  /\ Cardinality(form.touched \cup {f}) <= MaxEdits
  /\ answer' = "none"
  /\ UNCHANGED <<paper, expense, display, suggestions, isRead>>

\* changeField of an amount, of the merchant, and selectCurrency.
TypeAmount(f, decimal) ==
  /\ Touches(f)
  /\ form' = [form EXCEPT !.text[f] = decimal, !.touched = @ \cup {f}]

TypeMerchant(n) ==
  /\ Touches("merchant")
  /\ form' = [form EXCEPT !.merchant = n, !.touched = @ \cup {"merchant"}]

SelectCurrency(c) ==
  /\ Touches("currency")
  /\ form' = [form EXCEPT !.currency = c, !.touched = @ \cup {"currency"}]

LeaveForm ==
  /\ form.open
  /\ form' = NoForm
  /\ answer' = "none"
  /\ UNCHANGED <<paper, expense, display, suggestions, isRead>>

-----------------------------------------------------------------------------
(* Saving it. *)

MinorUnits(f) == ToMinorUnits(form.text[f], form.currency)

\* parseExpenseForm and the sum of validateReceipt; a form that fails shows
\* its errors and is not submitted.
IsValid ==
  /\ \A f \in Amounts : MinorUnits(f) # NotAnAmount
  /\ IsRealDate(form.date)
  /\ MinorUnits("subtotal") + MinorUnits("tax") + MinorUnits("tip")
       - MinorUnits("discount") = MinorUnits("total")

Update ==
  [f \in EvidenceFields |->
     CASE f \in Amounts -> MinorUnits(f)
       [] f = "currency" -> form.currency
       [] f = "date" -> form.date
       [] OTHER -> form.merchant]

\* buildReceiptReviewInput: a suggestion is accepted or corrected, and what is
\* not accepted and changed, as the form has seen it, is a correction.
AcceptedFields == {f \in DOMAIN form.suggested : form.suggested[f] = Update[f]}
CorrectedFields == DOMAIN form.suggested \ AcceptedFields

\* Mutant: a suggestion that was corrected is taken for its own correction.
CorrectionsBesideSuggestions ==
  {f \in EvidenceFields \ DOMAIN form.suggested : form.base[f] # Update[f]}

Corrections ==
  CorrectedFields \cup
    {f \in EvidenceFields \ DOMAIN form.suggested : form.base[f] # Update[f]}

\* validateCorrectionCoverage, against the row as it is now.
IsCovered ==
  LET changed == {f \in EvidenceFields : Joined(expense)[f] # Update[f]}
  IN /\ changed \ AcceptedFields \subseteq Corrections
     /\ Corrections \ changed \subseteq CorrectedFields

\* validateReviewedEvidence: a corrected candidate has its correction.
IsReviewed == CorrectedFields \subseteq Corrections

Submits ==
  /\ form.open
  /\ answer = "none"
  /\ IsValid
  /\ UNCHANGED <<paper, isRead>>

\* updateReceipt with upsertMerchant; they are decided with it.
SaveForm ==
  /\ Submits
  /\ form.version = expense.version
  /\ IsReviewed /\ IsCovered
  /\ expense.version < MaxRevision
  /\ expense' = [version |-> expense.version + 1,
                 value |-> [Update EXCEPT !["merchant"] = Normal(@)]]
  /\ display' = [display EXCEPT ![Normal(form.merchant)] = form.merchant]
  /\ suggestions' = IF suggestions = form.suggested THEN <<>> ELSE suggestions
  /\ form' = NoForm
  /\ answer' = "saved"

FormIsStale ==
  /\ Submits
  /\ form.version # expense.version
  /\ answer' = "stale"
  /\ UNCHANGED <<expense, display, suggestions, form>>

FormIsRefused ==
  /\ Submits
  /\ form.version = expense.version
  /\ ~(IsReviewed /\ IsCovered)
  /\ answer' = "refused"
  /\ UNCHANGED <<expense, display, suggestions, form>>

\* Another expense is saved with this merchant.
SaveAnother(n) ==
  /\ display' = [display EXCEPT ![Normal(n)] = n]
  /\ UNCHANGED <<paper, expense, suggestions, isRead, form, answer>>

\* The category or the tags of this one are saved.
ClassifyExpense ==
  /\ expense.version = 1
  /\ expense' = [expense EXCEPT !.version = @ + 1]
  /\ UNCHANGED <<paper, display, suggestions, isRead, form, answer>>

FormNext ==
  \/ RecognizeText \/ OpenForm \/ LeaveForm
  \/ \E f \in Amounts, decimal \in Typed : TypeAmount(f, decimal)
  \/ \E n \in MerchantNames : TypeMerchant(n) \/ SaveAnother(n)
  \/ \E c \in Selected : SelectCurrency(c)
  \/ SaveForm \/ FormIsStale \/ FormIsRefused \/ ClassifyExpense

FormSpec == FormInit /\ [][FormNext]_formVars

-----------------------------------------------------------------------------
(* Properties. *)

PrintsOf(kind) == {i \in DOMAIN paper.prints : paper.prints[i].kind = kind}

\* One currency is meant throughout and named at every amount, or, if it is
\* the one of the pending receipt and still that of its row, at none.
NamesOneCurrency ==
  LET amounts == {paper.prints[i] : i \in {j \in PrintsOf("amount") :
        paper.prints[j].field \in AmountFields}} IN
  \E c \in Currencies :
    /\ \A p \in amounts : p.currency = c /\ (p.named = "symbol" => c \notin {"CAD", "AUD"})
    /\ \/ \A p \in amounts : p.named # "none"
       \/ /\ c = Pending["currency"] /\ form.base["currency"] = c
          /\ \A p \in amounts : p.named = "none"

\* Every amount of the paper is proposed, and what the user leaves alone is
\* saved as the merchant meant it, although it is printed, read, shown as text
\* and read again: the last of its field, in minor units of the paper's
\* currency (normalizeAmount, minorUnitsToDecimal, parseDecimalToMinorUnits).
UntouchedIsOnPaper ==
  [][/\ form.open /\ ~form'.open /\ answer' = "saved"
     /\ form.suggested # <<>>
     /\ NamesOneCurrency
     => \A i \in PrintsOf("amount") :
          LET p == paper.prints[i] IN
          /\ p.field \in AmountFields
          /\ \A j \in PrintsOf("amount") : paper.prints[j].field = p.field => j <= i
          => /\ p.field \in DOMAIN form.suggested
             /\ {p.field, "currency"} \cap form.touched = {}
                => /\ expense'.value[p.field] = p.minor
                   /\ expense'.value["currency"] = p.currency]_formVars

\* A form of the present version is refused only because another expense has
\* written the name of the merchant the form has not seen: validateReview and
\* validateCorrectionCoverage find nothing else in what the form sends.
RefusalIsExplained ==
  [][answer = "none" /\ answer' = "refused" =>
       Joined(expense)["merchant"] # form.base["merchant"]]_formVars
=============================================================================
