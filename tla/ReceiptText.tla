----------------------------- MODULE ReceiptText -----------------------------
(***************************************************************************)
(* What is read from the text of a receipt: DeterministicReceiptParser of  *)
(* packages/extraction, the native result it works on, and the money of    *)
(* packages/domain.  Everything here is a function; ExpenseForm puts it    *)
(* into steps.                                                             *)
(*                                                                         *)
(* A line of text is what the regular expressions find in it:              *)
(*   words    those of Words that occur                                    *)
(*   amount   the number the line ends with, NoAmount if it does not       *)
(*   date     the date in it, NoDate if there is none                      *)
(* Where a candidate was found, its box and its confidence are left out,   *)
(* and so are the limits on the length of texts and the time zone, which   *)
(* is stored beside the purchase date and never changes it.                *)
(***************************************************************************)
EXTENDS Integers, Sequences, FiniteSets, SequencesExt

CONSTANT MaxSafeInteger   \* Number.MAX_SAFE_INTEGER

ASSUME MaxSafeIntegerIsNatural == MaxSafeInteger \in Nat

-----------------------------------------------------------------------------
(* Money. *)

Currencies == {"USD", "CAD", "EUR", "GBP", "AUD", "JPY"}
FractionDigits(c) == IF c = "JPY" THEN 0 ELSE 2

NotAnAmount == -1

\* parseDecimalToMinorUnits of digits, a decimal point and more digits: a
\* decimal number is its whole part, the digits after the point and how many.
ToMinorUnits(decimal, c) ==
  LET scale == FractionDigits(c) - decimal.places
      minor == decimal.whole * 10 ^ FractionDigits(c) + decimal.fraction * 10 ^ scale
  IN IF scale < 0 THEN NotAnAmount
     ELSE IF minor > MaxSafeInteger THEN NotAnAmount ELSE minor

Integer(n) == [whole |-> n, fraction |-> 0, places |-> 0]

\* minorUnitsToDecimal.
ToDecimal(minor, c) ==
  LET scale == 10 ^ FractionDigits(c)
  IN [whole |-> minor \div scale, fraction |-> minor % scale, places |-> FractionDigits(c)]

-----------------------------------------------------------------------------
(* Amounts.  A number as it is printed is a sequence of groups of digits,  *)
(* each with its value, its length and the separator before it.            *)

NumberOf(groups) == FoldLeft(LAMBDA n, g : n * 10 ^ g.length + g.value, 0, groups)

\* /^\d{1,3}(?:[.,]\d{3})+$/
IsGrouped(groups) ==
  /\ Len(groups) > 1
  /\ groups[1].length <= 3
  /\ \A i \in 2..Len(groups) : groups[i].length = 3

SeparatorsOf(groups) == {groups[i].separator : i \in 2..Len(groups)}

\* The last separator occurs once, so that it can be taken for the point.
EndsWithFraction(groups) ==
  Cardinality({i \in 2..Len(groups) : groups[i].separator = Last(groups).separator}) = 1

\* Mutant: a comma is never the point.
NormalizeToDot(groups, c) ==
  IF Len(groups) = 1 \/ Last(groups).separator = "comma" THEN Integer(NumberOf(groups))
  ELSE [whole |-> NumberOf(Front(groups)), fraction |-> Last(groups).value,
        places |-> Last(groups).length]

\* normalizeAmount, and the error of parseDecimalToMinorUnits for a number
\* that still has a separator: too many places.
NormalizeAmount(groups, c) ==
  IF Len(groups) = 1 THEN Integer(NumberOf(groups))
  ELSE IF /\ FractionDigits(c) # 0
          /\ Last(groups).length = FractionDigits(c)
          /\ EndsWithFraction(groups)
       THEN [whole |-> NumberOf(Front(groups)), fraction |-> Last(groups).value,
             places |-> Last(groups).length]
  ELSE IF /\ FractionDigits(c) = 0 \/ Cardinality(SeparatorsOf(groups)) = 1
          /\ IsGrouped(groups)
       THEN Integer(NumberOf(groups))
  ELSE [whole |-> 0, fraction |-> 0, places |-> FractionDigits(c) + 1]

\* currencyCodeForSymbol.
CodeOfSymbol(symbol, default) ==
  CASE symbol = "dollar" -> IF default \in {"USD", "CAD", "AUD"} THEN default ELSE "USD"
    [] symbol = "euro" -> "EUR"
    [] symbol = "pound" -> "GBP"
    [] symbol = "yen" -> "JPY"
    [] OTHER -> "none"

NoAmount == [prefix |-> "none", symbol |-> "none", groups |-> <<>>, suffix |-> "none"]
NoReading == [currency |-> "none", token |-> FALSE, minor |-> NotAnAmount]

\* parseAmount: the currencies a line names agree, or it has no amount.
ReadAmount(amount, default) ==
  LET named == {amount.prefix, amount.suffix, CodeOfSymbol(amount.symbol, default)} \ {"none"}
      currency == IF named = {} THEN default ELSE CHOOSE c \in named : TRUE
      minor == ToMinorUnits(NormalizeAmount(amount.groups, currency), currency)
  IN IF amount = NoAmount \/ Cardinality(named) > 1 THEN NoReading
     ELSE IF minor = NotAnAmount THEN NoReading
     ELSE [currency |-> currency, token |-> named # {}, minor |-> minor]

-----------------------------------------------------------------------------
(* Lines. *)

Words == {"subtotal", "tax", "tip", "total", "items", "date", "expires", "other"}
AmountFields == {"subtotal", "tax", "tip", "total"}
NoDate == [form |-> "none", first |-> 0, second |-> 0, year |-> 0]

\* classifyAmountField: the first that occurs, in this order.
ClassifyAmountField(line) ==
  IF "subtotal" \in line.words THEN "subtotal"
  ELSE IF "tax" \in line.words THEN "tax"
  ELSE IF "tip" \in line.words THEN "tip"
  ELSE IF "total" \in line.words /\ "items" \notin line.words THEN "total"
  ELSE "none"

DaysIn(month, year) ==
  CASE month \in {4, 6, 9, 11} -> 30
    [] month = 2 -> IF year % 4 = 0 /\ (year % 100 # 0 \/ year % 400 = 0) THEN 29 ELSE 28
    [] OTHER -> 31

IsRealDate(d) ==
  d.month \in 1..12 /\ d.day \in 1..DaysIn(d.month, d.year)

\* extractLocalDate: a date with its year first, or its month named, says what
\* is what; in another the order of the device decides.
LocalDate(date, order) ==
  LET monthFirst == \/ date.form \in {"iso", "monthFirst"}
                    \/ date.form = "numeric" /\ order = "mdy"
      year == IF date.form = "numeric" /\ date.year < 100
              THEN IF date.year <= 69 THEN 2000 + date.year ELSE 1900 + date.year
              ELSE date.year
  IN [year |-> year,
      month |-> IF monthFirst THEN date.first ELSE date.second,
      day |-> IF monthFirst THEN date.second ELSE date.first]

\* isPlausibleMerchant; "other" stands for the words and signs it refuses.
IsPlausibleMerchant(line) ==
  line.words = {} /\ line.amount = NoAmount /\ line.date = NoDate

\* The pages by their numbers, those of one number as they came.
Sorted(pages) ==
  LET place(i) == Cardinality({j \in DOMAIN pages :
        \/ pages[j].number < pages[i].number
        \/ pages[j].number = pages[i].number /\ j <= i})
  IN [n \in DOMAIN pages |-> pages[CHOOSE i \in DOMAIN pages : place(i) = n]]

\* collectSourceLines.
SourceLines(pages) == FlattenSeq([n \in DOMAIN pages |-> Sorted(pages)[n].lines])

FirstPage(pages) ==
  FlattenSeq([i \in DOMAIN pages |-> IF pages[i].number = 1 THEN pages[i].lines ELSE <<>>])

-----------------------------------------------------------------------------
(* DeterministicReceiptParser.parse.  The candidates of a field are a set   *)
(* with one value, or none.                                                 *)

Latest(indices) == {i \in indices : \A j \in indices : j <= i}
Earliest(indices) == {i \in indices : \A j \in indices : i <= j}

ReadingsOf(lines, fields, default) ==
  {i \in DOMAIN lines :
     /\ ClassifyAmountField(lines[i]) \in fields
     /\ ReadAmount(lines[i].amount, default) # NoReading}

\* Of the lines of a field the last one counts.
AmountCandidates(lines, field, default) ==
  {ReadAmount(lines[i].amount, default).minor :
     i \in Latest(ReadingsOf(lines, {field}, default))}

\* parseCurrency: of the last total that names one, of the last amount that
\* does, or of the first line of all that names one or has no amount; a line
\* without an amount names none, so one before the others leaves no candidate.
CurrencyCandidates(lines, default) ==
  LET reading(i) == ReadAmount(lines[i].amount, default)
      named(fields) == {i \in ReadingsOf(lines, fields, default) : reading(i).token}
      fallback == {i \in DOMAIN lines : reading(i) = NoReading \/ reading(i).token}
      found == IF named({"total"}) # {} THEN Latest(named({"total"}))
               ELSE IF named(AmountFields) # {} THEN Latest(named(AmountFields))
               ELSE {i \in Earliest(fallback) : reading(i).token}
  IN {reading(i).currency : i \in found}

\* parsePurchaseDate: lines that say "date" come first.
DateCandidates(lines, order) ==
  LET real == {i \in DOMAIN lines :
        /\ "expires" \notin lines[i].words
        /\ lines[i].date # NoDate
        /\ IsRealDate(LocalDate(lines[i].date, order))}
      labelled == {i \in real : "date" \in lines[i].words}
  IN {LocalDate(lines[i].date, order) :
        i \in Earliest(IF labelled # {} THEN labelled ELSE real)}

\* parseMerchant: among the first twelve lines of the first page.
MerchantCandidates(page) ==
  {page[i].name : i \in Earliest({j \in DOMAIN page : j <= 12 /\ IsPlausibleMerchant(page[j])})}

EvidenceFields == AmountFields \cup {"discount", "currency", "date", "merchant"}

\* runReceiptParser.
Candidates(pages, order, default) ==
  LET lines == SourceLines(pages)
      found(f) == CASE f \in AmountFields -> AmountCandidates(lines, f, default)
                    [] f = "currency" -> CurrencyCandidates(lines, default)
                    [] f = "date" -> DateCandidates(lines, order)
                    [] f = "merchant" -> MerchantCandidates(FirstPage(pages))
                    [] OTHER -> {}
  IN [f \in {g \in EvidenceFields : found(g) # {}} |-> CHOOSE v \in found(f) : TRUE]
=============================================================================
