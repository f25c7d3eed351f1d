------------------------------ MODULE MCDevice ------------------------------
(***************************************************************************)
(* The parts of the device application on small instances, in one run: the *)
(* restore that the user waits for, across a crash, and the parts beside   *)
(* the receipts' files.  As in MCHosted, the cast of a behaviour is the    *)
(* part that takes steps in it; what a part may find in the tables that    *)
(* others write is in its own Init and actions.                            *)
(***************************************************************************)
EXTENDS StructuredRestore, Classification, ExpenseForm, EncryptedBackup, DataArchive, ExpenseViews,
        LocalLaunch

VARIABLE cast

Casts == {"restore", "labels", "form", "backup", "archive", "views", "launch"}

deviceVars == <<rvars, classVars, formVars, backupVars, archiveVars, viewVars, launchVars, cast>>

\* A part that takes no step starts from one of its states.
DeviceInit ==
  /\ cast \in Casts
  /\ RestoreInit /\ ClassInit /\ ArchiveInit
  /\ BackupInit /\ (cast # "backup" => hasStore)
  /\ FormInit /\ (cast # "form" => paper = CHOOSE p \in Papers : TRUE)
  /\ ViewInit /\ (cast # "views" => stored = [e \in Expenses |-> NoRow])
  /\ LaunchInit /\ (cast # "launch" => release = 6 /\ database = Nothing)

DeviceNext ==
  /\ UNCHANGED cast
  /\ \/ /\ cast = "restore" /\ PatientRestoreNext
        /\ UNCHANGED <<classVars, formVars, backupVars, archiveVars, viewVars, launchVars>>
     \/ /\ cast = "labels" /\ ClassNext
        /\ UNCHANGED <<rvars, formVars, backupVars, archiveVars, viewVars, launchVars>>
     \/ /\ cast = "form" /\ FormNext
        /\ UNCHANGED <<rvars, classVars, backupVars, archiveVars, viewVars, launchVars>>
     \/ /\ cast = "backup" /\ BackupNext
        /\ UNCHANGED <<rvars, classVars, formVars, archiveVars, viewVars, launchVars>>
     \/ /\ cast = "archive" /\ ArchiveNext
        /\ UNCHANGED <<rvars, classVars, formVars, backupVars, viewVars, launchVars>>
     \/ /\ cast = "views" /\ ViewNext
        /\ UNCHANGED <<rvars, classVars, formVars, backupVars, archiveVars, launchVars>>
     \/ /\ cast = "launch" /\ LaunchNext
        /\ UNCHANGED <<rvars, classVars, formVars, backupVars, archiveVars, viewVars>>

DeviceSpec == DeviceInit /\ [][DeviceNext]_deviceVars

\* Every part keeps its types: a screen, a call or a transaction stands where
\* its code can stand, and rows refer to rows that are there.
DeviceTypeOK ==
  /\ RestoreTypeOK
  /\ ClassTypeOK /\ FormTypeOK /\ BackupTypeOK /\ ArchiveTypeOK /\ ViewTypeOK /\ LaunchTypeOK

-----------------------------------------------------------------------------
(* The instance.  Parts that know nothing of each other share the values   *)
(* x1 and x2, y1 and y2.                                                   *)

CONSTANTS r1, h1, d1, a1, x1, x2, y1, y2, c1, t1, m1

Symmetric == Permutations({y1, y2})

OneContent == [r \in Receipts |-> h1]

Decimal(whole, fraction, places) == [whole |-> whole, fraction |-> fraction, places |-> places]
Date(month, day) == [year |-> 2026, month |-> month, day |-> day]

\* Bills of a cafe: its name, a date, a subtotal and a tax, their total, and
\* the number of its items.
Printed(field, words, minor, c, how, style) ==
  [kind |-> "amount", field |-> field, words |-> words, minor |-> minor, currency |-> c,
   named |-> how, style |-> style]

CafeBill(c, how, style, order, net, tax) ==
  [order |-> order,
   prints |-> <<[kind |-> "name", name |-> "Cafe"],
                [kind |-> "date", words |-> {"date"},
                 date |-> [form |-> "numeric", first |-> 13, second |-> 2, year |-> 24]],
                Printed("subtotal", {"subtotal", "total"}, net, c, how, style),
                Printed("tax", {"tax"}, tax, c, how, style),
                Printed("total", {"total"}, net + tax, c, how, style),
                Printed("none", {"total", "items"}, 3, "USD", "none", "plain")>>]

CafeBills ==
  {CafeBill("USD", "symbol", "en", "mdy", 123450, 1000),
   CafeBill("EUR", "suffix", "de", "dmy", 123450, 50),
   CafeBill("JPY", "symbol", "en", "mdy", 1000, 100),
   CafeBill("USD", "none", "plain", "dmy", 99999, 1),
   CafeBill("CAD", "prefix", "en", "mdy", 500, 100),
   CafeBill("CAD", "symbol", "en", "mdy", 500, 100)}

LowerCase == [n \in {"Cafe", "CAFE"} |-> "cafe"]
Zero == {Decimal(0, 0, 0)}

\* Three expenses, two of which are too much for one sum, and filters that
\* meet, miss or contradict them.
Spent(c, amount, date, category, labels, merchant) ==
  [currency |-> c, total |-> amount, date |-> date, category |-> category, tags |-> labels,
   merchant |-> merchant]

SmallColumns ==
  {Spent("USD", 1250, Date(6, 30), "food", {"work"}, "cafe"),
   Spent("JPY", 1250, Date(7, 1), Uncategorised, {}, "shop"),
   Spent("USD", 60000000, Date(7, 1), "food", {}, "shop")}

SmallDrafts ==
  {EmptyDraft,
   [EmptyDraft EXCEPT !.currency = "USD", !.minimum = Decimal(12, 5, 1), !.maximum = Decimal(12, 99, 2)],
   [EmptyDraft EXCEPT !.currency = "JPY", !.minimum = Decimal(12, 5, 1)],
   [EmptyDraft EXCEPT !.currency = "JPY", !.maximum = Decimal(1250, 0, 0)],
   [EmptyDraft EXCEPT !.from = Date(7, 1), !.category = Uncategorised],
   [EmptyDraft EXCEPT !.to = Date(6, 31)],
   [EmptyDraft EXCEPT !.to = Date(6, 30), !.tag = "work"]}

CafeBySyllable == [s \in {"", "ca"} |-> IF s = "" THEN {"cafe", "shop"} ELSE {"cafe"}]
=============================================================================
