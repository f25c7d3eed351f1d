------------------------------- MODULE WebClient -------------------------------
(***************************************************************************)
(* One browser tab of the hosted web client: App.tsx of apps/web over      *)
(* ReimbursdWebApi.                                                        *)
(*                                                                         *)
(* The server answers a call at one time and the answer arrives at         *)
(* another.  Nothing cancels a call: its answer changes the tab whoever is *)
(* signed in by then.  A response that is malformed or too large is a      *)
(* failure, and so is an answer that is lost.                              *)
(***************************************************************************)
EXTENDS HostedReceipts

CONSTANT MaxCalls     \* bound on the calls that are awaited at a time

ASSUME CallsAreBounded == MaxCalls \in Nat

VARIABLES
  token,        \* accessToken, as the owner it was issued to
  signing,      \* authenticating
  view,         \* receiptState; and whether an answer for another owner is in it
  dialog,       \* CreateReceiptDialog: not there, editing, or saving a receipt
  draft,        \* the receipts the dialog has sent for what it holds
  calls,        \* fetches that are awaited, with their answers
  drafts,       \* history: the drafts of dialogs that are gone
  unheard       \* history: receipts stored whose answer was lost

tab == <<token, signing, view, dialog, draft, calls, drafts, unheard>>
webVars == <<tablesOfReceipts, tab>>

NoDialog == "closed"
Editing == "editing"

ASSUME DialogIsNoReceipt == {NoDialog, Editing} \cap HReceipts = {}

Statuses == {"idle", "loading", "error", "ready"}
Call ==
  [kind : {"session", "first", "retry", "create"}, owner : Owners,
   id : HReceipts \cup {Nobody}, answer : {"none", "ok", "denied", "failed"},
   rows : SUBSET HReceipts]

NewCall(kind, o, id) ==
  [kind |-> kind, owner |-> o, id |-> id, answer |-> "none", rows |-> {}]

ViewOf(status, rows, late) == [status |-> status, rows |-> rows, late |-> late]
Blank(status) == ViewOf(status, {}, FALSE)

WebTypeOK ==
  /\ HostedReceiptsTypeOK
  /\ token \in Owners \cup {Nobody}
  /\ signing \in BOOLEAN
  /\ view \in [status : Statuses, rows : SUBSET HReceipts, late : BOOLEAN]
  /\ dialog \in {NoDialog, Editing} \cup HReceipts
  /\ draft \in SUBSET HReceipts
  /\ calls \in SUBSET Call
  /\ drafts \in SUBSET SUBSET HReceipts
  /\ unheard \in SUBSET HReceipts
  /\ dialog # NoDialog => token # Nobody
  /\ dialog = NoDialog => draft = {}

WebInit ==
  /\ HostedReceiptsInit
  /\ token = Nobody
  /\ signing = FALSE
  /\ view = Blank("idle")
  /\ dialog = NoDialog
  /\ draft = {}
  /\ calls = {}
  /\ drafts = {}
  /\ unheard = {}

-----------------------------------------------------------------------------
(* The server. *)

Answer(c, answer, rows) ==
  calls' = (calls \ {c}) \cup {[c EXCEPT !.answer = answer, !.rows = rows]}

ServeSession(c) ==
  /\ c.kind = "session" /\ c.answer = "none"
  /\ Answer(c, "ok", {})
  /\ UNCHANGED <<tablesOfReceipts, token, signing, view, dialog, draft, drafts, unheard>>

ServeList(c) ==
  /\ c.kind \in {"first", "retry"} /\ c.answer = "none"
  /\ Answer(c, "ok", ListFor(c.owner))
  /\ UNCHANGED <<tablesOfReceipts, token, signing, view, dialog, draft, drafts, unheard>>

\* The identifiers are fresh, so the merchant is as well.
ServeCreate(c) ==
  /\ c.kind = "create" /\ c.answer = "none"
  /\ \E m \in Merchants : merchant[m] = Nobody /\ InsertReceipt(c.owner, c.id, m)
  /\ \/ /\ Answer(c, "ok", {})
        /\ UNCHANGED unheard
     \/ /\ Answer(c, "failed", {})
        /\ unheard' = unheard \cup {c.id}
  /\ UNCHANGED <<token, signing, view, dialog, draft, drafts>>

\* The token has expired, or the call fails with no effect.
Refuse(c) ==
  /\ c.answer = "none"
  /\ \E answer \in {"denied", "failed"} : Answer(c, answer, {})
  /\ UNCHANGED <<tablesOfReceipts, token, signing, view, dialog, draft, drafts, unheard>>

-----------------------------------------------------------------------------
(* The tab. *)

CanCall == Cardinality(calls) < MaxCalls

\* The dialog goes away, and with it what it was doing for its draft.
CloseDialog ==
  /\ dialog' = NoDialog
  /\ draft' = {}
  /\ drafts' = drafts \cup {draft}

\* submitIdentity; the button is disabled while authenticating.
SignIn(o) ==
  /\ token = Nobody
  /\ ~signing
  /\ CanCall
  /\ signing' = TRUE
  /\ calls' = calls \cup {NewCall("session", o, Nobody)}
  /\ UNCHANGED <<tablesOfReceipts, token, view, dialog, draft, drafts, unheard>>

\* Mutant: the button is released when there is a token.
SessionReleasesButton(c) ==
  /\ c.kind = "session" /\ c.answer # "none"
  /\ signing' = FALSE
  /\ IF c.answer = "ok"
     THEN /\ token' = c.owner
          /\ view' = Blank("loading")
          /\ calls' = (calls \ {c}) \cup {NewCall("first", c.owner, Nobody)}
     ELSE /\ calls' = calls \ {c}
          /\ UNCHANGED <<token, view>>
  /\ UNCHANGED <<tablesOfReceipts, dialog, draft, drafts, unheard>>

\* The token is set, and the list is loaded before authenticating ends.
SessionArrives(c) ==
  /\ c.kind = "session" /\ c.answer # "none"
  /\ IF c.answer = "ok"
     THEN /\ token' = c.owner
          /\ view' = Blank("loading")
          /\ calls' = (calls \ {c}) \cup {NewCall("first", c.owner, Nobody)}
          /\ UNCHANGED signing
     ELSE /\ signing' = FALSE
          /\ calls' = calls \ {c}
          /\ UNCHANGED <<token, view>>
  /\ UNCHANGED <<tablesOfReceipts, dialog, draft, drafts, unheard>>

\* signOut.
SignsOut ==
  /\ token' = Nobody
  /\ view' = Blank("idle")
  /\ CloseDialog

SignOut ==
  /\ token # Nobody
  /\ SignsOut
  /\ UNCHANGED <<tablesOfReceipts, signing, calls, unheard>>

\* The first list of a sign-in is never called late: ShownIsOwn checks that
\* it comes before the next sign-in.
IsLate(c) == c.kind # "first" /\ c.owner # token

\* loadReceipts, after its await.
ListArrives(c) ==
  /\ c.kind \in {"first", "retry"} /\ c.answer # "none"
  /\ calls' = calls \ {c}
  /\ signing' = IF c.kind = "first" THEN FALSE ELSE signing
  /\ IF c.answer = "denied"
     THEN SignsOut
     ELSE /\ view' = IF c.answer = "ok" THEN ViewOf("ready", c.rows, IsLate(c)) ELSE Blank("error")
          /\ UNCHANGED <<token, dialog, draft, drafts>>
  /\ UNCHANGED <<tablesOfReceipts, unheard>>

\* onRetry of the error.
Retry ==
  /\ token # Nobody
  /\ view.status = "error"
  /\ CanCall
  /\ view' = Blank("loading")
  /\ calls' = calls \cup {NewCall("retry", token, Nobody)}
  /\ UNCHANGED <<tablesOfReceipts, token, signing, dialog, draft, drafts, unheard>>

OpenDialog ==
  /\ token # Nobody
  /\ dialog = NoDialog
  /\ dialog' = Editing
  /\ UNCHANGED <<tablesOfReceipts, token, signing, view, draft, calls, drafts, unheard>>

\* Close, Cancel and Escape are disabled while saving.
Cancel ==
  /\ dialog = Editing
  /\ CloseDialog
  /\ UNCHANGED <<tablesOfReceipts, token, signing, view, calls, unheard>>

\* The identifiers of idFactory.
IsFresh(id) ==
  /\ id \notin draft \cup UNION drafts
  /\ hosted[id] = NotThere

\* Mutant: the submit button works while saving.
SubmitAgain(id) ==
  /\ dialog # NoDialog
  /\ CanCall
  /\ IsFresh(id)
  /\ dialog' = id
  /\ draft' = draft \cup {id}
  /\ calls' = calls \cup {NewCall("create", token, id)}
  /\ UNCHANGED <<tablesOfReceipts, token, signing, view, drafts, unheard>>

\* createReceipt: each time it is submitted, a draft gets new identifiers.
Submit(id) ==
  /\ dialog = Editing
  /\ CanCall
  /\ IsFresh(id)
  /\ dialog' = id
  /\ draft' = draft \cup {id}
  /\ calls' = calls \cup {NewCall("create", token, id)}
  /\ UNCHANGED <<tablesOfReceipts, token, signing, view, drafts, unheard>>

\* The new receipt joins a list that is there, or makes one; the dialog that
\* is open now is closed.  A failure only concerns the dialog that waits.
CreateArrives(c) ==
  /\ c.kind = "create" /\ c.answer # "none"
  /\ calls' = calls \ {c}
  /\ CASE c.answer = "ok" ->
            /\ view' = IF view.status = "ready"
                       THEN ViewOf("ready", view.rows \cup {c.id}, view.late \/ IsLate(c))
                       ELSE ViewOf("ready", {c.id}, IsLate(c))
            /\ CloseDialog
            /\ UNCHANGED token
       [] c.answer = "denied" -> SignsOut
       [] c.answer = "failed" ->
            /\ dialog' = IF dialog = c.id THEN Editing ELSE dialog
            /\ UNCHANGED <<token, view, draft, drafts>>
  /\ UNCHANGED <<tablesOfReceipts, signing, unheard>>

WebNext ==
  \/ \E c \in calls :
       \/ ServeSession(c) \/ ServeList(c) \/ ServeCreate(c) \/ Refuse(c)
       \/ SessionArrives(c) \/ ListArrives(c) \/ CreateArrives(c)
  \/ \E o \in Owners : SignIn(o)
  \/ SignOut \/ Retry \/ OpenDialog \/ Cancel
  \/ \E id \in HReceipts : Submit(id)

WebSpec == WebInit /\ [][WebNext]_webVars

-----------------------------------------------------------------------------
(* Properties. *)

\* Receipts of another owner are on screen only after a late answer to a
\* retry or a creation of an earlier sign-in: the first list of a sign-in
\* can never show them, as the button waits for it.
ShownIsOwn ==
  token # Nobody /\ ~view.late => view.rows \subseteq ListFor(token)

\* A draft becomes two receipts only when an answer was lost between, although
\* each submission is a receipt of its own to the server.
RecordedOnce ==
  \A d \in drafts \cup {draft} :
    Cardinality({id \in d : hosted[id] # NotThere /\ id \notin unheard}) <= 1
=============================================================================
