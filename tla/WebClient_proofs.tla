--------------------------- MODULE WebClient_proofs ---------------------------
(***************************************************************************)
(* WebSpec => []ShownIsOwn and WebSpec => []RecordedOnce, for any owners,  *)
(* identifiers and number of calls that are awaited at a time.             *)
(*                                                                         *)
(* ShownIsOwn needs that one sign-in is under way at a time and that what  *)
(* a list has answered stays true.  RecordedOnce needs that of a draft one *)
(* identifier at most can still be told to be stored.                      *)
(***************************************************************************)
EXTENDS WebClient, FiniteSetTheorems, TLAPS

IsSignIn(c) == c.kind \in {"session", "first"}

\* What is known of a call that is awaited.
CallIsRight(c) ==
  /\ IsSignIn(c) => signing
  /\ c.kind = "session" => token = Nobody
  /\ c.kind = "first" => token \in {c.owner, Nobody}
  /\ c.kind \in {"first", "retry"} => c.rows \subseteq ListFor(c.owner)
  /\ c.kind = "create" =>
       /\ c.id \in draft \cup UNION drafts
       /\ c.answer = "ok" => hosted[c.id].owner = c.owner
       /\ c.answer # "ok" => hosted[c.id] = NotThere \/ c.id \in unheard

\* The client was told, or can still be told, that the receipt is stored.
CanBeHeard(id) ==
  \/ hosted[id] # NotThere /\ id \notin unheard
  \/ \E c \in calls : c.kind = "create" /\ c.id = id /\ c.answer \in {"none", "ok"}

OneIsHeard(d) == \A i, j \in d : CanBeHeard(i) /\ CanBeHeard(j) => i = j

TabIs ==
  /\ hosted \in [HReceipts -> [owner : Owners, merchant : Merchants] \cup {NotThere}]
  /\ token \in Owners \cup {Nobody}
  /\ view \in [status : Statuses, rows : SUBSET HReceipts, late : BOOLEAN]
  /\ draft \in SUBSET HReceipts
  /\ calls \in SUBSET Call
  /\ drafts \in SUBSET SUBSET HReceipts
  /\ dialog \in {NoDialog, Editing} \cup HReceipts
  /\ dialog # NoDialog => token # Nobody

CallsInv ==
  /\ \A c \in calls : CallIsRight(c)
  /\ \A c, e \in calls : IsSignIn(c) /\ IsSignIn(e) => c = e
  /\ \A c, e \in calls : c.kind = "create" /\ e.kind = "create" /\ c.id = e.id => c = e

DraftsInv ==
  /\ \A i \in draft : CanBeHeard(i) => dialog = i
  /\ \A d \in drafts : OneIsHeard(d)

WebInv == TabIs /\ CallsInv /\ DraftsInv /\ ShownIsOwn

-----------------------------------------------------------------------------
(* Lemmas. *)

\* Nothing is awaited, shown or drafted at the start.
LEMMA WebInitInv == WebInit => WebInv
<1> SUFFICES ASSUME WebInit PROVE WebInv
  OBVIOUS
<1>1. TabIs
  BY DEF WebInit, HostedReceiptsInit, TabIs, Blank, ViewOf, Statuses
<1> QED
  BY <1>1 DEF WebInit, WebInv, CallsInv, DraftsInv, ShownIsOwn

\* A call that is answered is otherwise the same call.
LEMMA AnswerIs ==
  ASSUME TabIs, NEW c \in calls, NEW answer \in {"ok", "denied", "failed"}, NEW rows \in SUBSET HReceipts,
         Answer(c, answer, rows)
  PROVE  \E e \in Call :
           /\ calls' = (calls \ {c}) \cup {e}
           /\ e.kind = c.kind /\ e.owner = c.owner /\ e.id = c.id
           /\ e.answer = answer /\ e.rows = rows
<1> DEFINE e == [c EXCEPT !.answer = answer, !.rows = rows]
<1>1. c \in Call
  BY DEF TabIs
<1>2. e \in Call
  BY <1>1 DEF Call
<1>3. e.kind = c.kind /\ e.owner = c.owner /\ e.id = c.id /\ e.answer = answer /\ e.rows = rows
  BY <1>1 DEF Call
<1>4. calls' = (calls \ {c}) \cup {e}
  BY DEF Answer
<1> HIDE DEF e
<1> QED
  BY <1>2, <1>3, <1>4

\* Drafts stay right while nothing new can be heard of.
LEMMA DraftsStay ==
  ASSUME DraftsInv, UNCHANGED <<draft, drafts>>,
         \A i \in HReceipts : CanBeHeard(i)' => CanBeHeard(i), draft \in SUBSET HReceipts,
         drafts \in SUBSET SUBSET HReceipts,
         \A i \in draft : CanBeHeard(i)' /\ dialog = i => dialog' = i
  PROVE  DraftsInv'
<1>1. \A i \in draft' : CanBeHeard(i)' => dialog' = i
  BY DEF DraftsInv
<1>2. ASSUME NEW d \in drafts', NEW i \in d, NEW j \in d, CanBeHeard(i)', CanBeHeard(j)'
      PROVE  i = j
  BY <1>2 DEF DraftsInv, OneIsHeard
<1> QED
  BY <1>1, <1>2 DEF DraftsInv, OneIsHeard

\* The draft of a dialog that goes away has one receipt at most to hear of.
LEMMA DraftsClose ==
  ASSUME DraftsInv, CloseDialog,
         \A i \in HReceipts : CanBeHeard(i)' => CanBeHeard(i), draft \in SUBSET HReceipts,
         drafts \in SUBSET SUBSET HReceipts
  PROVE  DraftsInv'
<1>1. ASSUME NEW d \in drafts', NEW i \in d, NEW j \in d, CanBeHeard(i)', CanBeHeard(j)'
      PROVE  i = j
  <2>1. CASE d = draft
    BY <1>1, <2>1 DEF DraftsInv
  <2>2. CASE d # draft
    BY <1>1, <2>2 DEF DraftsInv, OneIsHeard, CloseDialog
  <2> QED
    BY <2>1, <2>2
<1> QED
  BY <1>1 DEF DraftsInv, OneIsHeard, CloseDialog

\* What an owner was told to have is never lost by another insertion.
LEMMA ListGrows ==
  ASSUME NEW o \in Owners, NEW id, hosted[id] = NotThere, NEW row,
         hosted' = [hosted EXCEPT ![id] = row]
  PROVE  ListFor(o) \subseteq ListFor(o)'
BY NobodyOwns DEF ListFor, NotThere

\* No other call is signing in.
LEMMA AloneSigningIn ==
  ASSUME CallsInv, NEW c \in calls, IsSignIn(c)
  PROVE  signing /\ \A e \in calls \ {c} : ~IsSignIn(e)
BY DEF CallsInv, CallIsRight

-----------------------------------------------------------------------------
(* The server. *)

\* A session, a list or a refusal: no receipt is stored.
LEMMA ServeCallStep ==
  ASSUME WebInv, NEW c \in calls, ServeSession(c) \/ ServeList(c) \/ Refuse(c)
  PROVE  WebInv'
<1>1. UNCHANGED <<tablesOfReceipts, token, signing, view, dialog, draft, drafts, unheard>>
  BY DEF ServeSession, ServeList, Refuse
<1>2. PICK answer \in {"ok", "denied", "failed"}, rows \in SUBSET HReceipts :
        /\ Answer(c, answer, rows)
        /\ c.kind \in {"first", "retry"} => rows \subseteq ListFor(c.owner)
        /\ c.kind = "create" => answer \in {"denied", "failed"}
        /\ c.answer = "none"
  BY DEF ServeSession, ServeList, Refuse, ListFor
<1>3. PICK e \in Call :
        /\ calls' = (calls \ {c}) \cup {e}
        /\ e.kind = c.kind /\ e.owner = c.owner /\ e.id = c.id
        /\ e.answer = answer /\ e.rows = rows
  BY <1>2, AnswerIs DEF WebInv
<1>4. TabIs'
  BY <1>1, <1>3 DEF WebInv, TabIs, tablesOfReceipts
<1>5. CallsInv'
  <2>1. \A x \in calls \cup {e} : CallIsRight(x)'
    BY <1>1, <1>2, <1>3 DEF WebInv, CallsInv, CallIsRight, IsSignIn, ListFor, tablesOfReceipts
  <2> QED
    BY <1>3, <2>1 DEF WebInv, CallsInv, IsSignIn
<1>6. \A i \in HReceipts : CanBeHeard(i)' => CanBeHeard(i)
  BY <1>1, <1>2, <1>3 DEF CanBeHeard, tablesOfReceipts
<1>7. DraftsInv'
  BY <1>1, <1>6, DraftsStay DEF WebInv, TabIs
<1>8. ShownIsOwn'
  BY <1>1 DEF WebInv, ShownIsOwn, ListFor, tablesOfReceipts
<1> QED
  BY <1>4, <1>5, <1>7, <1>8 DEF WebInv

\* A receipt is stored, whose call was awaited; the tab will hear of it, or
\* never will.
LEMMA ServeCreateStep ==
  ASSUME WebInv, NEW c \in calls, ServeCreate(c)
  PROVE  WebInv'
<1>1. /\ UNCHANGED <<token, signing, view, dialog, draft, drafts>>
      /\ c.kind = "create" /\ c.answer = "none"
  BY DEF ServeCreate
<1>2. PICK m \in Merchants : InsertReceipt(c.owner, c.id, m)
  BY DEF ServeCreate
<1>3. /\ hosted[c.id] = NotThere
      /\ hosted' = [hosted EXCEPT ![c.id] = [owner |-> c.owner, merchant |-> m]]
  BY <1>2 DEF InsertReceipt, MayCreate
<1>4. PICK answer \in {"ok", "failed"} :
        /\ Answer(c, answer, {})
        /\ unheard' = IF answer = "failed" THEN unheard \cup {c.id} ELSE unheard
  BY DEF ServeCreate
<1>5. PICK e \in Call :
        /\ calls' = (calls \ {c}) \cup {e}
        /\ e.kind = "create" /\ e.owner = c.owner /\ e.id = c.id
        /\ e.answer = answer /\ e.rows = {}
  BY <1>1, <1>4, AnswerIs DEF WebInv
<1>6. c \in Call /\ c.owner \in Owners /\ c.id \in HReceipts
  <2>1. c \in Call /\ c.owner \in Owners
    BY DEF WebInv, TabIs, Call
  <2>2. c.id \in draft \cup UNION drafts
    BY <1>1 DEF WebInv, CallsInv, CallIsRight
  <2> QED
    BY <2>1, <2>2 DEF WebInv, TabIs
<1>7. /\ hosted'[c.id] = [owner |-> c.owner, merchant |-> m]
      /\ \A id \in HReceipts \ {c.id} : hosted'[id] = hosted[id]
      /\ hosted' \in [HReceipts -> [owner : Owners, merchant : Merchants] \cup {NotThere}]
  BY <1>3, <1>6 DEF WebInv, TabIs
<1>8. TabIs'
  BY <1>1, <1>5, <1>7 DEF WebInv, TabIs
<1>9. \A o \in Owners : ListFor(o) \subseteq ListFor(o)'
  BY <1>3, ListGrows
<1>10. CallsInv'
  <2>1. ASSUME NEW x \in calls, x # c PROVE CallIsRight(x)'
    <3>1. CallIsRight(x) /\ x.owner \in Owners
      BY DEF WebInv, CallsInv, TabIs, Call
    <3>2. x.kind = "create" => x.id # c.id /\ x.id \in HReceipts
      BY <1>1, <2>1, <3>1 DEF WebInv, CallsInv, CallIsRight, TabIs
    <3>3. x.rows \subseteq ListFor(x.owner) => x.rows \subseteq ListFor(x.owner)'
      BY <1>9, <3>1
    <3>4. x.kind = "create" => hosted'[x.id] = hosted[x.id]
      BY <1>7, <3>2
    <3> QED
      BY <1>1, <1>4, <3>1, <3>3, <3>4 DEF CallIsRight, IsSignIn, ListFor
  <2>2. CallIsRight(e)'
    <3>1. c.id \in draft \cup UNION drafts
      BY <1>1 DEF WebInv, CallsInv, CallIsRight
    <3> QED
      BY <1>1, <1>4, <1>5, <1>7, <3>1 DEF CallIsRight, IsSignIn
  <2> QED
    BY <1>1, <1>5, <2>1, <2>2 DEF WebInv, CallsInv, IsSignIn
<1>11. \A i \in HReceipts : CanBeHeard(i)' => CanBeHeard(i)
  BY <1>1, <1>4, <1>5, <1>7 DEF CanBeHeard
<1>12. DraftsInv'
  BY <1>1, <1>11, DraftsStay DEF WebInv, TabIs
<1>13. ShownIsOwn'
  <2>1. token # Nobody /\ ~view.late => view.rows \subseteq ListFor(token)'
    BY <1>1, <1>9 DEF WebInv, ShownIsOwn, TabIs
  <2> QED
    BY <1>1, <2>1 DEF ShownIsOwn, ListFor
<1> QED
  BY <1>8, <1>10, <1>12, <1>13 DEF WebInv

-----------------------------------------------------------------------------
(* The tab. *)

\* A call is asked that is no creation.
LEMMA AskStep ==
  ASSUME WebInv, NEW o \in Owners, NEW kind \in {"session", "first", "retry"},
         UNCHANGED <<tablesOfReceipts, draft, drafts, dialog, unheard>>, TabIs', ShownIsOwn',
         NEW others \in SUBSET calls,
         calls' = others \cup {NewCall(kind, o, Nobody)},
         CallIsRight(NewCall(kind, o, Nobody))',
         \A c \in others : CallIsRight(c)',
         kind # "retry" => \A c \in others : ~IsSignIn(c)
  PROVE  WebInv'
<1> DEFINE e == NewCall(kind, o, Nobody)
<1>1. e.kind = kind /\ e.owner = o /\ e.answer = "none"
  BY DEF NewCall
<1> HIDE DEF e
<1>2. CallsInv'
  <2>1. \A x \in others : IsSignIn(x) => kind = "retry"
    OBVIOUS
  <2>2. \A x, y \in others : IsSignIn(x) /\ IsSignIn(y) => x = y
    BY DEF WebInv, CallsInv
  <2>3. \A x, y \in others : x.kind = "create" /\ y.kind = "create" /\ x.id = y.id => x = y
    BY DEF WebInv, CallsInv
  <2> QED
    BY <1>1, <2>1, <2>2, <2>3 DEF CallsInv, IsSignIn, e
<1>3. \A i \in HReceipts : CanBeHeard(i)' => CanBeHeard(i)
  BY <1>1 DEF CanBeHeard, tablesOfReceipts, e
<1>4. DraftsInv'
  BY <1>3, DraftsStay DEF WebInv, TabIs
<1> QED
  BY <1>2, <1>4 DEF WebInv

\* A call is over: a subset of the calls is left, and they are still right.
LEMMA OverStep ==
  ASSUME WebInv, NEW others \in SUBSET calls, calls' = others, UNCHANGED <<tablesOfReceipts, unheard>>,
         \A c \in others : CallIsRight(c)',
         \/ CloseDialog
         \/ UNCHANGED <<draft, drafts>> /\ \A i \in draft : CanBeHeard(i)' /\ dialog = i => dialog' = i,
         TabIs', ShownIsOwn'
  PROVE  WebInv'
<1>1. CallsInv'
  BY DEF WebInv, CallsInv, IsSignIn
<1>2. \A i \in HReceipts : CanBeHeard(i)' => CanBeHeard(i)
  BY DEF CanBeHeard, tablesOfReceipts
<1>3. DraftsInv'
  BY <1>2, DraftsStay, DraftsClose DEF WebInv, TabIs
<1> QED
  BY <1>1, <1>3 DEF WebInv

\* A call that was right stays right, if it is about nothing that changes.
LEMMA StillRight ==
  ASSUME WebInv, NEW c \in calls, UNCHANGED <<tablesOfReceipts, unheard>>,
         draft \cup UNION drafts \subseteq draft' \cup UNION drafts',
         IsSignIn(c) => signing' /\ token' \in {token, Nobody}
  PROVE  CallIsRight(c)'
BY DEF WebInv, CallsInv, CallIsRight, IsSignIn, ListFor, tablesOfReceipts

\* What a dialog has sent is remembered when it goes away.
LEMMA ClosedDrafts == CloseDialog => draft \cup UNION drafts \subseteq draft' \cup UNION drafts'
BY DEF CloseDialog

\* Types that follow from those of the parts.
LEMMA TabParts ==
  ASSUME WebInv, UNCHANGED tablesOfReceipts, token' \in {token, Nobody},
         calls' \subseteq calls \/ \E e \in Call : calls' = calls \cup {e},
         \/ CloseDialog
         \/ /\ token' = token /\ draft' = draft /\ drafts' = drafts
            /\ dialog' = dialog \/ (dialog' = Editing /\ token # Nobody),
         view' \in [status : Statuses, rows : SUBSET HReceipts, late : BOOLEAN]
  PROVE  TabIs'
BY DEF WebInv, TabIs, CloseDialog, tablesOfReceipts

\* A view that stays is one.
LEMMA ViewIs == WebInv => view \in [status : Statuses, rows : SUBSET HReceipts, late : BOOLEAN]
BY DEF WebInv, TabIs

\* A blank view is one, and shows nothing.
LEMMA BlankIs ==
  ASSUME NEW status \in Statuses
  PROVE  /\ Blank(status) \in [status : Statuses, rows : SUBSET HReceipts, late : BOOLEAN]
         /\ Blank(status).rows = {}
BY DEF Blank, ViewOf

\* The button is not disabled, so nothing is signing in.
LEMMA SignInStep ==
  ASSUME WebInv, NEW o \in Owners, SignIn(o)
  PROVE  WebInv'
<1>1. /\ UNCHANGED <<tablesOfReceipts, token, view, dialog, draft, drafts, unheard>>
      /\ token = Nobody /\ ~signing /\ signing' = TRUE
      /\ calls' = calls \cup {NewCall("session", o, Nobody)}
  BY DEF SignIn
<1>2. NewCall("session", o, Nobody) \in Call
  BY DEF NewCall, Call
<1>3. TabIs'
  BY <1>1, <1>2, TabParts, ViewIs
<1>4. \A c \in calls : ~IsSignIn(c)
  BY <1>1, AloneSigningIn DEF WebInv
<1>5. \A c \in calls : CallIsRight(c)'
  BY <1>1, <1>4, StillRight
<1>6. CallIsRight(NewCall("session", o, Nobody))'
  BY <1>1 DEF CallIsRight, NewCall, IsSignIn
<1>7. ShownIsOwn'
  BY <1>1 DEF ShownIsOwn
<1> QED
  BY <1>1, <1>3, <1>4, <1>5, <1>6, <1>7, AskStep

\* Only the one call that signs in is answered by a session, so nobody else's
\* list can be the first.
LEMMA SessionStep ==
  ASSUME WebInv, NEW c \in calls, SessionArrives(c)
  PROVE  WebInv'
<1>1. /\ UNCHANGED <<tablesOfReceipts, dialog, draft, drafts, unheard>>
      /\ c.kind = "session" /\ c \in Call /\ c.owner \in Owners
  BY DEF SessionArrives, WebInv, TabIs, Call
<1>2. signing /\ token = Nobody /\ \A x \in calls \ {c} : ~IsSignIn(x)
  BY <1>1, AloneSigningIn DEF WebInv, CallsInv, CallIsRight, IsSignIn
<1>3. \A x \in calls \ {c} : CallIsRight(x)'
  BY <1>1, <1>2, StillRight
<1>4. CASE c.answer = "ok"
  <2> DEFINE e == NewCall("first", c.owner, Nobody)
  <2>1. /\ token' = c.owner /\ view' = Blank("loading") /\ signing' = signing
        /\ calls' = (calls \ {c}) \cup {e}
    BY <1>4 DEF SessionArrives
  <2>2. e \in Call
    BY <1>1 DEF NewCall, Call
  <2>3. TabIs'
    BY <1>1, <2>1, <2>2, BlankIs, NobodyOwns DEF WebInv, TabIs, tablesOfReceipts, Statuses
  <2>4. CallIsRight(e)'
    BY <1>2, <2>1 DEF CallIsRight, NewCall, IsSignIn
  <2>5. ShownIsOwn'
    BY <2>1, BlankIs DEF ShownIsOwn, Statuses
  <2> QED
    BY <1>1, <1>2, <1>3, <2>1, <2>3, <2>4, <2>5, AskStep
<1>5. CASE c.answer # "ok"
  <2>1. signing' = FALSE /\ calls' = calls \ {c} /\ UNCHANGED <<token, view>>
    BY <1>5 DEF SessionArrives
  <2>2. TabIs'
    BY <1>1, <2>1, TabParts, ViewIs
  <2>3. ShownIsOwn'
    BY <1>1, <2>1 DEF WebInv, ShownIsOwn, ListFor, tablesOfReceipts
  <2> QED
    BY <1>1, <1>3, <2>1, <2>2, <2>3, OverStep
<1> QED
  BY <1>4, <1>5

\* Signing out leaves the calls to arrive, and takes the view and the dialog.
LEMMA SignsOutKeeps ==
  ASSUME WebInv, SignsOut, UNCHANGED <<tablesOfReceipts, unheard>>,
         NEW others \in SUBSET calls, calls' = others,
         \A c \in others : IsSignIn(c) => signing'
  PROVE  WebInv'
<1>1. token' = Nobody /\ view' = Blank("idle") /\ CloseDialog
  BY DEF SignsOut
<1>2. TabIs'
  BY <1>1, TabParts, BlankIs DEF Statuses
<1>3. \A c \in others : CallIsRight(c)'
  BY <1>1, ClosedDrafts, StillRight
<1>4. ShownIsOwn'
  BY <1>1 DEF ShownIsOwn
<1> QED
  BY <1>1, <1>2, <1>3, <1>4, OverStep

\* The user signs out while calls are awaited.
LEMMA SignOutStep == WebInv /\ SignOut => WebInv'
<1> SUFFICES ASSUME WebInv, SignOut PROVE WebInv'
  OBVIOUS
<1>1. SignsOut /\ UNCHANGED <<tablesOfReceipts, signing, calls, unheard>>
  BY DEF SignOut
<1>2. \A c \in calls : IsSignIn(c) => signing'
  BY <1>1, AloneSigningIn DEF WebInv
<1> QED
  BY <1>1, <1>2, SignsOutKeeps

\* The first list of a sign-in is of the owner who is signed in, if anybody
\* is; any other list is called late unless it is.
LEMMA ListStep ==
  ASSUME WebInv, NEW c \in calls, ListArrives(c)
  PROVE  WebInv'
<1>1. /\ UNCHANGED <<tablesOfReceipts, unheard>> /\ calls' = calls \ {c}
      /\ signing' = IF c.kind = "first" THEN FALSE ELSE signing
      /\ c.kind \in {"first", "retry"} /\ CallIsRight(c) /\ c \in Call
  BY DEF ListArrives, WebInv, CallsInv, TabIs
<1>2. \A x \in calls \ {c} : IsSignIn(x) => signing'
  BY <1>1, AloneSigningIn DEF WebInv, IsSignIn, CallsInv, CallIsRight
<1>3. CASE c.answer = "denied"
  BY <1>1, <1>2, <1>3, SignsOutKeeps DEF ListArrives
<1>4. CASE c.answer # "denied"
  <2>1. /\ view' = IF c.answer = "ok" THEN ViewOf("ready", c.rows, IsLate(c)) ELSE Blank("error")
        /\ UNCHANGED <<token, dialog, draft, drafts>>
    BY <1>4 DEF ListArrives
  <2>2. \A x \in calls \ {c} : CallIsRight(x)'
    BY <1>1, <1>2, <2>1, StillRight
  <2>3. CASE c.answer = "ok"
    <3>1. view'.rows = c.rows /\ view'.late = IsLate(c)
      BY <2>1, <2>3 DEF ViewOf
    <3>2. view' \in [status : Statuses, rows : SUBSET HReceipts, late : BOOLEAN]
      BY <1>1, <2>1, <2>3 DEF ViewOf, Call, Statuses, IsLate
    <3>3. token # Nobody /\ ~IsLate(c) => c.owner = token
      BY <1>1 DEF IsLate, CallIsRight
    <3>4. c.rows \subseteq ListFor(c.owner)
      BY <1>1 DEF CallIsRight
    <3>5. ShownIsOwn'
      BY <1>1, <2>1, <3>1, <3>3, <3>4 DEF ShownIsOwn, ListFor, tablesOfReceipts
    <3>6. TabIs'
      BY <1>1, <2>1, <3>2, TabParts, ViewIs
    <3> QED
      BY <1>1, <2>1, <2>2, <3>5, <3>6, OverStep
  <2>4. CASE c.answer # "ok"
    <3>1. view' = Blank("error")
      BY <2>1, <2>4
    <3>2. TabIs' /\ ShownIsOwn'
      BY <1>1, <2>1, <3>1, TabParts, BlankIs DEF Statuses, ShownIsOwn
    <3> QED
      BY <1>1, <2>1, <2>2, <3>2, OverStep
  <2> QED
    BY <2>3, <2>4
<1> QED
  BY <1>3, <1>4

\* A retry is asked for whoever is signed in.
LEMMA RetryStep == WebInv /\ Retry => WebInv'
<1> SUFFICES ASSUME WebInv, Retry PROVE WebInv'
  OBVIOUS
<1>1. /\ UNCHANGED <<tablesOfReceipts, token, signing, dialog, draft, drafts, unheard>>
      /\ token \in Owners /\ view' = Blank("loading")
      /\ calls' = calls \cup {NewCall("retry", token, Nobody)}
  BY DEF Retry, WebInv, TabIs
<1>2. NewCall("retry", token, Nobody) \in Call
  BY <1>1 DEF NewCall, Call
<1>3. TabIs' /\ ShownIsOwn'
  BY <1>1, <1>2, TabParts, BlankIs DEF Statuses, ShownIsOwn
<1>4. \A c \in calls : CallIsRight(c)'
  BY <1>1, StillRight DEF WebInv, CallsInv, CallIsRight
<1>5. CallIsRight(NewCall("retry", token, Nobody))'
  BY <1>1 DEF CallIsRight, NewCall, IsSignIn
<1> QED
  BY <1>1, <1>3, <1>4, <1>5, AskStep

\* The dialog opens with nothing sent, or is cancelled while nothing is.
LEMMA DialogStep == WebInv /\ (OpenDialog \/ Cancel) => WebInv'
<1> SUFFICES ASSUME WebInv, OpenDialog \/ Cancel PROVE WebInv'
  OBVIOUS
<1>1. UNCHANGED <<tablesOfReceipts, token, signing, view, calls, unheard>>
  BY DEF OpenDialog, Cancel
<1>2. TabIs'
  BY <1>1, TabParts DEF WebInv, TabIs, OpenDialog, Cancel
<1>3. draft \cup UNION drafts \subseteq draft' \cup UNION drafts'
  BY ClosedDrafts DEF OpenDialog, Cancel
<1>4. \A c \in calls : CallIsRight(c)'
  BY <1>1, <1>3, AloneSigningIn, StillRight DEF WebInv
<1>5. ShownIsOwn'
  BY <1>1 DEF WebInv, ShownIsOwn, ListFor, tablesOfReceipts
<1>6. \/ CloseDialog
      \/ UNCHANGED <<draft, drafts>> /\ \A i \in draft : CanBeHeard(i)' /\ dialog = i => dialog' = i
  BY DialogIsNoReceipt DEF OpenDialog, Cancel, WebInv, TabIs
<1> QED
  BY <1>1, <1>2, <1>4, <1>5, <1>6, OverStep

\* Another identifier joins the draft, when none of it can be heard of.
LEMMA SubmitStep ==
  ASSUME WebInv, NEW id \in HReceipts, Submit(id)
  PROVE  WebInv'
<1>1. /\ UNCHANGED <<tablesOfReceipts, token, signing, view, drafts, unheard>>
      /\ dialog = Editing /\ dialog' = id /\ draft' = draft \cup {id}
      /\ calls' = calls \cup {NewCall("create", token, id)}
      /\ id \notin draft \cup UNION drafts /\ hosted[id] = NotThere
  BY DEF Submit, IsFresh
<1>2. token \in Owners
  BY <1>1 DEF WebInv, TabIs, NoDialog, Editing
<1>3. PICK e \in Call :
        /\ calls' = calls \cup {e}
        /\ e.kind = "create" /\ e.id = id /\ e.answer = "none" /\ e.owner = token
  <2> DEFINE n == NewCall("create", token, id)
  <2>1. n \in Call /\ n.kind = "create" /\ n.id = id /\ n.answer = "none" /\ n.owner = token
    BY <1>2 DEF NewCall, Call
  <2> QED
    BY <1>1, <2>1
<1>4. \A c \in calls : c.kind = "create" => c.id # id
  BY <1>1 DEF WebInv, CallsInv, CallIsRight
<1>5. \A c \in calls : CallIsRight(c)'
  BY <1>1, AloneSigningIn, StillRight DEF WebInv
<1>6. CallIsRight(e)'
  BY <1>1, <1>3 DEF CallIsRight, IsSignIn, tablesOfReceipts
<1>7. CallsInv'
  BY <1>1, <1>3, <1>4, <1>5, <1>6 DEF WebInv, CallsInv, IsSignIn
<1>8. \A i \in HReceipts : CanBeHeard(i)' => CanBeHeard(i) \/ i = id
  BY <1>1, <1>3 DEF CanBeHeard, tablesOfReceipts
<1>9. DraftsInv'
  <2>1. \A i \in draft : ~CanBeHeard(i)
    BY <1>1, DialogIsNoReceipt DEF WebInv, DraftsInv, TabIs
  <2>2. \A i \in draft' : CanBeHeard(i)' => dialog' = i
    BY <1>1, <1>8, <2>1 DEF WebInv, TabIs
  <2>3. ASSUME NEW d \in drafts', NEW i \in d, NEW j \in d, CanBeHeard(i)', CanBeHeard(j)'
        PROVE  i = j
    <3>1. d \in drafts /\ i \in HReceipts /\ j \in HReceipts /\ i # id /\ j # id
      BY <1>1, <2>3 DEF WebInv, TabIs
    <3> QED
      BY <1>8, <2>3, <3>1 DEF WebInv, DraftsInv, OneIsHeard
  <2> QED
    BY <2>2, <2>3 DEF DraftsInv, OneIsHeard
<1>10. ShownIsOwn'
  BY <1>1 DEF WebInv, ShownIsOwn, ListFor, tablesOfReceipts
<1>11. TabIs'
  BY <1>1, <1>2, <1>3, NobodyOwns DEF WebInv, TabIs, tablesOfReceipts
<1> QED
  BY <1>7, <1>9, <1>10, <1>11 DEF WebInv

\* The dialog that is open goes away with any answer but a failure, and can
\* send again after the failure of what it waited for.
LEMMA CreateArrivesStep ==
  ASSUME WebInv, NEW c \in calls, CreateArrives(c)
  PROVE  WebInv'
<1>1. /\ UNCHANGED <<tablesOfReceipts, signing, unheard>> /\ calls' = calls \ {c}
      /\ c.kind = "create" /\ CallIsRight(c) /\ c \in Call /\ c.answer \in {"ok", "denied", "failed"}
  BY DEF CreateArrives, WebInv, CallsInv, TabIs, Call
<1>2. \A x \in calls : IsSignIn(x) => signing
  BY AloneSigningIn DEF WebInv
<1>3. c.id \in HReceipts
  BY <1>1 DEF CallIsRight, WebInv, TabIs
<1>4. CASE c.answer = "ok"
  <2>1. /\ view' = IF view.status = "ready"
                   THEN ViewOf("ready", view.rows \cup {c.id}, view.late \/ IsLate(c))
                   ELSE ViewOf("ready", {c.id}, IsLate(c))
        /\ CloseDialog /\ UNCHANGED token
    BY <1>4 DEF CreateArrives
  <2>2. \A x \in calls \ {c} : CallIsRight(x)'
    BY <1>1, <1>2, <2>1, ClosedDrafts, StillRight
  <2>3. view' \in [status : Statuses, rows : SUBSET HReceipts, late : BOOLEAN]
    BY <1>3, <2>1 DEF ViewOf, Statuses, IsLate, WebInv, TabIs
  <2>4. TabIs'
    BY <1>1, <2>1, <2>3, TabParts, ViewIs
  <2>5. view'.rows \subseteq view.rows \cup {c.id} /\ (~view'.late => ~IsLate(c))
    BY <2>1 DEF ViewOf
  <2>6. view.status # "ready" => view'.rows = {c.id}
    BY <2>1 DEF ViewOf
  <2>7. view.status = "ready" /\ ~view'.late => ~view.late
    BY <2>1 DEF ViewOf
  <2>8. ~IsLate(c) => c.owner = token /\ c.id \in ListFor(c.owner)
    BY <1>1, <1>3, <1>4 DEF IsLate, CallIsRight, ListFor
  <2>9. ShownIsOwn'
    <3> SUFFICES ASSUME token # Nobody, ~view'.late PROVE view'.rows \subseteq ListFor(token)
      BY <1>1, <2>1 DEF ShownIsOwn, ListFor, tablesOfReceipts
    <3> QED
      BY <2>5, <2>6, <2>7, <2>8 DEF WebInv, ShownIsOwn
  <2> QED
    BY <1>1, <2>1, <2>2, <2>4, <2>9, OverStep
<1>5. CASE c.answer = "denied"
  BY <1>1, <1>2, <1>5, SignsOutKeeps DEF CreateArrives
<1>6. CASE c.answer = "failed"
  <2>1. /\ dialog' = IF dialog = c.id THEN Editing ELSE dialog
        /\ UNCHANGED <<token, view, draft, drafts>>
    BY <1>6 DEF CreateArrives
  <2>2. \A x \in calls \ {c} : CallIsRight(x)'
    BY <1>1, <1>2, <2>1, StillRight
  <2>3. dialog = c.id => token # Nobody
    BY <1>3, DialogIsNoReceipt DEF WebInv, TabIs
  <2>4. TabIs'
    BY <1>1, <2>1, <2>3, TabParts, ViewIs
  <2>5. ShownIsOwn'
    BY <1>1, <2>1 DEF WebInv, ShownIsOwn, ListFor, tablesOfReceipts
  <2>6. ~CanBeHeard(c.id)'
    BY <1>1, <1>6 DEF CanBeHeard, CallIsRight, WebInv, CallsInv, tablesOfReceipts
  <2>7. \A i \in draft : CanBeHeard(i)' /\ dialog = i => dialog' = i
    BY <2>1, <2>6
  <2> QED
    BY <1>1, <2>1, <2>2, <2>4, <2>5, <2>7, OverStep
<1> QED
  BY <1>1, <1>4, <1>5, <1>6

\* Every step keeps the invariant.
LEMMA WebStep == WebInv /\ [WebNext]_webVars => WebInv'
<1> SUFFICES ASSUME WebInv, [WebNext]_webVars PROVE WebInv'
  OBVIOUS
<1>1. CASE UNCHANGED webVars
  BY <1>1 DEF webVars, tab, tablesOfReceipts, WebInv, TabIs, CallsInv, CallIsRight, DraftsInv, OneIsHeard,
     CanBeHeard, ShownIsOwn, ListFor, IsSignIn
<1>2. CASE WebNext
  BY <1>2, ServeCallStep, ServeCreateStep, SignInStep, SessionStep, SignOutStep, ListStep, RetryStep, DialogStep,
     SubmitStep, CreateArrivesStep DEF WebNext
<1> QED
  BY <1>1, <1>2

-----------------------------------------------------------------------------
(* The theorems. *)

\* The invariant holds always.
LEMMA WebAlways == WebSpec => []WebInv
BY WebInitInv, WebStep, PTL DEF WebSpec

\* Whoever is signed in sees receipts of another owner only after a late
\* answer to a retry or a creation (loadReceipts, submitIdentity).
THEOREM OwnIsShown == WebSpec => []ShownIsOwn
BY WebAlways, PTL DEF WebInv

\* A draft becomes two receipts only when an answer was lost between, however
\* often it is submitted (createReceipt, CreateReceiptDialog).
THEOREM DraftIsOneReceipt == WebSpec => []RecordedOnce
<1>1. WebInv => RecordedOnce
  <2> SUFFICES ASSUME WebInv, NEW d \in drafts \cup {draft}
               PROVE  Cardinality({id \in d : hosted[id] # NotThere /\ id \notin unheard}) <= 1
    BY DEF RecordedOnce
  <2> DEFINE S == {id \in d : hosted[id] # NotThere /\ id \notin unheard}
  <2>1. \A i, j \in S : i = j
    BY DEF WebInv, DraftsInv, OneIsHeard, CanBeHeard
  <2>2. S = {} \/ \E i \in S : S = {i}
    BY <2>1
  <2> HIDE DEF S
  <2>3. Cardinality(S) \in {0, 1}
    BY <2>2, FS_EmptySet, FS_Singleton
  <2> QED
    BY <2>3 DEF S
<1> QED
  BY <1>1, WebAlways, PTL
===============================================================================
