---------------------------- MODULE HostedReceipts ----------------------------
(***************************************************************************)
(* The receipt tables of the hosted API: PostgresHostedReceiptRepository,  *)
(* and its stand-in of process memory, behind POST and GET /v1/receipts.   *)
(*                                                                         *)
(* Every identifier is chosen by the client, so two owners may choose the  *)
(* same one.  The owner is the subject of the verified token, and never    *)
(* part of the request.  A repository operation is one transaction.        *)
(***************************************************************************)
EXTENDS Naturals, FiniteSets

CONSTANTS
  Owners,       \* subjects of tokens
  HReceipts,    \* identifiers a client may choose for a receipt
  Merchants     \* identifiers a client may choose for a merchant

Nobody == "nobody"
NotThere == [owner |-> Nobody, merchant |-> Nobody]

ASSUME NobodyOwns == Nobody \notin Owners /\ Nobody \notin Merchants

VARIABLES
  merchant,     \* hosted_merchants: owner_id by id
  hosted        \* hosted_receipts: owner_id and merchant_id by id

tablesOfReceipts == <<merchant, hosted>>

HostedReceiptsTypeOK ==
  /\ merchant \in [Merchants -> Owners \cup {Nobody}]
  /\ hosted \in [HReceipts -> [owner : Owners, merchant : Merchants] \cup {NotThere}]

HostedReceiptsInit ==
  /\ merchant = [m \in Merchants |-> Nobody]
  /\ hosted = [r \in HReceipts |-> NotThere]

\* INSERT ... ON CONFLICT (id) DO UPDATE ... WHERE owner_id = EXCLUDED.owner_id.
UpsertsMerchant(o, m) == merchant[m] \in {o, Nobody}

\* Both primary keys are free for this owner.
MayCreate(o, r, m) == UpsertsMerchant(o, m) /\ hosted[r] = NotThere

\* create(): the merchant is inserted or renamed, the receipt inserted.
InsertReceipt(o, r, m) ==
  /\ MayCreate(o, r, m)
  /\ merchant' = [merchant EXCEPT ![m] = o]
  /\ hosted' = [hosted EXCEPT ![r] = [owner |-> o, merchant |-> m]]

\* listForOwner, in the order the client does not see changed; the limit of
\* 100 is beyond every instance.
ListFor(o) == {r \in HReceipts : hosted[r].owner = o}

\* Everything a row refers to has the owner of the row, although identifiers
\* are shared between owners and a merchant is renamed by whoever repeats it.
ReceiptOwnersAgree ==
  \A r \in HReceipts : hosted[r] # NotThere => merchant[hosted[r].merchant] = hosted[r].owner
=============================================================================
