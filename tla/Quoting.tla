------------------------------ MODULE Quoting ------------------------------
(***************************************************************************)
(* Quotes and the invoices made from them                                  *)
(* (src/backend/app/routers/quotes.py, routers/invoices.py).               *)
(*                                                                         *)
(* send, approve and reject are single conditional UPDATEs, hence one      *)
(* action each.  update_quote and delete_quote read the row without a lock *)
(* and write it later by its id alone.  A conversion locks the quote (FOR  *)
(* UPDATE), takes the number MAX(id) + 1 of the invoices it can see, and   *)
(* inserts; a direct invoice does the same without a quote.                *)
(*                                                                         *)
(* The amounts of a quote are its two fees and the total; the subtotal of  *)
(* the items never changes.  Addresses, rates and texts are left out.      *)
(***************************************************************************)
EXTENDS Naturals, FiniteSets

CONSTANTS
  Quotes,
  Users,         \* requests that take more than one statement
  Fees,          \* amounts a shipping fee or a tax may have
  Subtotal,      \* sum of the items of a quote
  NoQuote,       \* quote_id IS NULL
  MaxEdits,      \* bound: calls of update_quote
  MaxId          \* bound: ids drawn from the sequence of invoices

ASSUME AmountsAssumption == Fees \subseteq Nat /\ Subtotal \in Nat
ASSUME NoQuoteAssumption == NoQuote \notin Quotes
ASSUME BoundsAssumption == MaxEdits \in Nat /\ MaxId \in Nat

VARIABLES
  quote,      \* rows of quotes
  invoices,   \* rows of invoices
  lastId,     \* last value of the sequence invoices_id_seq
  req,        \* what a request of a user knows
  edits,
  agreed,     \* the amounts as they were approved
  disturbed   \* quotes with an edit under way while they were approved

vars == <<quote, invoices, lastId, req, edits, agreed, disturbed>>

Amounts == [ship : Fees, tax : Fees, total : Nat]
AmountsOrNothing == [ship : Fees \cup {0}, tax : Fees \cup {0}, total : Nat]
Status == {"absent", "draft", "sent", "approved", "rejected", "deleted"}
Field == {"ship", "tax"}

Nothing == [ship |-> 0, tax |-> 0, total |-> 0]
Total(ship, tax) == Subtotal + ship + tax
Priced(ship, tax) ==
  [ship |-> ship, tax |-> tax, total |-> Total(ship, tax)]

Idle == [step |-> "idle", quote |-> NoQuote, fields |-> {},
         amounts |-> Nothing, number |-> 0]

(* A request knows where it is, its quote, the columns it will set, the    *)
(* amounts and the number it has worked out.                               *)
Request ==
  [step : {"idle", "editing", "deleting", "pricing", "inserting"},
   quote : Quotes \cup {NoQuote}, fields : SUBSET Field,
   amounts : AmountsOrNothing,
   number : Nat]

TypeOK ==
  /\ DOMAIN quote = Quotes
  /\ \A q \in Quotes :
       /\ quote[q].status \in Status
       /\ quote[q].status \notin {"absent", "deleted"} =>
            quote[q].amounts \in Amounts
  /\ \A i \in invoices :
       /\ i.id \in 1..lastId /\ i.number \in 1..(MaxId + 1)
       /\ i.quote \in Quotes \cup {NoQuote} /\ i.amounts \in Amounts
  /\ lastId \in 0..MaxId
  /\ req \in [Users -> Request]
  /\ edits \in 0..MaxEdits
  /\ agreed \in [Quotes -> AmountsOrNothing]
  /\ disturbed \subseteq Quotes

Init ==
  /\ quote = [q \in Quotes |-> [status |-> "absent", amounts |-> Nothing]]
  /\ invoices = {}
  /\ lastId = 0
  /\ req = [u \in Users |-> Idle]
  /\ edits = 0
  /\ agreed = [q \in Quotes |-> Nothing]
  /\ disturbed = {}

-----------------------------------------------------------------------------
(* Helpers                                                                 *)

At(u, step) == req[u].step = step
End(u) == req' = [req EXCEPT ![u] = Idle]

(* A conversion holds the lock of its quote until it commits.              *)
Locked(q) ==
  \E u \in Users : req[u].quote = q /\ req[u].step \in {"pricing", "inserting"}

InvoicesOf(q) == {i \in invoices : i.quote = q}

SetStatus(q, s) == quote' = [quote EXCEPT ![q].status = s]

(* UPDATE quotes SET status = to WHERE id = q AND status = from.           *)
Move(q, from, to) ==
  /\ quote[q].status = from
  /\ ~ Locked(q)
  /\ SetStatus(q, to)

-----------------------------------------------------------------------------
(* The life of a quote                                                     *)

CreateQuote(q) ==
  /\ quote[q].status = "absent"
  /\ \E ship, tax \in Fees :
       quote' = [quote EXCEPT ![q] =
                   [status |-> "draft", amounts |-> Priced(ship, tax)]]
  /\ UNCHANGED <<invoices, lastId, req, edits, agreed, disturbed>>

SendQuote(q) ==
  /\ Move(q, "draft", "sent")
  /\ UNCHANGED <<invoices, lastId, req, edits, agreed, disturbed>>

Editing(q) == \E u \in Users : At(u, "editing") /\ req[u].quote = q

ApproveQuote(q) ==
  /\ Move(q, "sent", "approved")
  /\ agreed' = [agreed EXCEPT ![q] = quote[q].amounts]
  /\ disturbed' = IF Editing(q) THEN disturbed \cup {q} ELSE disturbed
  /\ UNCHANGED <<invoices, lastId, req, edits>>

RejectQuote(q) ==
  /\ Move(q, "sent", "rejected")
  /\ UNCHANGED <<invoices, lastId, req, edits, agreed, disturbed>>

-----------------------------------------------------------------------------
(* update_quote: SELECT, then UPDATE by id                                 *)

(* Mutant of Editable: an approved quote may still be edited.              *)
EditableLate(q) == quote[q].status \in {"draft", "sent", "approved"}

Editable(q) == quote[q].status \in {"draft", "sent"}

NewTotal(fields, ship, tax) == Total(ship, tax)

(* The total is worked out of the fees in the request and, for those that  *)
(* are not, of the row as it was read; it is always written.               *)
ReadForEdit(u, q) ==
  /\ At(u, "idle")
  /\ edits < MaxEdits
  /\ edits' = edits + 1
  /\ Editable(q)
  /\ \E fields \in SUBSET Field :
     \E ship \in IF "ship" \in fields THEN Fees ELSE {quote[q].amounts.ship} :
     \E tax \in IF "tax" \in fields THEN Fees ELSE {quote[q].amounts.tax} :
       req' = [req EXCEPT ![u] =
                 [step |-> "editing", quote |-> q, fields |-> fields,
                  amounts |-> [ship |-> ship, tax |-> tax,
                               total |-> NewTotal(fields, ship, tax)],
                  number |-> 0]]
  /\ UNCHANGED <<quote, invoices, lastId, agreed, disturbed>>

(* An UPDATE that finds no row ends as an error.                           *)
WriteEdit(u) ==
  LET q == req[u].quote
      new == req[u].amounts
      old == quote[q].amounts
      row == [ship |-> IF "ship" \in req[u].fields THEN new.ship ELSE old.ship,
              tax |-> IF "tax" \in req[u].fields THEN new.tax ELSE old.tax,
              total |-> new.total]
  IN
  /\ At(u, "editing")
  /\ ~ Locked(q)
  /\ quote' = IF quote[q].status = "deleted" THEN quote
              ELSE [quote EXCEPT ![q].amounts = row]
  /\ End(u)
  /\ UNCHANGED <<invoices, lastId, edits, agreed, disturbed>>

-----------------------------------------------------------------------------
(* delete_quote: SELECT, then DELETE by id                                 *)

ReadForDelete(u, q) ==
  /\ At(u, "idle")
  /\ quote[q].status = "draft"
  /\ req' = [req EXCEPT ![u] = [Idle EXCEPT !.step = "deleting", !.quote = q]]
  /\ UNCHANGED <<quote, invoices, lastId, edits, agreed, disturbed>>

(* Mutant of Deletable: invoices.quote_id without its foreign key.         *)
DeletableAlways(q) == TRUE

(* The foreign key of invoices.quote_id refuses the DELETE.                *)
Deletable(q) == InvoicesOf(q) = {}

Delete(u) ==
  LET q == req[u].quote IN
  /\ At(u, "deleting")
  /\ ~ Locked(q)
  /\ quote' = IF Deletable(q)
              THEN [quote EXCEPT ![q] =
                      [status |-> "deleted", amounts |-> Nothing]]
              ELSE quote
  /\ End(u)
  /\ UNCHANGED <<invoices, lastId, edits, agreed, disturbed>>

-----------------------------------------------------------------------------
(* Invoices                                                                *)

(* create_invoice_from_quote: SELECT ... FOR UPDATE, 'approved' only.      *)
LockQuote(u, q) ==
  /\ At(u, "idle")
  /\ lastId < MaxId
  /\ ~ Locked(q)
  /\ quote[q].status = "approved"
  /\ req' = [req EXCEPT ![u] =
               [Idle EXCEPT !.step = "pricing", !.quote = q,
                            !.amounts = quote[q].amounts]]
  /\ UNCHANGED <<quote, invoices, lastId, edits, agreed, disturbed>>

(* create_invoice: the amounts come with the request.                      *)
BeginDirect(u) ==
  /\ At(u, "idle")
  /\ lastId < MaxId
  /\ \E ship, tax \in Fees :
       req' = [req EXCEPT ![u] = [Idle EXCEPT !.step = "pricing",
                                              !.amounts = Priced(ship, tax)]]
  /\ UNCHANGED <<quote, invoices, lastId, edits, agreed, disturbed>>

(* SELECT COALESCE(MAX(id), 0) + 1: rows not yet committed are not seen.   *)
NextNumber ==
  LET ids == {i.id : i \in invoices} IN
  IF ids = {} THEN 1 ELSE (CHOOSE m \in ids : \A n \in ids : n <= m) + 1

TakeNumber(u) ==
  /\ At(u, "pricing")
  /\ req' = [req EXCEPT ![u].step = "inserting", ![u].number = NextNumber]
  /\ UNCHANGED <<quote, invoices, lastId, edits, agreed, disturbed>>

(* INSERT of header and items, commit.                                     *)
InsertInvoice(u) ==
  /\ At(u, "inserting")
  /\ lastId < MaxId
  /\ lastId' = lastId + 1
  /\ invoices' = invoices \cup
       {[id |-> lastId', number |-> req[u].number, quote |-> req[u].quote,
         amounts |-> req[u].amounts]}
  /\ End(u)
  /\ UNCHANGED <<quote, edits, agreed, disturbed>>

(* The request fails: the id it may have drawn stays unused.               *)
Fail(u) ==
  /\ req[u].step # "idle"
  /\ lastId' \in {lastId} \cup
       (IF At(u, "inserting") /\ lastId < MaxId THEN {lastId + 1} ELSE {})
  /\ End(u)
  /\ UNCHANGED <<quote, invoices, edits, agreed, disturbed>>

-----------------------------------------------------------------------------
Next ==
  \/ \E q \in Quotes :
       \/ CreateQuote(q) \/ SendQuote(q) \/ ApproveQuote(q) \/ RejectQuote(q)
       \/ \E u \in Users :
            ReadForEdit(u, q) \/ ReadForDelete(u, q) \/ LockQuote(u, q)
  \/ \E u \in Users :
       \/ WriteEdit(u) \/ Delete(u)
       \/ BeginDirect(u) \/ TakeNumber(u) \/ InsertInvoice(u)
       \/ Fail(u)

Spec == Init /\ [][Next]_vars

-----------------------------------------------------------------------------
(* Properties                                                              *)

(* An invoice made from a quote stands on a quote that exists and is       *)
(* approved, whatever deletions, decisions and edits were under way: the   *)
(* lock of the conversion and the foreign key together see to it.          *)
InvoiceStandsOnApprovedQuote ==
  \A q \in Quotes : InvoicesOf(q) # {} => quote[q].status = "approved"

(* A decision on a quote is final: a rejected one is never approved after, *)
(* nor the other way round, nor is a decided one sent again.               *)
DecidedOnce ==
  [][\A q \in Quotes :
       quote[q].status \in {"approved", "rejected", "deleted"} =>
         quote'[q].status \in {quote[q].status, "deleted"}]_vars

(* If no edit was under way when a quote was approved, the approval binds: *)
(* the amounts stay, and every invoice made from it bears them.            *)
UndisturbedApprovalBinds ==
  \A q \in Quotes :
    quote[q].status = "approved" /\ q \notin disturbed =>
      /\ quote[q].amounts = agreed[q]
      /\ \A i \in InvoicesOf(q) : i.amounts = agreed[q]

(* However decisions, edits, deletions and conversions of a quote overlap, *)
(* an invoice stands on an approved quote, and an approval during which    *)
(* nobody was editing the quote binds the amounts of both.                 *)
ApprovalsBind == InvoiceStandsOnApprovedQuote /\ UndisturbedApprovalBinds

(* The total of a quote and of an invoice is the sum of its parts, as the  *)
(* comment on the new total in update_quote has it.  Two edits at once     *)
(* break it: each works out the total with the old fee of the other.       *)
TotalIsTheSum ==
  /\ \A q \in Quotes :
       quote[q].status \notin {"absent", "deleted"} =>
         quote[q].amounts = Priced(quote[q].amounts.ship, quote[q].amounts.tax)
  /\ \A i \in invoices : i.amounts = Priced(i.amounts.ship, i.amounts.tax)

(* An approved or rejected quote is not edited (docs/FEATURE_SPECIFICATION *)
(* says so, update_quote checks it).                                       *)
DecidedIsNotEdited ==
  [][\A q \in Quotes :
       quote[q].status \in {"approved", "rejected"} /\ quote'[q].status # "deleted" =>
         quote'[q].amounts = quote[q].amounts]_vars

(* A quote becomes one invoice (docs/FEATURE_SPECIFICATION: the quote has  *)
(* one link to its invoice; the conversion says it is atomic and excludes  *)
(* a parallel one).                                                        *)
ConvertedOnce == \A q \in Quotes : Cardinality(InvoicesOf(q)) <= 1

=============================================================================
