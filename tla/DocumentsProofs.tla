--------------------------- MODULE DocumentsProofs ---------------------------
(***************************************************************************)
(* Theorems about the documents of a sale: quotes and their invoices       *)
(* (Quoting), payments (InvoicePayment), and the stock that orders reserve *)
(* (OwnInventory), for any number of quotes, invoices, orders, requests,   *)
(* amounts, edits and failures.                                            *)
(***************************************************************************)
EXTENDS MCDocuments, FiniteSetTheorems, WellFoundedInduction,
        SequenceTheorems, TLAPS

USE AmountsAssumption, NoQuoteAssumption, BoundsAssumption

-----------------------------------------------------------------------------
(* The inductive invariant                                                 *)

(* A request that edits or deletes has found its quote.                    *)
QuotesAreFound ==
  \A u \in Users :
    req[u].step \in {"editing", "deleting"} =>
      req[u].quote \in Quotes /\ quote[req[u].quote].status # "absent"

(* The fees of an edit that are not in the request were read in the row.   *)
EditsHaveFees ==
  \A u \in Users :
    At(u, "editing") => req[u].amounts.ship \in Fees /\
      req[u].amounts.tax \in Fees

(* A conversion has locked an approved quote and read what stays in it; an *)
(* invoice made directly has amounts of its own.                           *)
ConversionsAgree ==
  \A u \in Users :
    req[u].step \in {"pricing", "inserting"} =>
      /\ req[u].amounts \in Amounts
      /\ req[u].quote # NoQuote =>
           /\ quote[req[u].quote].status = "approved"
           /\ req[u].amounts = quote[req[u].quote].amounts

NumbersAreNext ==
  \A u \in Users : At(u, "inserting") => req[u].number \in 1..(MaxId + 1)

(* Who is still editing an approved quote began before it was approved.    *)
EditorsDisturb ==
  \A q \in Quotes : quote[q].status = "approved" /\ Editing(q) =>
    q \in disturbed

IInv ==
  /\ TypeOK
  /\ QuotesAreFound /\ EditsHaveFees /\ ConversionsAgree /\ NumbersAreNext
  /\ EditorsDisturb
  /\ InvoiceStandsOnApprovedQuote /\ UndisturbedApprovalBinds

LEMMA KeepsCreate ==
  ASSUME IInv, NEW q \in Quotes, CreateQuote(q)
  PROVE  IInv'
<1> USE
  DEF IInv, CreateQuote, At, End, Locked, Editing, InvoicesOf, Priced, Total
<1>1. TypeOK'
  BY DEF TypeOK, Amounts, Status
<1>2. QuotesAreFound'
  BY DEF QuotesAreFound
<1>3. EditsHaveFees'
  BY DEF EditsHaveFees
<1>4. ConversionsAgree'
  BY DEF ConversionsAgree
<1>5. NumbersAreNext'
  BY DEF NumbersAreNext
<1>6. EditorsDisturb'
  BY DEF EditorsDisturb
<1>7. InvoiceStandsOnApprovedQuote'
  BY DEF InvoiceStandsOnApprovedQuote
<1>8. UndisturbedApprovalBinds'
  BY DEF UndisturbedApprovalBinds
<1> QED  BY <1>1, <1>2, <1>3, <1>4, <1>5, <1>6, <1>7, <1>8

LEMMA KeepsSend ==
  ASSUME IInv, NEW q \in Quotes, SendQuote(q)
  PROVE  IInv'
<1> USE
  DEF IInv, SendQuote, At, End, Locked, Editing, InvoicesOf, Move, SetStatus
<1>1. TypeOK'
  BY DEF TypeOK, Status
<1>2. QuotesAreFound'
  BY DEF QuotesAreFound
<1>3. EditsHaveFees'
  BY DEF EditsHaveFees
<1>4. ConversionsAgree'
  BY DEF ConversionsAgree
<1>5. NumbersAreNext'
  BY DEF NumbersAreNext
<1>6. EditorsDisturb'
  BY DEF EditorsDisturb
<1>7. InvoiceStandsOnApprovedQuote'
  BY DEF InvoiceStandsOnApprovedQuote
<1>8. UndisturbedApprovalBinds'
  BY DEF UndisturbedApprovalBinds
<1> QED  BY <1>1, <1>2, <1>3, <1>4, <1>5, <1>6, <1>7, <1>8

LEMMA KeepsApprove ==
  ASSUME IInv, NEW q \in Quotes, ApproveQuote(q)
  PROVE  IInv'
<1> USE DEF IInv, ApproveQuote, At, End, Locked, Editing, InvoicesOf, Move,
  SetStatus
<1>1. TypeOK'
  BY DEF TypeOK, Amounts, AmountsOrNothing, Status
<1>2. QuotesAreFound'
  BY DEF QuotesAreFound
<1>3. EditsHaveFees'
  BY DEF EditsHaveFees
<1>4. ConversionsAgree'
  BY DEF ConversionsAgree
<1>5. NumbersAreNext'
  BY DEF NumbersAreNext
<1>6. EditorsDisturb'
  BY DEF EditorsDisturb
<1>7. InvoiceStandsOnApprovedQuote'
  BY DEF InvoiceStandsOnApprovedQuote
<1>8. UndisturbedApprovalBinds'
  <2>1. InvoicesOf(q) = {}
    BY DEF InvoiceStandsOnApprovedQuote
  <2>2. quote'[q].amounts = quote[q].amounts /\ agreed'[q] = quote[q].amounts
    BY DEF TypeOK
  <2>3. \A p \in Quotes \ {q} : quote'[p] = quote[p] /\ agreed'[p] = agreed[p]
    BY DEF TypeOK
  <2>4. disturbed \subseteq disturbed' /\ invoices' = invoices
    OBVIOUS
  <2> QED  BY <2>1, <2>2, <2>3, <2>4 DEF UndisturbedApprovalBinds
<1> QED  BY <1>1, <1>2, <1>3, <1>4, <1>5, <1>6, <1>7, <1>8

LEMMA KeepsReject ==
  ASSUME IInv, NEW q \in Quotes, RejectQuote(q)
  PROVE  IInv'
<1> USE DEF IInv, RejectQuote, At, End, Locked, Editing, InvoicesOf, Move,
  SetStatus
<1>1. TypeOK'
  BY DEF TypeOK, Status
<1>2. QuotesAreFound'
  BY DEF QuotesAreFound
<1>3. EditsHaveFees'
  BY DEF EditsHaveFees
<1>4. ConversionsAgree'
  BY DEF ConversionsAgree
<1>5. NumbersAreNext'
  BY DEF NumbersAreNext
<1>6. EditorsDisturb'
  BY DEF EditorsDisturb
<1>7. InvoiceStandsOnApprovedQuote'
  BY DEF InvoiceStandsOnApprovedQuote
<1>8. UndisturbedApprovalBinds'
  BY DEF UndisturbedApprovalBinds
<1> QED  BY <1>1, <1>2, <1>3, <1>4, <1>5, <1>6, <1>7, <1>8

LEMMA KeepsReadForEdit ==
  ASSUME IInv, NEW u \in Users, NEW q \in Quotes, ReadForEdit(u, q)
  PROVE  IInv'
<1> USE DEF IInv, ReadForEdit, At, End, Locked, Editing, InvoicesOf, Editable,
  NewTotal, Total
<1>1. TypeOK'
  <2>1. PICK fields \in SUBSET Field :
        \E ship \in IF "ship" \in
          fields THEN Fees ELSE {quote[q].amounts.ship} :
        \E tax \in IF "tax" \in fields THEN Fees ELSE {quote[q].amounts.tax} :
          req' = [req EXCEPT ![u] =
                    [step |-> "editing", quote |-> q, fields |-> fields,
                     amounts |-> [ship |-> ship, tax |-> tax,
                                  total |-> NewTotal(fields, ship, tax)],
                     number |-> 0]]
    OBVIOUS
  <2>2. quote[q].amounts.ship \in Fees /\ quote[q].amounts.tax \in Fees
    BY DEF TypeOK, Amounts, AmountsOrNothing
  <2>3. PICK ship \in Fees, tax \in Fees :
          req' = [req EXCEPT ![u] =
                    [step |-> "editing", quote |-> q, fields |-> fields,
                     amounts |-> [ship |-> ship, tax |-> tax,
                                  total |-> NewTotal(fields, ship, tax)],
                     number |-> 0]]
    BY <2>1, <2>2
  <2>4. NewTotal(fields, ship, tax) \in Nat
    BY Fees \subseteq Nat, Subtotal \in Nat, ship \in Fees, tax \in Fees
  <2>5. req'[u] \in Request
    BY <2>3, <2>4 DEF TypeOK, Request, AmountsOrNothing
  <2> QED  BY <2>3, <2>5 DEF TypeOK
<1>2. QuotesAreFound'
  BY DEF QuotesAreFound
<1>3. EditsHaveFees'
  BY DEF EditsHaveFees, TypeOK, Amounts
<1>4. ConversionsAgree'
  BY DEF ConversionsAgree
<1>5. NumbersAreNext'
  BY DEF NumbersAreNext
<1>6. EditorsDisturb'
  BY DEF EditorsDisturb
<1>7. InvoiceStandsOnApprovedQuote'
  BY DEF InvoiceStandsOnApprovedQuote
<1>8. UndisturbedApprovalBinds'
  BY DEF UndisturbedApprovalBinds
<1> QED  BY <1>1, <1>2, <1>3, <1>4, <1>5, <1>6, <1>7, <1>8

LEMMA KeepsWriteEdit ==
  ASSUME IInv, NEW u \in Users, WriteEdit(u)
  PROVE  IInv'
<1> USE DEF IInv, WriteEdit, At, End, Locked, Editing, InvoicesOf
<1>1. TypeOK'
  <2> DEFINE q == req[u].quote
  <2>1. req' \in [Users -> Request]
    BY DEF TypeOK, Request, AmountsOrNothing, Idle, Nothing
  <2>2. \A p \in Quotes : quote'[p].status = quote[p].status
    BY DEF TypeOK
  <2>3. \A p \in Quotes \ {q} : quote'[p].amounts = quote[p].amounts
    BY DEF TypeOK
  <2>4. quote[q].status # "deleted" => quote'[q].amounts \in Amounts
    BY DEF TypeOK, Request, Amounts, AmountsOrNothing, QuotesAreFound,
      EditsHaveFees
  <2>5. DOMAIN quote' = Quotes
    BY DEF TypeOK
  <2> QED  BY <2>1, <2>2, <2>3, <2>4, <2>5 DEF TypeOK
<1>2. QuotesAreFound'
  BY DEF QuotesAreFound, Idle
<1>3. EditsHaveFees'
  BY DEF EditsHaveFees, Idle
<1>4. ConversionsAgree'
  BY DEF ConversionsAgree, Idle
<1>5. NumbersAreNext'
  BY DEF NumbersAreNext, Idle
<1>6. EditorsDisturb'
  BY DEF EditorsDisturb, Idle
<1>7. InvoiceStandsOnApprovedQuote'
  BY DEF InvoiceStandsOnApprovedQuote
<1>8. UndisturbedApprovalBinds'
  BY DEF UndisturbedApprovalBinds, EditorsDisturb
<1> QED  BY <1>1, <1>2, <1>3, <1>4, <1>5, <1>6, <1>7, <1>8

LEMMA KeepsReadForDelete ==
  ASSUME IInv, NEW u \in Users, NEW q \in Quotes, ReadForDelete(u, q)
  PROVE  IInv'
<1> USE DEF IInv, ReadForDelete, At, End, Locked, Editing, InvoicesOf
<1>1. TypeOK'
  BY DEF TypeOK, Request, AmountsOrNothing, Idle, Nothing
<1>2. QuotesAreFound'
  BY DEF QuotesAreFound
<1>3. EditsHaveFees'
  BY DEF EditsHaveFees
<1>4. ConversionsAgree'
  BY DEF ConversionsAgree
<1>5. NumbersAreNext'
  BY DEF NumbersAreNext
<1>6. EditorsDisturb'
  BY DEF EditorsDisturb
<1>7. InvoiceStandsOnApprovedQuote'
  BY DEF InvoiceStandsOnApprovedQuote
<1>8. UndisturbedApprovalBinds'
  BY DEF UndisturbedApprovalBinds
<1> QED  BY <1>1, <1>2, <1>3, <1>4, <1>5, <1>6, <1>7, <1>8

LEMMA KeepsDelete ==
  ASSUME IInv, NEW u \in Users, Delete(u)
  PROVE  IInv'
<1> USE DEF IInv, Delete, At, End, Locked, Editing, InvoicesOf, Deletable
<1>1. TypeOK'
  BY DEF TypeOK, Request, AmountsOrNothing, Status, Idle, Nothing
<1>2. QuotesAreFound'
  BY DEF QuotesAreFound, Idle
<1>3. EditsHaveFees'
  BY DEF EditsHaveFees, Idle
<1>4. ConversionsAgree'
  BY DEF ConversionsAgree, Idle
<1>5. NumbersAreNext'
  BY DEF NumbersAreNext, Idle
<1>6. EditorsDisturb'
  BY DEF EditorsDisturb, Idle
<1>7. InvoiceStandsOnApprovedQuote'
  BY DEF InvoiceStandsOnApprovedQuote
<1>8. UndisturbedApprovalBinds'
  BY DEF UndisturbedApprovalBinds
<1> QED  BY <1>1, <1>2, <1>3, <1>4, <1>5, <1>6, <1>7, <1>8

LEMMA KeepsLockQuote ==
  ASSUME IInv, NEW u \in Users, NEW q \in Quotes, LockQuote(u, q)
  PROVE  IInv'
<1> USE DEF IInv, LockQuote, At, End, Locked, Editing, InvoicesOf
<1>1. TypeOK'
  BY DEF TypeOK, Request, Amounts, AmountsOrNothing, Idle
<1>2. QuotesAreFound'
  BY DEF QuotesAreFound
<1>3. EditsHaveFees'
  BY DEF EditsHaveFees
<1>4. ConversionsAgree'
  BY DEF ConversionsAgree, TypeOK
<1>5. NumbersAreNext'
  BY DEF NumbersAreNext
<1>6. EditorsDisturb'
  BY DEF EditorsDisturb
<1>7. InvoiceStandsOnApprovedQuote'
  BY DEF InvoiceStandsOnApprovedQuote
<1>8. UndisturbedApprovalBinds'
  BY DEF UndisturbedApprovalBinds
<1> QED  BY <1>1, <1>2, <1>3, <1>4, <1>5, <1>6, <1>7, <1>8

LEMMA KeepsBeginDirect ==
  ASSUME IInv, NEW u \in Users, BeginDirect(u)
  PROVE  IInv'
<1> USE
  DEF IInv, BeginDirect, At, End, Locked, Editing, InvoicesOf, Priced, Total
<1>1. TypeOK'
  <2>1. PICK ship \in Fees, tax \in Fees :
          req' = [req EXCEPT ![u] = [Idle EXCEPT !.step = "pricing",
                                                 !.amounts =
                                                   Priced(ship, tax)]]
    OBVIOUS
  <2>2. Priced(ship, tax) \in AmountsOrNothing
    BY Fees \subseteq Nat, Subtotal \in Nat DEF AmountsOrNothing
  <2>3. req' \in [Users -> Request]
    BY <2>1, <2>2 DEF TypeOK, Request, Idle
  <2> QED  BY <2>3 DEF TypeOK
<1>2. QuotesAreFound'
  BY DEF QuotesAreFound
<1>3. EditsHaveFees'
  BY DEF EditsHaveFees
<1>4. ConversionsAgree'
  BY DEF ConversionsAgree, Amounts, Idle
<1>5. NumbersAreNext'
  BY DEF NumbersAreNext
<1>6. EditorsDisturb'
  BY DEF EditorsDisturb
<1>7. InvoiceStandsOnApprovedQuote'
  BY DEF InvoiceStandsOnApprovedQuote
<1>8. UndisturbedApprovalBinds'
  BY DEF UndisturbedApprovalBinds
<1> QED  BY <1>1, <1>2, <1>3, <1>4, <1>5, <1>6, <1>7, <1>8

(* MAX(id) exists, and is not above the last id.                           *)
LEMMA MaximumExists ==
  ASSUME NEW n \in Nat, NEW S \in SUBSET (1..n), S # {}
  PROVE  \E m \in S : \A k \in S : k <= m
<1> DEFINE below == {n - k : k \in S}
           less == OpToRel(<, Nat)
<1>1. below \subseteq Nat /\ below # {}
  <2>1. \A k \in S : k \in 1..n /\ n - k \in Nat
    OBVIOUS
  <2> QED  BY <2>1
<1>2. PICK x \in below : \A y \in below : ~ (<<y, x>> \in less)
  <2> HIDE DEF below, less
  <2>1. IsWellFoundedOn(less, Nat)
    BY NatLessThanWellFounded DEF less
  <2> QED  BY <1>1, <2>1, WFMin
<1>3. ASSUME NEW y \in below  PROVE x <= y
  <2>1. x \in Nat /\ y \in Nat
    BY <1>1
  <2>2. ~ (<<y, x>> \in {ss \in Nat \X Nat : ss[1] < ss[2]})
    BY <1>2 DEF OpToRel
  <2> HIDE DEF below, less
  <2>3. ~ (y < x)
    BY <2>1, <2>2
  <2> QED  BY <2>1, <2>3
<1>4. PICK m \in S : x = n - m
  OBVIOUS
<1>5. ASSUME NEW k \in S  PROVE k <= m
  <2>1. n - m <= n - k
    BY <1>3, <1>4
  <2>2. k \in 1..n /\ m \in 1..n
    OBVIOUS
  <2> QED  BY <2>1, <2>2
<1> QED  BY <1>5

LEMMA NextNumberType == TypeOK => NextNumber \in 1..(lastId + 1)
<1> SUFFICES ASSUME TypeOK PROVE NextNumber \in 1..(lastId + 1)
  OBVIOUS
<1> DEFINE ids == {i.id : i \in invoices}
           max == CHOOSE m \in ids : \A k \in ids : k <= m
<1>1. ids \in SUBSET (1..lastId) /\ lastId \in Nat
  BY DEF TypeOK
<1>2. NextNumber = IF ids = {} THEN 1 ELSE max + 1
  BY DEF NextNumber
<1>3. ids # {} => max \in ids
  <2> HIDE DEF ids
  <2> QED  BY <1>1, MaximumExists
<1>4. CASE ids = {}
  BY <1>1, <1>2, <1>4
<1>5. CASE ids # {}
  <2> HIDE DEF ids, max
  <2>1. max \in 1..lastId
    BY <1>1, <1>3, <1>5
  <2> QED  BY <1>1, <1>2, <1>5, <2>1
<1> QED  BY <1>4, <1>5

LEMMA KeepsTakeNumber ==
  ASSUME IInv, NEW u \in Users, TakeNumber(u)
  PROVE  IInv'
<1> USE DEF IInv, TakeNumber, At, End, Locked, Editing, InvoicesOf
<1>1. TypeOK'
  <2>1. NextNumber \in Nat
    BY NextNumberType DEF TypeOK
  <2>2. [req[u] EXCEPT !.step = "inserting", !.number = NextNumber] \in Request
    BY <2>1 DEF TypeOK, Request
  <2>3. req' = [req EXCEPT ![u] =
                  [req[u] EXCEPT !.step = "inserting", !.number = NextNumber]]
    BY DEF TypeOK
  <2> QED  BY <2>2, <2>3 DEF TypeOK
<1>2. QuotesAreFound'
  BY DEF QuotesAreFound, TypeOK
<1>3. EditsHaveFees'
  BY DEF EditsHaveFees, TypeOK
<1>4. ConversionsAgree'
  BY DEF ConversionsAgree, TypeOK
<1>5. NumbersAreNext'
  <2>1. NextNumber \in 1..(MaxId + 1)
    BY NextNumberType DEF TypeOK
  <2> QED  BY <2>1 DEF NumbersAreNext, TypeOK, Request
<1>6. EditorsDisturb'
  BY DEF EditorsDisturb, TypeOK
<1>7. InvoiceStandsOnApprovedQuote'
  BY DEF InvoiceStandsOnApprovedQuote
<1>8. UndisturbedApprovalBinds'
  BY DEF UndisturbedApprovalBinds
<1> QED  BY <1>1, <1>2, <1>3, <1>4, <1>5, <1>6, <1>7, <1>8

LEMMA KeepsInsert ==
  ASSUME IInv, NEW u \in Users, InsertInvoice(u)
  PROVE  IInv'
<1> USE DEF IInv, InsertInvoice, At, End, Locked, Editing, InvoicesOf
<1>1. TypeOK'
  <2> DEFINE new == [id |-> lastId', number |-> req[u].number,
                     quote |-> req[u].quote, amounts |-> req[u].amounts]
  <2>1. /\ lastId' = lastId + 1 /\ lastId \in 0..MaxId /\ lastId < MaxId
        /\ invoices' = invoices \cup {new} /\ quote' = quote
    BY DEF TypeOK
  <2>2. /\ new.id \in 1..lastId' /\ new.number \in 1..(MaxId + 1)
        /\ new.quote \in Quotes \cup {NoQuote} /\ new.amounts \in Amounts
    BY <2>1 DEF TypeOK, Request, NumbersAreNext, ConversionsAgree
  <2>3. \A i \in invoices' :
          /\ i.id \in 1..lastId' /\ i.number \in 1..(MaxId + 1)
          /\ i.quote \in Quotes \cup {NoQuote} /\ i.amounts \in Amounts
    BY <2>1, <2>2 DEF TypeOK
  <2>4. req' \in [Users -> Request]
    BY DEF TypeOK, Request, AmountsOrNothing, Idle, Nothing
  <2> QED  BY <2>1, <2>3, <2>4 DEF TypeOK
<1>2. QuotesAreFound'
  BY DEF QuotesAreFound, Idle
<1>3. EditsHaveFees'
  BY DEF EditsHaveFees, Idle
<1>4. ConversionsAgree'
  BY DEF ConversionsAgree, Idle
<1>5. NumbersAreNext'
  BY DEF NumbersAreNext, Idle
<1>6. EditorsDisturb'
  BY DEF EditorsDisturb, Idle
<1>7. InvoiceStandsOnApprovedQuote'
  BY DEF InvoiceStandsOnApprovedQuote, ConversionsAgree
<1>8. UndisturbedApprovalBinds'
  BY DEF UndisturbedApprovalBinds, ConversionsAgree
<1> QED  BY <1>1, <1>2, <1>3, <1>4, <1>5, <1>6, <1>7, <1>8

LEMMA KeepsFail ==
  ASSUME IInv, NEW u \in Users, Fail(u)
  PROVE  IInv'
<1> USE DEF IInv, Fail, At, End, Locked, Editing, InvoicesOf
<1>1. TypeOK'
  BY DEF TypeOK, Request, AmountsOrNothing, Idle, Nothing
<1>2. QuotesAreFound'
  BY DEF QuotesAreFound, Idle
<1>3. EditsHaveFees'
  BY DEF EditsHaveFees, Idle
<1>4. ConversionsAgree'
  BY DEF ConversionsAgree, Idle
<1>5. NumbersAreNext'
  BY DEF NumbersAreNext, Idle
<1>6. EditorsDisturb'
  BY DEF EditorsDisturb, Idle
<1>7. InvoiceStandsOnApprovedQuote'
  BY DEF InvoiceStandsOnApprovedQuote
<1>8. UndisturbedApprovalBinds'
  BY DEF UndisturbedApprovalBinds
<1> QED  BY <1>1, <1>2, <1>3, <1>4, <1>5, <1>6, <1>7, <1>8

LEMMA KeepsStutter ==
  ASSUME IInv, UNCHANGED vars
  PROVE  IInv'
BY DEF IInv, vars, TypeOK, QuotesAreFound, EditsHaveFees, ConversionsAgree,
  NumbersAreNext, EditorsDisturb, InvoiceStandsOnApprovedQuote,
  UndisturbedApprovalBinds, At, Editing, InvoicesOf

LEMMA InvInit == Init => IInv
BY DEF Init, IInv, TypeOK, QuotesAreFound, EditsHaveFees, ConversionsAgree,
  NumbersAreNext, EditorsDisturb, InvoiceStandsOnApprovedQuote,
  UndisturbedApprovalBinds, At, Editing, InvoicesOf, Request, Amounts,
  AmountsOrNothing, Status, Idle, Nothing

LEMMA InvNext == IInv /\ [Next]_vars => IInv'
<1> SUFFICES ASSUME IInv, [Next]_vars PROVE IInv'
  OBVIOUS
<1>1. ASSUME NEW q \in Quotes, CreateQuote(q) PROVE IInv'
  BY <1>1, KeepsCreate
<1>2. ASSUME NEW q \in Quotes, SendQuote(q) PROVE IInv'
  BY <1>2, KeepsSend
<1>3. ASSUME NEW q \in Quotes, ApproveQuote(q) PROVE IInv'
  BY <1>3, KeepsApprove
<1>4. ASSUME NEW q \in Quotes, RejectQuote(q) PROVE IInv'
  BY <1>4, KeepsReject
<1>5. ASSUME NEW u \in Users, NEW q \in Quotes,
             ReadForEdit(u, q) \/ ReadForDelete(u, q) \/ LockQuote(u, q)
      PROVE  IInv'
  BY <1>5, KeepsReadForEdit, KeepsReadForDelete, KeepsLockQuote
<1>6. ASSUME NEW u \in Users, WriteEdit(u) \/ Delete(u) PROVE IInv'
  BY <1>6, KeepsWriteEdit, KeepsDelete
<1>7. ASSUME NEW u \in Users,
             BeginDirect(u) \/ TakeNumber(u) \/ InsertInvoice(u) \/ Fail(u)
      PROVE  IInv'
  BY <1>7, KeepsBeginDirect, KeepsTakeNumber, KeepsInsert, KeepsFail
<1>8. CASE UNCHANGED vars
  BY <1>8, KeepsStutter
<1> QED  BY <1>1, <1>2, <1>3, <1>4, <1>5, <1>6, <1>7, <1>8 DEF Next

LEMMA Invariant == Spec => []IInv
BY InvInit, InvNext, PTL DEF Spec

-----------------------------------------------------------------------------
(* What follows from it                                                    *)

(* Every variable keeps its type; an invoice has an id that was drawn, and *)
(* a number that was free for those who could not see each other.          *)
THEOREM TypeCorrect == Spec => []TypeOK
<1>1. IInv => TypeOK
  BY DEF IInv
<1> QED  BY <1>1, Invariant, PTL

(* However edits, deletions, decisions and conversions of any number of    *)
(* requests overlap, an invoice made from a quote stands on an approved    *)
(* one, and an approval during which nobody was editing the quote binds    *)
(* the amounts of the quote and of its invoices.                           *)
THEOREM ApprovalsDoBind == Spec => []ApprovalsBind
<1>1. IInv => ApprovalsBind
  BY DEF IInv, ApprovalsBind
<1> QED  BY <1>1, Invariant, PTL

(* A decision is final: neither a second decision nor an edit or deletion  *)
(* that was under way turns an approved quote into a rejected one, or back *)
(* into one that is sent.                                                  *)
THEOREM DecisionsAreFinal == Spec => DecidedOnce
<1> DEFINE Final ==
      \A q \in Quotes :
        quote[q].status \in {"approved", "rejected", "deleted"} =>
          quote'[q].status \in {quote[q].status, "deleted"}
<1>1. IInv /\ [Next]_vars => [Final]_vars
  <2> SUFFICES ASSUME IInv, Next PROVE Final
    BY DEF vars
  <2> USE DEF IInv, TypeOK, Status
  <2>1. ASSUME NEW q \in Quotes,
               CreateQuote(q) \/ SendQuote(q) \/ ApproveQuote(q) \/
                 RejectQuote(q)
        PROVE  Final
    BY <2>1
      DEF CreateQuote, SendQuote, ApproveQuote, RejectQuote, Move, SetStatus
  <2>2. ASSUME NEW u \in Users, NEW q \in Quotes,
               ReadForEdit(u, q) \/ ReadForDelete(u, q) \/ LockQuote(u, q)
        PROVE  Final
    BY <2>2 DEF ReadForEdit, ReadForDelete, LockQuote
  <2>3. ASSUME NEW u \in Users, WriteEdit(u) \/ Delete(u)  PROVE Final
    <3>1. CASE WriteEdit(u)
      <4>1. \A q \in Quotes : quote'[q].status = quote[q].status
        BY <3>1 DEF WriteEdit
      <4> QED  BY <4>1
    <3>2. CASE Delete(u)
      <4>1. \A q \in Quotes : quote'[q].status \in {quote[q].status, "deleted"}
        BY <3>2 DEF Delete
      <4> QED  BY <4>1
    <3> QED  BY <2>3, <3>1, <3>2
  <2>4. ASSUME NEW u \in Users,
               BeginDirect(u) \/ TakeNumber(u) \/ InsertInvoice(u) \/ Fail(u)
        PROVE  Final
    BY <2>4 DEF BeginDirect, TakeNumber, InsertInvoice, Fail
  <2> QED  BY <2>1, <2>2, <2>3, <2>4 DEF Next
<1>2. Spec => [][Final]_vars
  BY <1>1, Invariant, PTL DEF Spec
<1> QED  BY <1>2 DEF DecidedOnce

-----------------------------------------------------------------------------
(* Payments                                                                *)

(* The inductive invariant                                                 *)

IsPaid(p) == pp[p].state = "paid"

(* An event is of a payment, and a PayPal invoice in use is of an invoice. *)
PayPalIsSane ==
  /\ \A p \in events : IsPaid(p)
  /\ \A p \in PPInvoices : pp[p].state # "unused" => pp[p].inv \in Invoices

(* A link, and what a request remembers of PayPal, is of its own invoice;  *)
(* whoever is about to book a payment of PayPal has seen that one.         *)
Concerns(p, i) == p \in PPInvoices /\ pp[p].state # "unused" /\ pp[p].inv = i

LinksAreOwn ==
  /\ \A i \in Invoices : link[i] # NoLink => Concerns(link[i], i)
  /\ \A u \in Users :
       /\ payReq[u].step # "idle" => payReq[u].inv \in Invoices
       /\ payReq[u].step \in {"storing", "confirming", "applying"} =>
            Concerns(payReq[u].pp, payReq[u].inv)
       /\ payReq[u].step = "applying" => IsPaid(payReq[u].pp)
  /\ \A h \in Hooks : hook[h].step # "idle" =>
       /\ hook[h].inv \in Invoices
       /\ Concerns(hook[h].pp, hook[h].inv) /\ IsPaid(hook[h].pp)

(* An order that exists is of an invoice, and those that were moved exist. *)
OrdersExist ==
  /\ \A o \in PaidOrders : order[o].status # "absent" =>
       order[o].inv \in Invoices
  /\ \A o \in moved : order[o].status # "absent"

(* Only an invoice that is closed has been paid.                           *)
PaidIsClosed ==
  \A i \in Invoices : paidBy[i] # "none" => status[i] \in {"paid", "voided"}

PayInv ==
  /\ Pay!TypeOK /\ PayPalIsSane /\ LinksAreOwn /\ OrdersExist /\ PaidIsClosed
  /\ Pay!PayPalWasPaid /\ Pay!MovedOrdersStandOnMoney /\ Pay!NoOrderLeftBehind

-----------------------------------------------------------------------------
(* Types                                                                   *)

LEMMA PayTypesHold ==
  ASSUME Pay!TypeOK, [Pay!Next]_Pay!vars
  PROVE  Pay!TypeOK'
<1> USE PaymentAssumption DEF Pay!BoundsAssumption, Pay!TypeOK, Pay!Request,
      Pay!Idle,
            Pay!invVars, Pay!orderVars, Pay!ppVars, Pay!faultVars
<1>1. CASE UNCHANGED Pay!vars
  BY <1>1 DEF Pay!vars
<1>2. ASSUME NEW i, NEW way \in {"hand", "paypal"}, Pay!MarkPaid(i, way)
      PROVE  /\ status' \in [Invoices -> {"draft", "issued", "paid", "voided"}]
             /\ paidBy' \in [Invoices -> {"none", "hand", "paypal"}]
             /\ link' = link
  BY <1>2 DEF Pay!MarkPaid
<1>3. ASSUME NEW i, Pay!MoveOrders(i)
      PROVE  /\ order' \in [PaidOrders -> [status : Pay!OrderStatus,
                                       inv : Invoices \cup {NoLink}]]
             /\ moved' \subseteq PaidOrders
  BY <1>3 DEF Pay!MoveOrders, Pay!WaitingFor, Pay!OrderStatus
<1>4. ASSUME NEW i \in Invoices, Pay!Issue(i) PROVE Pay!TypeOK'
  BY <1>4 DEF Pay!Issue
<1>5. ASSUME NEW i \in Invoices, Pay!Pay(i) PROVE Pay!TypeOK'
  BY <1>2, <1>3, <1>5 DEF Pay!Pay
<1>6. ASSUME NEW i \in Invoices, NEW u \in Users,
             Pay!ReadForVoid(u, i) \/ Pay!ReadForLink(u, i) \/
               Pay!ReadForConfirm(u, i)
      PROVE  Pay!TypeOK'
  BY <1>6 DEF Pay!ReadForVoid, Pay!ReadForLink, Pay!ReadForConfirm, Pay!GoOn
<1>7. ASSUME NEW i \in Invoices, NEW o \in PaidOrders, Pay!CreateOrder(o, i)
      PROVE  Pay!TypeOK'
  BY <1>7 DEF Pay!CreateOrder, Pay!Late, Pay!OrderStatus
<1>8. ASSUME NEW o \in PaidOrders, Pay!EditOrder(o) PROVE Pay!TypeOK'
  <2>1. order' \in [PaidOrders -> [status : Pay!OrderStatus,
                                     inv : Invoices \cup {NoLink}]]
    BY <1>8 DEF Pay!EditOrder, Pay!OrderStatus
  <2>2. payEdits' \in 0..MaxPayEdits
    BY <1>8 DEF Pay!EditOrder
  <2> QED
    BY <1>8, <2>1, <2>2 DEF Pay!EditOrder, Pay!Late
<1>9. ASSUME NEW u \in Users,
             Pay!Void(u) \/ Pay!LinkIsRefused(u) \/ Pay!StoreLink(u) \/
               Pay!AskStatus(u)
      PROVE  Pay!TypeOK'
  <2>1. payReq' \in [Users -> Pay!Request({"voiding", "linking", "storing",
                                    "confirming", "applying"})]
    <3>1. payReq \in [Users -> Pay!Request({"voiding", "linking", "storing",
                                    "confirming", "applying"})]
      OBVIOUS
    <3>2. Pay!End(u) \/ Pay!GoOn(u, "applying", payReq[u].inv, payReq[u].pp)
      BY <1>9 DEF Pay!Void, Pay!LinkIsRefused, Pay!StoreLink, Pay!AskStatus
    <3>3. CASE Pay!End(u)
      BY <3>1, <3>3 DEF Pay!End
    <3>4. CASE Pay!GoOn(u, "applying", payReq[u].inv, payReq[u].pp)
      BY <3>1, <3>4 DEF Pay!GoOn
    <3> QED
      BY <3>2, <3>3, <3>4
  <2>2. /\ status' \in [Invoices -> {"draft", "issued", "paid", "voided"}]
        /\ link' \in [Invoices -> PPInvoices \cup {NoLink}]
    BY <1>9 DEF Pay!Void, Pay!LinkIsRefused, Pay!StoreLink, Pay!AskStatus
  <2>3. UNCHANGED <<paidBy, Pay!orderVars, Pay!ppVars, hook, Pay!faultVars>>
    BY <1>9 DEF Pay!Void, Pay!LinkIsRefused, Pay!StoreLink, Pay!AskStatus
  <2> QED
    BY <2>1, <2>2, <2>3
<1>10. ASSUME NEW u \in Users, Pay!CreateAtPayPal(u) PROVE Pay!TypeOK'
  <2>1. lapses' \in 0..MaxLapses
    BY <1>10 DEF Pay!CreateAtPayPal
  <2> QED
    BY <1>10, <2>1 DEF Pay!CreateAtPayPal, Pay!GoOn, Pay!End
<1>11. ASSUME NEW u \in Users, Pay!ApplyConfirm(u) PROVE Pay!TypeOK'
  BY <1>2, <1>3, <1>11 DEF Pay!ApplyConfirm, Pay!End
<1>12. ASSUME NEW u \in Users, Pay!Fail(u) PROVE Pay!TypeOK'
  BY <1>12 DEF Pay!Fail, Pay!End
<1>13. ASSUME NEW p \in PPInvoices, Pay!CustomerPays(p) PROVE Pay!TypeOK'
  BY <1>13 DEF Pay!CustomerPays
<1>14. ASSUME NEW h \in Hooks, NEW p \in PPInvoices,
              Pay!Receive(h, p) PROVE Pay!TypeOK'
  BY <1>14 DEF Pay!Receive, Pay!Answer200
<1>15. ASSUME NEW h \in Hooks, Pay!HookApplies(h) PROVE Pay!TypeOK'
  BY <1>2, <1>3, <1>15 DEF Pay!HookApplies, Pay!HookEnds, Pay!Answer200
<1>16. ASSUME NEW h \in Hooks,
              Pay!HookAsks(h) \/ Pay!HookAsksInVain(h) \/ Pay!HookFails(h)
       PROVE  Pay!TypeOK'
  <2>1. CASE Pay!HookAsks(h)
    <3>1. \/ hook' = [hook EXCEPT ![h].step = "applying"] /\ events' = events
          \/ Pay!Answer200(hook[h].pp) /\ Pay!HookEnds(h)
      BY <2>1 DEF Pay!HookAsks
    <3>3. /\ hook' \in [Hooks -> Pay!Request({"asking", "applying"})]
          /\ events' \subseteq PPInvoices
      <4>1. CASE hook' = [hook EXCEPT ![h].step = "applying"] /\
                   events' = events
        BY <4>1
      <4>2. CASE Pay!Answer200(hook[h].pp) /\ Pay!HookEnds(h)
        BY <4>2 DEF Pay!HookEnds, Pay!Answer200
      <4> QED
        BY <3>1, <4>1, <4>2
    <3> QED
      BY <2>1, <3>3 DEF Pay!HookAsks
  <2>2. CASE Pay!HookAsksInVain(h)
    BY <2>2 DEF Pay!HookAsksInVain, Pay!HookEnds, Pay!Answer200
  <2>3. CASE Pay!HookFails(h)
    BY <2>3 DEF Pay!HookFails, Pay!HookEnds
  <2> QED
    BY <1>16, <2>1, <2>2, <2>3
<1>17. ASSUME NEW u \in Users, Pay!UserSteps(u) PROVE Pay!TypeOK'
  BY <1>9, <1>10, <1>11, <1>17 DEF Pay!UserSteps
<1>18. ASSUME NEW h \in Hooks, Pay!HookSteps(h) PROVE Pay!TypeOK'
  BY <1>15, <1>16, <1>18 DEF Pay!HookSteps
<1> HIDE DEF Pay!TypeOK
<1> QED
  BY <1>1, <1>4, <1>5, <1>6, <1>7, <1>8, <1>12, <1>13, <1>14, <1>16, <1>17,
     <1>18 DEF Pay!Next

-----------------------------------------------------------------------------
(* What requests know of PayPal                                            *)

(* PayPal invoices are paid and never given to another invoice.            *)
LEMMA PayPalKeeps ==
  ASSUME Pay!TypeOK, [Pay!Next]_Pay!vars, NEW p \in PPInvoices
  PROVE  /\ \A i : Concerns(p, i) => Concerns(p, i)'
         /\ IsPaid(p) => IsPaid(p)'
<1> USE DEF Pay!TypeOK
<1>1. \/ pp' = pp
      \/ \E q \in PPInvoices, u \in Users :
            /\ pp[q].state = "unused"
            /\ pp' = [pp EXCEPT ![q] = [state |-> "sent",
                 inv |-> payReq[u].inv]]
      \/ \E q \in PPInvoices :
            pp[q].state = "sent" /\ pp' = [pp EXCEPT ![q].state = "paid"]
  BY DEF Pay!Next, Pay!vars, Pay!ppVars, Pay!UserSteps, Pay!HookSteps,
    Pay!Issue, Pay!Pay, Pay!ReadForVoid,
    Pay!ReadForLink, Pay!ReadForConfirm, Pay!CreateOrder, Pay!EditOrder,
    Pay!Void, Pay!CreateAtPayPal,
    Pay!LinkIsRefused, Pay!StoreLink, Pay!AskStatus, Pay!ApplyConfirm,
    Pay!Fail, Pay!CustomerPays,
    Pay!Receive, Pay!HookAsks, Pay!HookApplies, Pay!HookAsksInVain,
    Pay!HookFails
<1>2. ASSUME NEW q \in PPInvoices, pp[q].state = "sent",
             pp' = [pp EXCEPT ![q].state = "paid"]
      PROVE  /\ pp'[p].inv = pp[p].inv
             /\ pp'[p].state = IF p = q THEN "paid" ELSE pp[p].state
  BY <1>2
<1>3. ASSUME NEW q \in PPInvoices, NEW u \in Users, pp[q].state = "unused",
             pp' = [pp EXCEPT ![q] = [state |-> "sent", inv |-> payReq[u].inv]]
      PROVE  pp[p].state # "unused" => pp'[p] = pp[p]
  BY <1>3
<1> QED
  BY <1>1, <1>2, <1>3 DEF Concerns, IsPaid

(* Events are of payments, and what PayPal mails is for an invoice.        *)
LEMMA PayPalStaysSane ==
  ASSUME Pay!TypeOK, PayPalIsSane, LinksAreOwn, [Pay!Next]_Pay!vars
  PROVE  PayPalIsSane'
<1> USE DEF Pay!TypeOK, PayPalIsSane
<1>1. ASSUME NEW u \in Users, Pay!CreateAtPayPal(u) PROVE PayPalIsSane'
  <2>1. payReq[u].inv \in Invoices
    BY <1>1 DEF LinksAreOwn, Pay!CreateAtPayPal
  <2> QED
    BY <1>1, <2>1 DEF Pay!CreateAtPayPal, IsPaid
<1>2. ASSUME NEW q \in PPInvoices, Pay!CustomerPays(q) PROVE PayPalIsSane'
  BY <1>2 DEF Pay!CustomerPays, IsPaid
<1>3. CASE pp' = pp /\ events' \subseteq events
  BY <1>3 DEF IsPaid
<1>4. \/ \E u \in Users : Pay!CreateAtPayPal(u)
      \/ \E q \in PPInvoices : Pay!CustomerPays(q)
      \/ pp' = pp /\ events' \subseteq events
  BY DEF Pay!Next, Pay!vars, Pay!ppVars, Pay!UserSteps, Pay!HookSteps,
    Pay!Issue, Pay!Pay, Pay!ReadForVoid,
    Pay!ReadForLink, Pay!ReadForConfirm, Pay!CreateOrder, Pay!EditOrder,
    Pay!Void, Pay!LinkIsRefused,
    Pay!StoreLink, Pay!AskStatus, Pay!ApplyConfirm, Pay!Fail, Pay!Receive,
    Pay!HookAsks, Pay!HookApplies,
    Pay!HookAsksInVain, Pay!HookFails, Pay!Answer200
<1> QED
  BY <1>1, <1>2, <1>3, <1>4

(* Links and requests stay with their own PayPal invoice.                  *)
LinkIsOwn(i) == link[i] # NoLink => Concerns(link[i], i)
RequestIsOwn(r) ==
  /\ r.step # "idle" => r.inv \in Invoices
  /\ r.step \in {"storing", "confirming", "applying"} => Concerns(r.pp, r.inv)
  /\ r.step = "applying" => IsPaid(r.pp)
HookIsOwn(r) == r.step # "idle" =>
  r.inv \in Invoices /\ Concerns(r.pp, r.inv) /\ IsPaid(r.pp)

LEMMA OwnInParts ==
  LinksAreOwn <=> /\ \A i \in Invoices : LinkIsOwn(i)
                  /\ \A u \in Users : RequestIsOwn(payReq[u])
                  /\ \A h \in Hooks : HookIsOwn(hook[h])
BY DEF LinksAreOwn, LinkIsOwn, RequestIsOwn, HookIsOwn

LEMMA LinksStayOwn ==
  ASSUME Pay!TypeOK, PayPalIsSane, LinksAreOwn, [Pay!Next]_Pay!vars
  PROVE  LinksAreOwn'
<1> USE PaymentAssumption DEF Pay!TypeOK, Pay!NoLinkAssumption
<1>1. ASSUME NEW i \in Invoices PROVE LinkIsOwn(i)'
  <2>1. \/ link' = link
        \/ \E u \in Users : Pay!StoreLink(u)
    BY DEF Pay!Next, Pay!vars, Pay!invVars, Pay!UserSteps, Pay!HookSteps,
      Pay!Issue, Pay!Pay, Pay!ReadForVoid,
      Pay!ReadForLink, Pay!ReadForConfirm, Pay!CreateOrder, Pay!EditOrder,
      Pay!Void, Pay!CreateAtPayPal,
      Pay!LinkIsRefused, Pay!AskStatus, Pay!ApplyConfirm, Pay!Fail,
      Pay!Receive, Pay!HookAsks,
      Pay!HookApplies, Pay!HookAsksInVain, Pay!HookFails, Pay!CustomerPays,
      Pay!MarkPaid
  <2>2. ASSUME NEW u \in Users, Pay!StoreLink(u)
        PROVE  link'[i] = link[i] \/ Concerns(link'[i], i)
    BY <2>2 DEF Pay!StoreLink, LinksAreOwn
  <2>3. link'[i] # NoLink => link'[i] \in PPInvoices /\ Concerns(link'[i], i)
    BY <2>1, <2>2 DEF LinksAreOwn, Concerns
  <2> QED
    BY <2>3, PayPalKeeps DEF LinkIsOwn
<1>2. ASSUME NEW u \in Users PROVE RequestIsOwn(payReq[u])'
  <2>1. RequestIsOwn(payReq[u])
    BY OwnInParts
  <2>2. CASE payReq'[u] = payReq[u]
    BY <2>1, <2>2, PayPalKeeps DEF RequestIsOwn, Concerns
  <2>3. CASE payReq'[u] = Pay!Idle
    BY <2>3 DEF RequestIsOwn, Pay!Idle
  <2>4. ASSUME NEW i \in Invoices,
               Pay!ReadForVoid(u, i) \/ Pay!ReadForLink(u, i) \/
                 Pay!ReadForConfirm(u, i)
        PROVE  RequestIsOwn(payReq[u])'
    <3>1. /\ payReq'[u].inv = i
          /\ \/ payReq'[u].step \in {"voiding", "linking"}
             \/ /\ payReq'[u].step = "confirming" /\ payReq'[u].pp = link[i]
                /\ link[i] # NoLink
      BY <2>4 DEF Pay!ReadForVoid, Pay!ReadForLink, Pay!ReadForConfirm,
        Pay!GoOn
    <3>2. link[i] # NoLink => Concerns(link[i], i) /\ link[i] \in PPInvoices
      BY DEF LinksAreOwn, Concerns
    <3>3. link[i] # NoLink => Concerns(link[i], i)'
      <4>1. link' = link
        BY <2>4 DEF Pay!ReadForVoid, Pay!ReadForLink, Pay!ReadForConfirm,
          Pay!invVars
      <4> QED
        BY <3>2, <4>1, PayPalKeeps DEF Concerns
    <3>4. link' = link
      BY <2>4 DEF Pay!ReadForVoid, Pay!ReadForLink, Pay!ReadForConfirm,
        Pay!invVars
    <3> QED
      BY <3>1, <3>3, <3>4 DEF RequestIsOwn, Concerns
  <2>5. CASE Pay!CreateAtPayPal(u) /\ payReq'[u] # Pay!Idle
    <3>1. PICK p \in PPInvoices :
            /\ pp' = [pp EXCEPT ![p] = [state |-> "sent",
                 inv |-> payReq[u].inv]]
            /\ payReq'[u] =
                 [step |-> "storing", inv |-> payReq[u].inv, pp |-> p]
      BY <2>5 DEF Pay!CreateAtPayPal, Pay!GoOn, Pay!End
    <3>2. pp'[p] = [state |-> "sent", inv |-> payReq[u].inv]
      BY <3>1
    <3>3. payReq[u].inv \in Invoices
      BY <2>1, <2>5 DEF RequestIsOwn, Pay!CreateAtPayPal
    <3> QED
      BY <3>1, <3>2, <3>3 DEF RequestIsOwn, Concerns
  <2>6. CASE Pay!AskStatus(u) /\ payReq'[u] # Pay!Idle
    <3>1. /\ payReq[u].step = "confirming" /\ IsPaid(payReq[u].pp) /\ pp' = pp
          /\ payReq'[u] = [step |-> "applying", inv |-> payReq[u].inv,
               pp |-> payReq[u].pp]
      BY <2>6 DEF Pay!AskStatus, Pay!GoOn, Pay!End, Pay!PaidAtPayPal, IsPaid,
        Pay!ppVars
    <3> QED
      BY <2>1, <3>1 DEF RequestIsOwn, Concerns, IsPaid
  <2>7. \/ payReq'[u] = payReq[u] \/ payReq'[u] = Pay!Idle
        \/ \E i \in Invoices :
             Pay!ReadForVoid(u, i) \/ Pay!ReadForLink(u, i) \/
               Pay!ReadForConfirm(u, i)
        \/ Pay!CreateAtPayPal(u) \/ Pay!AskStatus(u)
    <3>1. CASE payReq' = payReq
      BY <3>1
    <3>2. ASSUME NEW v \in Users, v # u, Pay!UserSteps(v) \/ Pay!Fail(v) \/
                   \E i \in Invoices :
                     Pay!ReadForVoid(v, i) \/ Pay!ReadForLink(v, i) \/
                       Pay!ReadForConfirm(v, i)
          PROVE  payReq'[u] = payReq[u]
      BY <3>2 DEF Pay!UserSteps, Pay!Fail, Pay!Void, Pay!CreateAtPayPal,
        Pay!LinkIsRefused,
        Pay!StoreLink, Pay!AskStatus, Pay!ApplyConfirm, Pay!ReadForVoid,
        Pay!ReadForLink,
        Pay!ReadForConfirm, Pay!GoOn, Pay!End
    <3>3. CASE Pay!Void(u) \/ Pay!LinkIsRefused(u) \/ Pay!StoreLink(u) \/
                 Pay!ApplyConfirm(u)
                 \/ Pay!Fail(u)
      BY <3>3 DEF Pay!Void, Pay!LinkIsRefused, Pay!StoreLink,
        Pay!ApplyConfirm, Pay!Fail, Pay!End
    <3>4. \/ payReq' = payReq
          \/ \E v \in Users : Pay!UserSteps(v) \/ Pay!Fail(v) \/
               \E i \in Invoices :
                 Pay!ReadForVoid(v, i) \/ Pay!ReadForLink(v, i) \/
                   Pay!ReadForConfirm(v, i)
      BY DEF Pay!Next, Pay!vars, Pay!HookSteps, Pay!Issue, Pay!Pay,
        Pay!CreateOrder, Pay!EditOrder, Pay!Receive,
        Pay!HookAsks, Pay!HookApplies, Pay!HookAsksInVain, Pay!HookFails,
        Pay!CustomerPays
    <3> QED
      BY <3>1, <3>2, <3>3, <3>4 DEF Pay!UserSteps
  <2> QED
    BY <2>2, <2>3, <2>4, <2>5, <2>6, <2>7
<1>3. ASSUME NEW h \in Hooks PROVE HookIsOwn(hook[h])'
  <2>1. HookIsOwn(hook[h])
    BY OwnInParts
  <2>2. CASE /\ hook'[h].inv = hook[h].inv /\ hook'[h].pp = hook[h].pp
             /\ hook[h].step # "idle"
    BY <2>1, <2>2, PayPalKeeps DEF HookIsOwn, Concerns
  <2>3. CASE hook'[h].step = "idle"
    BY <2>3 DEF HookIsOwn
  <2>4. ASSUME NEW p \in events, link[pp[p].inv] = p, pp' = pp,
               hook'[h] = [step |-> "asking", inv |-> pp[p].inv, pp |-> p]
        PROVE  HookIsOwn(hook[h])'
    <3>1. p \in PPInvoices /\ IsPaid(p)
      BY DEF PayPalIsSane
    <3>2. Concerns(p, pp[p].inv) /\ pp[p].inv \in Invoices
      BY <3>1 DEF PayPalIsSane, Concerns, IsPaid
    <3> QED
      BY <2>4, <3>1, <3>2 DEF HookIsOwn, Concerns, IsPaid
  <2>5. \/ hook'[h] = hook[h] \/ hook'[h].step = "idle"
        \/ /\ hook'[h].inv = hook[h].inv /\ hook'[h].pp = hook[h].pp
           /\ hook[h].step # "idle"
        \/ \E p \in events :
             /\ link[pp[p].inv] = p /\ pp' = pp
             /\ hook'[h] = [step |-> "asking", inv |-> pp[p].inv, pp |-> p]
    <3>1. CASE hook' = hook
      BY <3>1
    <3>2. CASE \E g \in Hooks, p \in PPInvoices : Pay!Receive(g, p)
      BY <3>2 DEF Pay!Receive, Pay!ppVars
    <3>3. ASSUME NEW g \in Hooks,
                 Pay!HookSteps(g) \/ Pay!HookAsksInVain(g) \/ Pay!HookFails(g)
          PROVE  \/ hook' = [hook EXCEPT ![g] = Pay!Idle]
                 \/ /\ hook' = [hook EXCEPT ![g].step = "applying"]
                    /\ hook[g].step # "idle"
      BY <3>3 DEF Pay!HookSteps, Pay!HookAsks, Pay!HookApplies,
        Pay!HookAsksInVain, Pay!HookFails,
        Pay!HookEnds
    <3>4. ASSUME NEW g \in Hooks, hook' = [hook EXCEPT ![g] = Pay!Idle]
          PROVE  hook'[h] = hook[h] \/ hook'[h].step = "idle"
      BY <3>4 DEF Pay!Idle
    <3>5. ASSUME NEW g \in Hooks, hook[g].step # "idle",
                 hook' = [hook EXCEPT ![g].step = "applying"]
          PROVE  \/ hook'[h] = hook[h]
                 \/ /\ hook'[h].inv = hook[h].inv /\ hook'[h].pp = hook[h].pp
                    /\ hook[h].step # "idle"
      BY <3>5
    <3> QED
      BY <3>1, <3>2, <3>3, <3>4, <3>5
      DEF Pay!Next, Pay!vars, Pay!UserSteps, Pay!Issue, Pay!Pay,
        Pay!ReadForVoid, Pay!ReadForLink,
        Pay!ReadForConfirm, Pay!CreateOrder, Pay!EditOrder, Pay!Void,
        Pay!CreateAtPayPal,
        Pay!LinkIsRefused, Pay!StoreLink, Pay!AskStatus, Pay!ApplyConfirm,
        Pay!Fail, Pay!CustomerPays
  <2> QED
    BY <2>1, <2>2, <2>3, <2>4, <2>5
<1> QED
  BY <1>1, <1>2, <1>3 DEF LinksAreOwn, LinkIsOwn, RequestIsOwn, HookIsOwn

-----------------------------------------------------------------------------
(* What a step does to invoices and orders                                 *)

PaidFor(i) == \E p \in PPInvoices : pp[p].inv = i /\ pp[p].state = "paid"

(* An open invoice is paid, and the orders that wait for it are moved.     *)
Books(i) ==
  /\ Pay!Payable(i) /\ status' = [status EXCEPT ![i] = "paid"]
  /\ \E way \in {"hand", "paypal"} :
       /\ paidBy' = [paidBy EXCEPT ![i] = way]
       /\ way = "paypal" => PaidFor(i)
  /\ Pay!MoveOrders(i) /\ UNCHANGED <<pp, late>>

(* An event of a payment moves the orders of an invoice that was closed.   *)
OnlyMoves(i) ==
  PaidFor(i) /\ Pay!MoveOrders(i) /\ UNCHANGED <<status, paidBy, pp, late>>

LEMMA Effects ==
  ASSUME Pay!TypeOK, LinksAreOwn, [Pay!Next]_Pay!vars
  PROVE  \/ \E i \in Invoices : Pay!Issue(i) \/ Books(i) \/ OnlyMoves(i)
         \/ \E u \in Users : Pay!Void(u)
         \/ \E i \in Invoices, o \in PaidOrders : Pay!CreateOrder(o, i)
         \/ \E o \in PaidOrders : Pay!EditOrder(o)
         \/ UNCHANGED <<status, paidBy, order, moved, late>>
<1>1. ASSUME NEW i \in Invoices, Pay!Pay(i) PROVE Books(i)
  BY <1>1 DEF Pay!Pay, Books, Pay!MarkPaid, Pay!ppVars
<1>2. ASSUME NEW u \in Users, Pay!ApplyConfirm(u)
      PROVE  \/ \E i \in Invoices : Books(i)
             \/ UNCHANGED <<status, paidBy, order, moved, late>>
  <2>1. /\ payReq[u].inv \in Invoices /\ Concerns(payReq[u].pp, payReq[u].inv)
        /\ IsPaid(payReq[u].pp)
    BY <1>2 DEF LinksAreOwn, Pay!ApplyConfirm
  <2>2. PaidFor(payReq[u].inv)
    BY <2>1 DEF Concerns, IsPaid, PaidFor
  <2>3. CASE Pay!Payable(payReq[u].inv)
    <3>1. Books(payReq[u].inv)
      BY <1>2, <2>2, <2>3 DEF Pay!ApplyConfirm, Books, Pay!MarkPaid, Pay!ppVars
    <3> QED
      BY <2>1, <3>1
  <2>4. CASE ~ Pay!Payable(payReq[u].inv)
    BY <1>2, <2>4 DEF Pay!ApplyConfirm, Pay!MarkPaid
  <2> QED
    BY <2>3, <2>4
<1>3. ASSUME NEW h \in Hooks, Pay!HookApplies(h)
      PROVE  \E i \in Invoices : Books(i) \/ OnlyMoves(i)
  <2>1. /\ hook[h].inv \in Invoices /\ Concerns(hook[h].pp, hook[h].inv)
        /\ IsPaid(hook[h].pp)
    BY <1>3 DEF LinksAreOwn, Pay!HookApplies
  <2>2. PaidFor(hook[h].inv)
    BY <2>1 DEF Concerns, IsPaid, PaidFor
  <2>3. Books(hook[h].inv) \/ OnlyMoves(hook[h].inv)
    BY <1>3, <2>2 DEF Pay!HookApplies, Books, OnlyMoves, Pay!MarkPaid
  <2> QED
    BY <2>1, <2>3
<1> QED
  BY <1>1, <1>2, <1>3
  DEF Pay!Next, Pay!vars, Pay!invVars, Pay!orderVars, Pay!UserSteps,
    Pay!HookSteps, Pay!ReadForVoid,
    Pay!ReadForLink, Pay!ReadForConfirm, Pay!CreateAtPayPal,
    Pay!LinkIsRefused, Pay!StoreLink,
    Pay!AskStatus, Pay!Fail, Pay!Receive, Pay!HookAsks, Pay!HookAsksInVain,
    Pay!HookFails, Pay!CustomerPays

(* What MoveOrders leaves of an order.                                     *)
LEMMA Moved ==
  ASSUME Pay!TypeOK, NEW i, Pay!MoveOrders(i), NEW o \in PaidOrders
  PROVE  /\ order'[o].inv = order[o].inv
         /\ order'[o].status =
              IF o \in Pay!WaitingFor(i) THEN "sourcing" ELSE order[o].status
         /\ o \in moved' <=> o \in moved \/ o \in Pay!WaitingFor(i)
BY DEF Pay!TypeOK, Pay!MoveOrders, Pay!WaitingFor

-----------------------------------------------------------------------------
(* The invoices                                                            *)

LEMMA PaidStaysClosed ==
  ASSUME Pay!TypeOK, LinksAreOwn, PaidIsClosed, [Pay!Next]_Pay!vars
  PROVE  PaidIsClosed'
BY Effects
DEF Pay!TypeOK, PaidIsClosed, Pay!Issue, Books, OnlyMoves, Pay!Payable,
  Pay!Void, Pay!CreateOrder,
  Pay!EditOrder, Pay!invVars

LEMMA Settling ==
  ASSUME Pay!TypeOK, LinksAreOwn, PaidIsClosed, [Pay!Next]_Pay!vars,
         NEW i \in Invoices
  PROVE  /\ paidBy[i] # "none" => paidBy'[i] = paidBy[i]
         /\ status[i] = "voided" => status'[i] = "voided" /\ paidBy'[i] =
                                                               paidBy[i]
         /\ paidBy'[i] = "paypal" => paidBy[i] = "paypal" \/ PaidFor(i)
BY Effects
DEF Pay!TypeOK, PaidIsClosed, Pay!Issue, Books, OnlyMoves, Pay!Payable,
  Pay!Void, Pay!CreateOrder,
  Pay!EditOrder, Pay!invVars

(* Money that arrived at PayPal for an invoice stays there.                *)
LEMMA PaidForStays ==
  ASSUME Pay!TypeOK, PayPalIsSane, [Pay!Next]_Pay!vars, NEW i \in Invoices,
         PaidFor(i)
  PROVE  PaidFor(i)'
BY PayPalKeeps DEF PaidFor, Concerns, IsPaid

-----------------------------------------------------------------------------
(* The orders                                                              *)

LEMMA OrdersStayReal ==
  ASSUME Pay!TypeOK, LinksAreOwn, OrdersExist, [Pay!Next]_Pay!vars
  PROVE  OrdersExist'
<1> USE DEF Pay!TypeOK, OrdersExist
<1>1. ASSUME NEW i \in Invoices, Pay!MoveOrders(i) PROVE OrdersExist'
  <2>1. moved' \subseteq PaidOrders
    BY <1>1 DEF Pay!MoveOrders, Pay!WaitingFor
  <2> QED
    BY <1>1, <2>1, Moved DEF Pay!WaitingFor
<1>2. ASSUME NEW i \in Invoices, NEW o \in PaidOrders, Pay!CreateOrder(o, i)
      PROVE  OrdersExist'
  BY <1>2 DEF Pay!CreateOrder
<1>3. ASSUME NEW o \in PaidOrders, Pay!EditOrder(o) PROVE OrdersExist'
  BY <1>3 DEF Pay!EditOrder
<1>4. CASE UNCHANGED <<order, moved>>
  BY <1>4
<1> QED
  BY <1>1, <1>2, <1>3, <1>4, Effects DEF Pay!Issue, Pay!Void, Books,
    OnlyMoves, Pay!orderVars

LEMMA MoneyStaysUnderMoved ==
  ASSUME Pay!TypeOK, PayPalIsSane, LinksAreOwn, OrdersExist, PaidIsClosed,
         Pay!MovedOrdersStandOnMoney, [Pay!Next]_Pay!vars
  PROVE  Pay!MovedOrdersStandOnMoney'
<1> DEFINE OnMoney(i) == paidBy[i] # "none" \/ PaidFor(i)
<1>1. ASSUME NEW i \in Invoices, OnMoney(i) PROVE OnMoney(i)'
  BY <1>1, Settling, PaidForStays DEF Pay!TypeOK
<1>2. \A o \in moved : OnMoney(order[o].inv) /\ order[o].inv \in Invoices
  BY DEF Pay!MovedOrdersStandOnMoney, PaidFor, OrdersExist, Pay!TypeOK
<1>3. SUFFICES ASSUME NEW o \in moved' PROVE OnMoney(order[o].inv)'
  BY DEF Pay!MovedOrdersStandOnMoney, PaidFor
<1> USE DEF Pay!TypeOK
<1>4. CASE o \in moved /\ order'[o].inv = order[o].inv
  BY <1>1, <1>2, <1>4
<1>5. ASSUME NEW i \in Invoices, Books(i) \/ OnlyMoves(i), o \notin moved
      PROVE  OnMoney(order[o].inv)'
  <2>1. o \in Pay!WaitingFor(i) /\ order'[o].inv = i
    BY <1>5, Moved DEF Books, OnlyMoves, Pay!MoveOrders, Pay!WaitingFor
  <2>2. CASE Books(i)
    BY <2>1, <2>2 DEF Books
  <2>3. CASE OnlyMoves(i)
    BY <1>1, <2>1, <2>3 DEF OnlyMoves
  <2> QED
    BY <1>5, <2>2, <2>3
<1>6. ASSUME NEW i \in Invoices, Pay!MoveOrders(i), o \in moved
      PROVE  order'[o].inv = order[o].inv
  BY <1>6, Moved
<1>7. ASSUME NEW i \in Invoices, NEW q \in PaidOrders, Pay!CreateOrder(q, i)
      PROVE  o \in moved /\ order'[o].inv = order[o].inv
  BY <1>7 DEF Pay!CreateOrder, OrdersExist
<1>8. ASSUME NEW q \in PaidOrders, Pay!EditOrder(q)
      PROVE  o \in moved /\ order'[o].inv = order[o].inv
  BY <1>8 DEF Pay!EditOrder
<1>9. CASE UNCHANGED <<order, moved>>
  BY <1>4, <1>9
<1> QED
  BY <1>4, <1>5, <1>6, <1>7, <1>8, <1>9, Effects
  DEF Books, OnlyMoves, Pay!Issue, Pay!Void, Pay!orderVars

LEMMA NobodyStaysBehind ==
  ASSUME Pay!TypeOK, PayPalIsSane, LinksAreOwn, OrdersExist, PaidIsClosed,
         Pay!NoOrderLeftBehind, [Pay!Next]_Pay!vars
  PROVE  Pay!NoOrderLeftBehind'
<1> USE DEF Pay!TypeOK, Pay!NoOrderLeftBehind
<1>1. SUFFICES ASSUME NEW o \in PaidOrders,
                      order'[o].status = "awaiting_payment",
                      paidBy'[order'[o].inv] # "none"
               PROVE  o \in late'
  OBVIOUS
<1>2. ASSUME NEW i \in Invoices, Pay!MoveOrders(i), late' = late,
             \A j \in Invoices : j # i => paidBy'[j] = paidBy[j]
      PROVE  o \in late'
  <2>1. /\ order'[o].inv = order[o].inv /\ order[o].status = "awaiting_payment"
        /\ order[o].inv # i
    BY <1>1, <1>2, Moved DEF Pay!WaitingFor
  <2>2. order[o].inv \in Invoices
    BY <2>1 DEF OrdersExist
  <2> QED
    BY <1>1, <1>2, <2>1, <2>2
<1>3. ASSUME NEW i \in Invoices, NEW q \in PaidOrders, Pay!CreateOrder(q, i)
      PROVE  o \in late'
  BY <1>1, <1>3 DEF Pay!CreateOrder, Pay!Late, Pay!invVars
<1>4. ASSUME NEW q \in PaidOrders, Pay!EditOrder(q) PROVE o \in late'
  BY <1>1, <1>4 DEF Pay!EditOrder, Pay!Late, Pay!invVars
<1>5. CASE UNCHANGED <<paidBy, order, late>>
  BY <1>1, <1>5
<1> QED
  BY <1>2, <1>3, <1>4, <1>5, Effects
  DEF Pay!Issue, Pay!Void, Books, OnlyMoves, Pay!orderVars

-----------------------------------------------------------------------------
(* The theorems                                                            *)

DocVars == <<part, vars, payVars, stockVars, addressVars>>

LEMMA PaymentsRun == Documents => Pay!Init /\ [][Pay!Next]_Pay!vars
<1>1. InitOfPart => Pay!Init
  BY DEF InitOfPart
<1>2. [NextOfPart]_DocVars => [Pay!Next]_Pay!vars
  BY DEF NextOfPart, DocVars, Addressing, payVars, Pay!vars, Pay!invVars,
    Pay!orderVars, Pay!ppVars, Pay!faultVars
<1> QED
  BY <1>1, <1>2, PTL DEF Documents, DocVars

LEMMA PayInvAlways == Documents => []PayInv
<1>1. Pay!Init => PayInv
  BY PaymentAssumption
  DEF Pay!NoLinkAssumption, Pay!BoundsAssumption, Pay!Init, PayInv,
    Pay!TypeOK, Pay!Request, Pay!Idle, Pay!OrderStatus, PayPalIsSane,
    LinksAreOwn,
    OrdersExist, PaidIsClosed, Pay!PayPalWasPaid, Pay!MovedOrdersStandOnMoney,
    Pay!NoOrderLeftBehind
<1>2. PayInv /\ [Pay!Next]_Pay!vars => Pay!PayPalWasPaid'
  BY Settling, PaidForStays DEF PayInv, Pay!PayPalWasPaid, PaidFor
<1>3. PayInv /\ [Pay!Next]_Pay!vars => PayInv'
  BY <1>2, PayTypesHold, PayPalStaysSane, LinksStayOwn, OrdersStayReal,
     PaidStaysClosed, MoneyStaysUnderMoved, NobodyStaysBehind DEF PayInv
<1> QED
  BY <1>1, <1>3, PaymentsRun, PTL

LEMMA QuotesRun == Documents => Spec
<1>1. InitOfPart => Init
  BY DEF InitOfPart
<1>2. [NextOfPart]_DocVars => [Next]_vars
  BY DEF NextOfPart, DocVars, Addressing, vars
<1> QED
  BY <1>1, <1>2, PTL DEF Documents, DocVars, Spec

(* However payments by hand, confirmations and repeated events of PayPal   *)
(* race, the first payment of an invoice stays and a voided one is not     *)
(* paid after; an invoice is booked as paid through PayPal, and an order   *)
(* sent on to sourcing, only on money that has arrived; and a payment      *)
(* leaves no order behind that waited for it.  Decided quotes stay decided.*)
THEOREM MoneyDoesSettleOnce == Documents => MoneySettlesOnce
<1>1. PayInv /\ [Pay!Next]_Pay!vars =>
        [\A i \in Invoices :
           /\ paidBy[i] # "none" => paidBy'[i] = paidBy[i]
           /\ status[i] = "voided" => /\ status'[i] = "voided"
                                      /\ paidBy'[i] = paidBy[i]]_Pay!vars
  BY Settling DEF PayInv
<1>2. PayInv => /\ Pay!MovedOrdersStandOnMoney /\ Pay!NoOrderLeftBehind
                /\ Pay!PayPalWasPaid
  BY DEF PayInv
<1>3. Documents => Pay!SettledOnce
  BY <1>1, PayInvAlways, PaymentsRun, PTL DEF Pay!SettledOnce
<1> QED
  BY <1>2, <1>3, PayInvAlways, QuotesRun, DecisionsAreFinal, PTL
  DEF MoneySettlesOnce

-----------------------------------------------------------------------------
(* The stock: counting                                                     *)

(* Both modules count by the same definition.                              *)
LEMMA SameCount ==
  \A S : Stock!Cardinality(S) = Cardinality(S) /\
    Stock!IsFiniteSet(S) = IsFiniteSet(S)
BY DEF Stock!Cardinality, Cardinality, Stock!IsFiniteSet, IsFiniteSet

UnitsIn(S) == UNION {Stock!Units(o) : o \in S}
Count(f, state) == Cardinality(UnitsIn({o \in SalesOrders : f[o] = state}))

LEMMA UnitsOfOrder ==
  ASSUME NEW o \in SalesOrders
  PROVE  IsFiniteSet(Stock!Units(o)) /\
           Cardinality(Stock!Units(o)) = Quantity[o]
<1>1. Quantity[o] \in Nat \ {0}
  BY StockAssumption DEF Stock!QtyAssumption
<1>2. IsFiniteSet({o}) /\ Cardinality({o}) = 1
  BY FS_Singleton
<1>3. IsFiniteSet(1..Quantity[o]) /\ Cardinality(1..Quantity[o]) = Quantity[o]
  BY <1>1, FS_Interval
<1> QED
  <2>1. IsFiniteSet({o} \X (1..Quantity[o]))
    BY <1>2, <1>3, FS_Product
  <2>2. Cardinality({o} \X (1..Quantity[o])) =
          Cardinality({o}) * Cardinality(1..Quantity[o])
    BY <1>2, <1>3, FS_Product
  <2> QED
    BY <1>1, <1>2, <1>3, <2>1, <2>2 DEF Stock!Units

LEMMA UnitsAreFinite ==
  ASSUME NEW S \in SUBSET SalesOrders
  PROVE  IsFiniteSet(UnitsIn(S))
<1> DEFINE F == [o \in S |-> Stock!Units(o)]
<1> DEFINE T == {Stock!Units(o) : o \in S}
<1>1. IsFiniteSet(S)
  BY FS_Subset, StockAssumption, SameCount DEF Stock!OrdersAssumption
<1>2. F \in Surjection(S, T)
  BY DEF Surjection
<1>3. IsFiniteSet(T)
  <2> HIDE DEF F, T
  <2> QED
    BY <1>1, <1>2, FS_Surjection
<1>4. \A u \in T : IsFiniteSet(u)
  BY UnitsOfOrder
<1>5. IsFiniteSet(UNION T)
  <2> HIDE DEF T
  <2> QED
    BY <1>3, <1>4, FS_UNION
<1> QED
  BY <1>5 DEF UnitsIn

(* No unit is counted for two orders.                                      *)
LEMMA OneMoreOrder ==
  ASSUME NEW S \in SUBSET SalesOrders, NEW o \in SalesOrders \ S
  PROVE  Cardinality(UnitsIn(S \cup {o})) =
           Cardinality(UnitsIn(S)) + Quantity[o]
<1>1. UnitsIn(S \cup {o}) = UnitsIn(S) \cup Stock!Units(o)
  BY DEF UnitsIn
<1>2. UnitsIn(S) \cap Stock!Units(o) = {}
  BY DEF UnitsIn, Stock!Units
<1>3. IsFiniteSet(UnitsIn(S)) /\ Cardinality(UnitsIn(S)) \in Nat
  BY UnitsAreFinite, FS_CardinalityType
<1>4. /\ IsFiniteSet(Stock!Units(o))
      /\ Cardinality(Stock!Units(o)) = Quantity[o]
      /\ Quantity[o] \in Nat
  BY UnitsOfOrder, StockAssumption DEF Stock!QtyAssumption
<1>5. Cardinality(UnitsIn(S) \cup Stock!Units(o)) =
        Cardinality(UnitsIn(S)) + Cardinality(Stock!Units(o))
          - Cardinality(UnitsIn(S) \cap Stock!Units(o))
  BY <1>3, <1>4, FS_Union
<1>6. Cardinality(UnitsIn(S) \cap Stock!Units(o)) = 0
  BY <1>2, FS_EmptySet
<1>7. Cardinality(UnitsIn(S \cup {o})) =
        Cardinality(UnitsIn(S)) + Quantity[o] - 0
  BY <1>1, <1>4, <1>5, <1>6, Zenon
<1> QED
  BY <1>3, <1>4, <1>7

LEMMA CountIsNatural ==
  ASSUME NEW f, NEW s
  PROVE  Count(f, s) \in Nat
BY UnitsAreFinite, FS_CardinalityType DEF Count

(* What an order adds that comes to those in a state.                      *)
LEMMA OrderAdds ==
  ASSUME NEW f, NEW g, NEW s,
         NEW o \in SalesOrders \ {p \in SalesOrders : f[p] = s},
         {p \in SalesOrders : g[p] = s} =
           {p \in SalesOrders : f[p] = s} \cup {o}
  PROVE  Count(g, s) = Count(f, s) + Quantity[o]
<1> DEFINE In == {p \in SalesOrders : f[p] = s}
<1>1. In \in SUBSET SalesOrders /\ o \in SalesOrders \ In
  OBVIOUS
<1>2. /\ Count(g, s) = Cardinality(UnitsIn(In \cup {o}))
      /\ Count(f, s) = Cardinality(UnitsIn(In))
  BY DEF Count
<1> HIDE DEF In
<1> QED
  BY <1>1, <1>2, OneMoreOrder

-----------------------------------------------------------------------------
(* The stock: the invariant                                                *)

(* FOR UPDATE lets one request at a time have read the row, ...            *)
OneReads == \A o, p \in reading : o = p

(* ... and what that request has seen still holds.                         *)
ReadersHaveSeen ==
  \A o \in reading :
    /\ reserved + Quantity[o] <= physical
    /\ held[o] \in {"new", "held"}
    /\ held[o] = "held" => "reserve" \in Repeats

(* What the row says of the orders depends on what callers repeat: a       *)
(* reservation that is repeated reserves too much, a release or a shipment *)
(* takes away what other orders hold.                                      *)
StockInv ==
  /\ Stock!TypeOK /\ OneReads /\ ReadersHaveSeen
  /\ reserved <= physical
  /\ "ship" \notin Repeats => Stock!ShelfIsCounted
  /\ Repeats \subseteq {"reserve"} => created.reserved + Stock!Held <= reserved
  /\ Repeats = {} => Stock!ReservedIsWhatIsHeld

LEMMA StockIsCounted ==
  Stock!Held = Count(held, "held") /\ Stock!Shipped = Count(held, "shipped")
BY SameCount DEF Stock!Held, Stock!Shipped, Stock!UnitsOf, UnitsIn, Count

LEMMA CountedNext ==
  /\ Stock!Held' = Count(held', "held")
  /\ Stock!Shipped' = Count(held', "shipped")
BY SameCount DEF Stock!Held, Stock!Shipped, Stock!UnitsOf, UnitsIn, Count,
  Stock!Units

(* The quantities of an order that moves, and of one that does not.        *)
LEMMA OrderMoves ==
  ASSUME Stock!TypeOK, NEW o \in SalesOrders, NEW s,
         held' = [held EXCEPT ![o] = s]
  PROVE  /\ {Stock!Held, Stock!Held', Stock!Shipped, Stock!Shipped',
              Quantity[o]} \subseteq Nat
         /\ s = held[o] =>
              Stock!Held' = Stock!Held /\ Stock!Shipped' = Stock!Shipped
         /\ held[o] = "new" /\ s = "held" =>
              /\ Stock!Held' = Stock!Held + Quantity[o]
              /\ Stock!Shipped' = Stock!Shipped
         /\ held[o] = "held" /\ s = "released" =>
              /\ Stock!Held = Stock!Held' + Quantity[o]
              /\ Stock!Shipped' = Stock!Shipped
         /\ held[o] = "held" /\ s = "shipped" =>
              /\ Stock!Held = Stock!Held' + Quantity[o]
              /\ Stock!Shipped' = Stock!Shipped + Quantity[o]
<1>1. DOMAIN held = SalesOrders
  BY DEF Stock!TypeOK
<1>2. {Stock!Held, Stock!Held', Stock!Shipped, Stock!Shipped'} \subseteq Nat
  BY StockIsCounted, CountedNext, CountIsNatural
<1>3. Quantity[o] \in Nat
  BY StockAssumption DEF Stock!QtyAssumption
<1>4. s = held[o] => held' = held
  BY DEF Stock!TypeOK
<1>5. \A p \in SalesOrders : held'[p] = IF p = o THEN s ELSE held[p]
  BY <1>1
<1>6. s # held[o] =>
        /\ Count(held', s) = Count(held, s) + Quantity[o]
        /\ Count(held, held[o]) = Count(held', held[o]) + Quantity[o]
        /\ \A t : t # s /\ t # held[o] => Count(held', t) = Count(held, t)
  <2> DEFINE f == held
             g == held'
  <2> SUFFICES ASSUME s # f[o]
               PROVE  /\ Count(g, s) = Count(f, s) + Quantity[o]
                      /\ Count(f, f[o]) = Count(g, f[o]) + Quantity[o]
                      /\ \A t : t # s /\ t # f[o] => Count(g, t) = Count(f, t)
    OBVIOUS
  <2>1. \A p \in SalesOrders : g[p] = IF p = o THEN s ELSE f[p]
    BY <1>5
  <2> HIDE DEF f, g
  <2>2. /\ {p \in SalesOrders : g[p] = s} =
             {p \in SalesOrders : f[p] = s} \cup {o}
        /\ o \in SalesOrders \ {p \in SalesOrders : f[p] = s}
    BY <2>1
  <2>3. /\ {p \in SalesOrders : f[p] = f[o]} =
             {p \in SalesOrders : g[p] = f[o]} \cup {o}
        /\ o \in SalesOrders \ {p \in SalesOrders : g[p] = f[o]}
    BY <2>1
  <2>4. ASSUME NEW t, t # s, t # f[o] PROVE Count(g, t) = Count(f, t)
    <3>1. {p \in SalesOrders : g[p] = t} = {p \in SalesOrders : f[p] = t}
      BY <2>1, <2>4
    <3> QED
      BY <3>1 DEF Count
  <2>5. Count(g, s) = Count(f, s) + Quantity[o]
    BY <2>2, OrderAdds
  <2>6. Count(f, f[o]) = Count(g, f[o]) + Quantity[o]
    BY <2>3, OrderAdds
  <2> QED
    BY <2>4, <2>5, <2>6
<1> QED
  BY <1>2, <1>3, <1>4, <1>6, StockIsCounted, CountedNext

LEMMA QtyIsPositive ==
  ASSUME NEW o \in SalesOrders
  PROVE  Quantity[o] \in Nat /\ Quantity[o] > 0
BY StockAssumption DEF Stock!QtyAssumption

LEMMA KeepsReserveReads ==
  ASSUME StockInv, NEW o \in SalesOrders, Stock!ReserveReads(o)
  PROVE  StockInv'
<1> USE DEF StockInv, Stock!ReserveReads, Stock!Locked
<1>1. Stock!TypeOK' /\ OneReads'
  BY DEF Stock!TypeOK, OneReads
<1>2. ReadersHaveSeen'
  <2>1. /\ reading' = {o} /\ held[o] \in {"new", "held"}
        /\ held[o] = "held" => "reserve" \in Repeats
    BY DEF Stock!Asks
  <2>2. reserved + Quantity[o] <= physical
    BY QtyIsPositive DEF Stock!TypeOK
  <2> QED
    BY <2>1, <2>2 DEF ReadersHaveSeen
<1>3. Stock!Held' = Stock!Held /\ Stock!Shipped' = Stock!Shipped
  BY StockIsCounted, CountedNext
<1> QED
  BY <1>1, <1>2, <1>3 DEF Stock!ShelfIsCounted, Stock!ReservedIsWhatIsHeld

LEMMA KeepsReserveWrites ==
  ASSUME StockInv, NEW o \in SalesOrders, Stock!ReserveWrites(o)
  PROVE  StockInv'
<1> USE DEF StockInv, Stock!ReserveWrites
<1>1. Stock!TypeOK'
  BY QtyIsPositive DEF Stock!TypeOK
<1>2. reading' = {}
  BY DEF OneReads
<1>3. held[o] = "new" \/ ("reserve" \in Repeats /\ held[o] = "held")
  BY DEF ReadersHaveSeen
<1>4. reserved' <= physical'
  BY DEF Stock!Allowed
<1>5. /\ {Stock!Held, Stock!Held', Stock!Shipped, Stock!Shipped',
           Quantity[o]} \subseteq Nat
      /\ held[o] = "held" =>
           Stock!Held' = Stock!Held /\ Stock!Shipped' = Stock!Shipped
      /\ held[o] = "new" =>
           /\ Stock!Held' = Stock!Held + Quantity[o]
           /\ Stock!Shipped' = Stock!Shipped
  BY OrderMoves
<1>6. {physical, reserved, created.physical, created.reserved} \subseteq Nat
  BY DEF Stock!TypeOK
<1>7. "ship" \notin Repeats => Stock!ShelfIsCounted'
  BY <1>3, <1>5, <1>6 DEF Stock!ShelfIsCounted
<1>8. Repeats \subseteq {"reserve"} =>
        created.reserved' + Stock!Held' <= reserved'
  BY <1>3, <1>5, <1>6
<1>9. Repeats = {} => Stock!ReservedIsWhatIsHeld'
  BY <1>3, <1>5, <1>6 DEF Stock!ReservedIsWhatIsHeld
<1> QED
  BY <1>1, <1>2, <1>4, <1>7, <1>8, <1>9 DEF OneReads, ReadersHaveSeen

LEMMA KeepsReserveFails ==
  ASSUME StockInv, NEW o \in SalesOrders, Stock!ReserveFails(o)
  PROVE  StockInv'
<1> USE DEF StockInv, Stock!ReserveFails
<1>1. Stock!TypeOK' /\ OneReads' /\ ReadersHaveSeen'
  BY DEF Stock!TypeOK, OneReads, ReadersHaveSeen
<1>2. Stock!Held' = Stock!Held /\ Stock!Shipped' = Stock!Shipped
  BY StockIsCounted, CountedNext
<1> QED
  BY <1>1, <1>2 DEF Stock!ShelfIsCounted, Stock!ReservedIsWhatIsHeld

LEMMA KeepsRelease ==
  ASSUME StockInv, NEW o \in SalesOrders, Stock!Release(o)
  PROVE  StockInv'
<1> USE DEF StockInv, Stock!Release, Stock!Locked
<1>1. Stock!TypeOK'
  BY QtyIsPositive DEF Stock!TypeOK, Stock!Less
<1>2. OneReads' /\ ReadersHaveSeen'
  BY DEF OneReads, ReadersHaveSeen
<1>3. held[o] = "held" \/ ("release" \in Repeats /\ held[o] = "released")
  BY DEF Stock!Asks
<1>4. /\ {Stock!Held, Stock!Held', Stock!Shipped, Stock!Shipped',
           Quantity[o]} \subseteq Nat
      /\ held[o] = "released" =>
           Stock!Held' = Stock!Held /\ Stock!Shipped' = Stock!Shipped
      /\ held[o] = "held" =>
           /\ Stock!Held = Stock!Held' + Quantity[o]
           /\ Stock!Shipped' = Stock!Shipped
  BY OrderMoves
<1>5. {physical, reserved, created.physical, created.reserved} \subseteq Nat
  BY DEF Stock!TypeOK
<1>6. reserved' <= physical'
  BY <1>4, <1>5 DEF Stock!Less
<1>7. "ship" \notin Repeats => Stock!ShelfIsCounted'
  BY <1>3, <1>4, <1>5 DEF Stock!ShelfIsCounted
<1>8. Repeats \subseteq {"reserve"} =>
        created.reserved' + Stock!Held' <= reserved'
  BY <1>3, <1>4, <1>5 DEF Stock!Less
<1>9. Repeats = {} => Stock!ReservedIsWhatIsHeld'
  BY <1>3, <1>4, <1>5 DEF Stock!Less, Stock!ReservedIsWhatIsHeld
<1> QED
  BY <1>1, <1>2, <1>6, <1>7, <1>8, <1>9

LEMMA KeepsShip ==
  ASSUME StockInv, NEW o \in SalesOrders, Stock!Ship(o)
  PROVE  StockInv'
<1> USE DEF StockInv, Stock!Ship, Stock!Locked
<1>1. Stock!TypeOK'
  BY QtyIsPositive DEF Stock!TypeOK, Stock!Less
<1>2. OneReads' /\ ReadersHaveSeen'
  BY DEF OneReads, ReadersHaveSeen
<1>3. held[o] = "held" \/ ("ship" \in Repeats /\ held[o] = "shipped")
  BY DEF Stock!Asks
<1>4. /\ {Stock!Held, Stock!Held', Stock!Shipped, Stock!Shipped',
           Quantity[o]} \subseteq Nat
      /\ held[o] = "held" =>
           /\ Stock!Held = Stock!Held' + Quantity[o]
           /\ Stock!Shipped' = Stock!Shipped + Quantity[o]
  BY OrderMoves
<1>5. {physical, reserved, created.physical, created.reserved} \subseteq Nat
  BY DEF Stock!TypeOK
<1>6. reserved' <= physical'
  BY DEF Stock!Allowed
<1>7. "ship" \notin Repeats => Stock!ShelfIsCounted'
  BY <1>3, <1>4, <1>5 DEF Stock!ShelfIsCounted
<1>8. Repeats \subseteq {"reserve"} =>
        created.reserved' + Stock!Held' <= reserved'
  BY <1>3, <1>4, <1>5 DEF Stock!Less
<1>9. Repeats = {} => Stock!ReservedIsWhatIsHeld'
  BY <1>3, <1>4, <1>5 DEF Stock!Less, Stock!ReservedIsWhatIsHeld
<1> QED
  BY <1>1, <1>2, <1>6, <1>7, <1>8, <1>9

LEMMA KeepsStock ==
  ASSUME StockInv, UNCHANGED Stock!vars
  PROVE  StockInv'
<1> USE DEF StockInv, Stock!vars
<1>1. Stock!TypeOK' /\ OneReads' /\ ReadersHaveSeen'
  BY DEF Stock!TypeOK, OneReads, ReadersHaveSeen
<1>2. Stock!Held' = Stock!Held /\ Stock!Shipped' = Stock!Shipped
  BY StockIsCounted, CountedNext
<1> QED
  BY <1>1, <1>2 DEF Stock!ShelfIsCounted, Stock!ReservedIsWhatIsHeld

LEMMA StockInvAlways == Stock!Spec => []StockInv
<1>1. Stock!Init => StockInv
  <2> SUFFICES ASSUME Stock!Init PROVE StockInv
    OBVIOUS
  <2>1. PICK p, r \in 0..MaxStock : Stock!Create(p, r)
    BY DEF Stock!Init
  <2>2. Stock!TypeOK /\ OneReads /\ ReadersHaveSeen /\ reserved <= physical
    BY <2>1, StockAssumption DEF Stock!Init, Stock!Create, Stock!TypeOK,
      OneReads, ReadersHaveSeen, Stock!StockAssumption
  <2>3. UnitsIn({}) = {} /\ Cardinality({}) = 0
    BY FS_EmptySet DEF UnitsIn
  <2>4. Stock!Held = 0 /\ Stock!Shipped = 0
    BY <2>3, StockIsCounted DEF Stock!Init, Count
  <2> QED
    BY <2>1, <2>2, <2>4 DEF Stock!Create, StockInv, Stock!TypeOK,
      Stock!ShelfIsCounted, Stock!ReservedIsWhatIsHeld
<1>2. StockInv /\ [Stock!Next]_(Stock!vars) => StockInv'
  BY KeepsReserveReads, KeepsReserveWrites, KeepsReserveFails, KeepsRelease,
    KeepsShip, KeepsStock DEF Stock!Next
<1> QED
  BY <1>1, <1>2, PTL DEF Stock!Spec

-----------------------------------------------------------------------------
(* What holds of it                                                        *)

(* Whatever is repeated: the two quantities stay natural numbers.          *)
THEOREM StockTypes == Stock!Spec => []Stock!TypeOK
<1>1. StockInv => Stock!TypeOK
  BY DEF StockInv
<1> QED
  BY <1>1, StockInvAlways, PTL

(* When no caller sends a request again, reserved_qty is what the orders   *)
(* hold, however reservations, releases and shipments interleave.          *)
THEOREM ReservedIsExact ==
  ASSUME Repeats = {}
  PROVE  Stock!Spec => []Stock!ReservedIsWhatIsHeld
<1>1. StockInv => Stock!ReservedIsWhatIsHeld
  BY DEF StockInv
<1> QED
  BY <1>1, StockInvAlways, PTL

(* When no shipment is sent again, physical_qty is what is on the shelf.   *)
THEOREM ShelfDoesCount ==
  ASSUME "ship" \notin Repeats
  PROVE  Stock!Spec => []Stock!ShelfIsCounted
<1>1. StockInv => Stock!ShelfIsCounted
  BY DEF StockInv
<1> QED
  BY <1>1, StockInvAlways, PTL

(* When at most reservations are sent again, what the orders hold is on    *)
(* the shelf.                                                              *)
THEOREM PromisesHold ==
  ASSUME Repeats \subseteq {"reserve"}
  PROVE  Stock!Spec => []Stock!PromisesAreBacked
<1>1. StockInv => Stock!PromisesAreBacked
  BY DEF StockInv, Stock!PromisesAreBacked
<1> QED
  BY <1>1, StockInvAlways, PTL

LEMMA HolderIsCounted ==
  ASSUME NEW o \in SalesOrders, held[o] = "held"
  PROVE  Quantity[o] <= Stock!Held
<1> DEFINE Others == {u \in SalesOrders : held[u] = "held"} \ {o}
<1>1. /\ Others \in SUBSET SalesOrders /\ o \in SalesOrders \ Others
      /\ {u \in SalesOrders : held[u] = "held"} = Others \cup {o}
  OBVIOUS
<1> HIDE DEF Others
<1>2. Stock!Held = Cardinality(UnitsIn(Others \cup {o}))
  BY <1>1, StockIsCounted DEF Count
<1>3. Cardinality(UnitsIn(Others)) \in Nat
  BY <1>1, UnitsAreFinite, FS_CardinalityType
<1>4. Stock!Held = Cardinality(UnitsIn(Others)) + Quantity[o]
  BY <1>1, <1>2, OneMoreOrder
<1> QED
  BY <1>3, <1>4, QtyIsPositive

(* ... and no constraint of the table refuses a request that the code has  *)
(* let through.                                                            *)
THEOREM ConstraintsNeverRefuse ==
  ASSUME Repeats \subseteq {"reserve"}
  PROVE  Stock!Spec => []Stock!NoConstraintError
<1>1. StockInv => Stock!NoConstraintError
  <2> SUFFICES ASSUME StockInv, NEW o \in SalesOrders
               PROVE  /\ o \in reading =>
                           Stock!Allowed(physical, reserved + Quantity[o])
                      /\ held[o] = "held" =>
                           /\ Quantity[o] <= physical
                           /\ Stock!Allowed(
                                physical - Quantity[o],
                                Stock!Less(reserved, Quantity[o]))
    BY DEF Stock!NoConstraintError
  <2>1. {physical, reserved, created.reserved, Quantity[o],
          Stock!Held} \subseteq Nat
    BY QtyIsPositive, CountIsNatural, StockIsCounted DEF StockInv, Stock!TypeOK
  <2>2. created.reserved + Stock!Held <= reserved /\ reserved <= physical
    BY DEF StockInv
  <2>3. held[o] = "held" => Quantity[o] <= Stock!Held
    BY HolderIsCounted
  <2>4. o \in reading => reserved + Quantity[o] <= physical
    BY DEF StockInv, ReadersHaveSeen
  <2> QED
    BY <2>1, <2>2, <2>3, <2>4 DEF Stock!Allowed, Stock!Less
<1> QED
  BY <1>1, StockInvAlways, PTL

-----------------------------------------------------------------------------
(* The stock, as a part of the documents                                   *)

LEMMA StockRuns == Documents => Stock!Spec
<1>1. InitOfPart => Stock!Init
  BY DEF InitOfPart
<1>2. [NextOfPart]_DocVars => [Stock!Next]_(Stock!vars)
  BY DEF NextOfPart, DocVars, Addressing, stockVars, Stock!vars
<1> QED
  BY <1>1, <1>2, PTL DEF Documents, DocVars, Stock!Spec

(* However reservations, releases and shipments interleave, none of them   *)
(* sent twice, reserved_qty is what the orders hold, physical_qty what is  *)
(* on the shelf, and what an order holds can be shipped.                   *)
THEOREM ReservationsDoHold ==
  ASSUME Repeats = {}
  PROVE  Documents => []ReservationsHold
<1>1. /\ Stock!Spec => []Stock!ReservedIsWhatIsHeld
      /\ Stock!Spec => []Stock!ShelfIsCounted
      /\ Stock!Spec => []Stock!PromisesAreBacked
      /\ Stock!Spec => []Stock!NoConstraintError
  <2>2. "ship" \notin Repeats /\ Repeats \subseteq {"reserve"}
    OBVIOUS
  <2> QED
    BY <2>2, ReservedIsExact, ShelfDoesCount, PromisesHold,
       ConstraintsNeverRefuse
<1>2. /\ Stock!ReservedIsWhatIsHeld /\ Stock!ShelfIsCounted
      /\ Stock!PromisesAreBacked /\ Stock!NoConstraintError
      => ReservationsHold
  BY DEF ReservationsHold
<1> QED
  BY <1>1, <1>2, StockRuns, PTL

-----------------------------------------------------------------------------
(* The addresses the documents are made out to                             *)

(* The inductive invariant                                                 *)

Visit ==
  [at : {"idle", "demoting", "demote", "editing", "delete", "inserting",
    "done",
         "failed"},
   kind : Address!Kinds \cup {"none", "page"}, token : Links \cup {NoLink},
   page : SUBSET Address!Addresses(Address!Procs), todo : Seq(Address!Types),
   seen : SUBSET Address!AllRows,
   locked : SUBSET Address!AllRows, added : SUBSET Address!Types]

VisitsHaveTypes == visit \in [Address!Procs -> Visit]

(* What a customer's request has yet to insert, and what it has inserted.  *)
Gives(r) ==
  CASE r.kind = "register" ->
         /\ r.locked = {}
         /\ \/ r.todo \in {<<"billing">>, <<"billing", "delivery">>} /\
                 r.added = {}
            \/ r.todo \in {<<>>, <<"delivery">>} /\ "billing" \in r.added
    [] r.kind = "append" -> r.locked = {} /\ r.todo = <<>> /\ r.added = {}
    [] r.kind = "billing" ->
         /\ \A row \in r.locked : row.type = "billing"
         /\ \/ r.todo = <<"billing">> /\ r.added = {}
            \/ r.todo = <<>> /\ r.added = {"billing"}

CustomerRequest(r) ==
  /\ r.at \in {"idle", "demoting", "demote", "inserting", "done", "failed"}
  /\ r.at \in {"demoting", "demote"} =>
       r.token \in Links /\ r.kind = "billing" /\ r.locked = {} /\ r.added = {}
  /\ r.at = "inserting" =>
       r.token \in Links /\ r.kind \in Address!Kinds /\ Gives(r)

(* A page inserts as defaults what it shows as defaults.                   *)
Shows(r, t) == \E a \in r.page : a.type = t /\ a.def
EditorRequest(r) ==
  /\ r.at \in {"idle", "editing", "delete", "inserting", "done", "failed"}
  /\ r.token = NoLink
  /\ r.at \in {"editing", "delete"} =>
       r.kind = "page" /\ r.locked = {} /\ r.added = {}
  /\ r.at = "inserting" =>
       /\ r.kind = "page"
       /\ \A t \in Address!Types :
            t \in r.added \/ (\E i \in 1..Len(r.todo) : r.todo[i] = t) =>
              Shows(r, t)

VisitsAreInOrder ==
  /\ \A p \in Customers : CustomerRequest(visit[p])
  /\ \A p \in Editors : EditorRequest(visit[p])

(* A row was inserted by a request that has committed.                     *)
RowsAreCommitted == \A r \in rows : Address!Done(r.in)

(* A token that can be used was made.                                      *)
TokensAreMade == \A k \in Links : token[k].state = "valid" =>
  token[k].kind \in Address!Kinds

AddressInv ==
  /\ Address!TypeOK /\ VisitsHaveTypes /\ VisitsAreInOrder /\ RowsAreCommitted
  /\ TokensAreMade /\ Address!DefaultsAreRows

-----------------------------------------------------------------------------
(* What a step does to the requests                                        *)

LEMMA Lists ==
  /\ <<>> \in Seq(Address!Types) /\ <<"billing">> \in Seq(Address!Types)
  /\ <<"billing", "delivery">> \in Seq(Address!Types)
  /\ \A t \in Address!Types : <<t>> \in Seq(Address!Types)
BY DEF Address!Types

LEMMA FreshIsIdle ==
  /\ Address!Fresh \in Visit
  /\ \A at \in {"done", "failed"}, k \in Links \cup {NoLink} :
       /\ [Address!Fresh EXCEPT !.at = at] \in Visit
       /\ [Address!Fresh EXCEPT !.at = at, !.token = k] \in Visit
<1> DEFINE Todos == Seq(Address!Types)
<1>1. <<>> \in Todos
  BY Lists
<1> HIDE DEF Todos
<1>2. Visit = [at : {"idle", "demoting", "demote", "editing", "delete",
        "inserting", "done",
         "failed"},
   kind : Address!Kinds \cup {"none", "page"}, token : Links \cup {NoLink},
   page : SUBSET Address!Addresses(Address!Procs), todo : Todos, seen :
     SUBSET Address!AllRows,
   locked : SUBSET Address!AllRows, added : SUBSET Address!Types]
  BY DEF Visit, Todos
<1> QED
  BY <1>1, <1>2 DEF Address!Fresh

(* The request of p alone goes on, in order.                               *)
Moves(p) ==
  /\ ~ Address!Done(p)
  /\ \E r \in Visit :
       /\ visit' = [visit EXCEPT ![p] = r]
       /\ p \in Customers => CustomerRequest(r)
       /\ p \in Editors => EditorRequest(r)

Works(p) == Moves(p) /\ ~ Address!Done(p)' /\ UNCHANGED <<rows, default>>

LEMMA Going ==
  ASSUME AddressInv, NEW p \in Address!Procs,
         NEW r \in Visit, ~ Address!Done(p), r.at # "done",
         UNCHANGED <<rows, default>>, visit' = [visit EXCEPT ![p] = r],
         p \in Customers => CustomerRequest(r),
         p \in Editors => EditorRequest(r)
  PROVE  Works(p)
BY DEF Works, Moves, Address!Done, AddressInv, VisitsHaveTypes

LEMMA WhoAsks ==
  ASSUME Address!RegistrationAssumption, AddressInv
  PROVE  /\ Customers \subseteq Address!Procs /\
              Editors \subseteq Address!Procs
         /\ \A p \in Customers : p \notin Editors /\ CustomerRequest(visit[p])
         /\ \A p \in Editors : p \notin Customers /\ EditorRequest(visit[p])
         /\ NoLink \notin Links
         /\ \A p \in Address!Procs : visit[p] \in Visit
BY DEF Address!RegistrationAssumption, Address!Procs, AddressInv,
  VisitsHaveTypes, VisitsAreInOrder

LEMMA Verifies ==
  ASSUME Address!RegistrationAssumption, AddressInv, NEW p \in Customers,
         NEW k \in Links,
         Address!Verify(p, k)
  PROVE  Works(p)
<1> DEFINE First(todo) == [Address!Fresh EXCEPT
            !.at = IF token[k].kind =
              "billing" THEN "demoting" ELSE "inserting",
            !.kind = token[k].kind, !.token = k, !.todo = todo]
<1>1. PICK todo \in Address!DefaultsGiven(token[k].kind) :
        visit' = [visit EXCEPT ![p] = First(todo)]
  BY DEF Address!Verify
<1>2. token[k].kind \in Address!Kinds
  BY DEF AddressInv, Address!TypeOK, TokensAreMade, Address!Verify
<1>3. /\ todo \in {<<>>, <<"billing">>, <<"billing", "delivery">>}
      /\ token[k].kind = "register" => todo # <<>>
      /\ token[k].kind # "register" => todo = <<>>
  BY <1>2 DEF Address!DefaultsGiven
<1>4. /\ First(todo) \in Visit
      /\ First(todo).at # "done"
  BY <1>2, <1>3, Lists DEF Address!Fresh, Visit, Address!Kinds
<1>5. CustomerRequest(First(todo))
  BY <1>2, <1>3 DEF Address!Fresh, Address!Kinds, CustomerRequest, Gives
<1> HIDE DEF First
<1> QED
  BY <1>1, <1>4, <1>5, WhoAsks, Going DEF Address!Verify, Address!Done

LEMMA SeesDefault ==
  ASSUME Address!RegistrationAssumption, AddressInv, NEW p \in Customers,
         Address!SeeDefault(p)
  PROVE  Works(p)
<1> DEFINE r == [visit[p] EXCEPT !.at = "demote",
      !.seen = {default["billing"]} \ {NoLink}]
<1>1. visit' = [visit EXCEPT ![p] = r]
  BY WhoAsks DEF Address!SeeDefault
<1>2. {default["billing"]} \ {NoLink} \subseteq Address!AllRows
  BY DEF AddressInv, Address!TypeOK, Address!Types
<1>3. /\ r \in Visit
      /\ r.at # "done"
      /\ CustomerRequest(r)
  <2>1. /\ visit[p] \in Visit /\ CustomerRequest(visit[p])
        /\ visit[p].at = "demoting"
    BY WhoAsks DEF Address!SeeDefault
  <2>2. r \in Visit
    BY <1>2, <2>1 DEF Visit
  <2>3. r.at = "demote" /\ r.token = visit[p].token /\ r.kind = visit[p].kind
        /\ r.locked = visit[p].locked /\ r.added = visit[p].added
    BY <2>1 DEF Visit
  <2> QED
    BY <2>1, <2>2, <2>3 DEF CustomerRequest
<1> HIDE DEF r
<1> QED
  BY <1>1, <1>3, WhoAsks, Going DEF Address!SeeDefault, Address!Done

LEMMA Demotes ==
  ASSUME Address!RegistrationAssumption, AddressInv, NEW p \in Customers,
         Address!Demote(p)
  PROVE  Works(p)
<1> DEFINE r == [visit[p] EXCEPT !.at = "inserting",
                   !.locked = visit[p].seen \cap {default["billing"]},
                   !.todo = <<"billing">>]
<1>1. visit' = [visit EXCEPT ![p] = r]
  BY WhoAsks DEF Address!Demote
<1>2. /\ visit[p].seen \cap {default["billing"]} \subseteq Address!AllRows
      /\ \A row \in visit[p].seen \cap {default["billing"]} :
           row.type = "billing"
  <2>1. visit[p].seen \subseteq Address!AllRows /\ "billing" \in Address!Types
    BY WhoAsks DEF Visit, Address!Types
  <2>2. NoLink \notin Address!AllRows
    BY DEF Address!RegistrationAssumption, Address!AllRows
  <2> QED
    BY <2>1, <2>2 DEF AddressInv, Address!DefaultsAreRows
<1>3. /\ r \in Visit
      /\ r.at = "inserting" /\ r.kind = "billing" /\ r.token \in Links
      /\ r.locked = visit[p].seen \cap {default["billing"]}
      /\ r.todo = <<"billing">> /\ r.added = {}
  <2>1. /\ visit[p] \in Visit /\ CustomerRequest(visit[p])
        /\ visit[p].at = "demote"
    BY WhoAsks DEF Address!Demote
  <2>2. r \in Visit
    BY <1>2, <2>1, Lists DEF Visit
  <2> QED
    BY <2>1, <2>2 DEF CustomerRequest, Visit
<1> HIDE DEF r
<1>4. CustomerRequest(r)
  BY <1>2, <1>3 DEF CustomerRequest, Gives, Address!Kinds
<1> QED
  BY <1>1, <1>3, <1>4, WhoAsks, Going DEF Address!Demote, Address!Done

LEMMA Opens ==
  ASSUME Address!RegistrationAssumption, AddressInv, NEW p \in Editors,
         Address!Open(p)
  PROVE  Works(p)
<1> DEFINE page == {[by |-> r.by, type |-> r.type,
      def |-> default[r.type] = r] : r \in rows}
           r == [Address!Fresh EXCEPT !.at = "editing", !.kind = "page",
             !.page = page]
<1>1. visit' = [visit EXCEPT ![p] = r]
  BY DEF Address!Open
<1>2. page \subseteq Address!Addresses(Address!Procs)
  <2>1. \A row \in rows : row.by \in Address!Procs /\
          row.type \in Address!Types
    BY DEF AddressInv, Address!TypeOK, Address!AllRows
  <2>2. \A row \in rows :
          [by |-> row.by, type |-> row.type, def |-> default[row.type] = row]
            \in Address!Addresses(Address!Procs)
    <3> TAKE row \in rows
    <3>1. CASE default[row.type] = row
      <4>1. [by |-> row.by, type |-> row.type, def |-> TRUE] \in
              Address!Addresses(Address!Procs)
        BY <2>1 DEF Address!Addresses
      <4> QED
        BY <3>1, <4>1
    <3>2. CASE default[row.type] # row
      <4>1. [by |-> row.by, type |-> row.type, def |-> FALSE] \in
              Address!Addresses(Address!Procs)
        BY <2>1 DEF Address!Addresses
      <4> QED
        BY <3>2, <4>1
    <3> QED
      BY <3>1, <3>2
  <2> QED
    BY <2>2
<1> HIDE DEF page
<1>3. /\ r \in Visit
      /\ r.at # "done"
      /\ EditorRequest(r)
  BY <1>2, Lists DEF Visit, EditorRequest, Address!Fresh
<1> HIDE DEF r
<1> QED
  BY <1>1, <1>3, WhoAsks, Going DEF Address!Open, Address!Done

LEMMA Saves ==
  ASSUME Address!RegistrationAssumption, AddressInv, NEW p \in Editors,
         Address!Save(p)
  PROVE  Works(p)
<1> DEFINE r(page) == [visit[p] EXCEPT !.at = "delete", !.page = page,
      !.seen = rows]
<1>1. PICK page \in Address!Edits(p) : visit' = [visit EXCEPT ![p] = r(page)]
  BY WhoAsks DEF Address!Save
<1>2. page \subseteq Address!Addresses(Address!Procs)
  <2>1. visit[p].page \subseteq Address!Addresses(Address!Procs)
    BY WhoAsks DEF Visit
  <2>2. \A t \in Address!Types, b \in BOOLEAN :
          [by |-> p, type |-> t, def |-> b] \in
            Address!Addresses(Address!Procs)
    BY WhoAsks DEF Address!Addresses
  <2> QED
    BY <2>1, <2>2 DEF Address!Edits
<1>3. /\ r(page) \in Visit
      /\ r(page).at # "done"
      /\ EditorRequest(r(page))
  <2>1. rows \subseteq Address!AllRows
    BY DEF AddressInv, Address!TypeOK
  <2> QED
    <3>1. /\ visit[p] \in Visit /\ EditorRequest(visit[p])
          /\ visit[p].at = "editing"
      BY WhoAsks DEF Address!Save
    <3>2. r(page) \in Visit
      BY <1>2, <2>1, <3>1 DEF Visit
    <3> QED
      BY <3>1, <3>2 DEF EditorRequest, Visit
<1> HIDE DEF r
<1> QED
  BY <1>1, <1>3, WhoAsks, Going DEF Address!Save, Address!Done

LEMMA Deletes ==
  ASSUME Address!RegistrationAssumption, AddressInv, NEW p \in Editors,
         Address!Delete(p)
  PROVE  Works(p)
<1> DEFINE r == [visit[p] EXCEPT !.at = "inserting",
      !.locked = visit[p].seen \cap rows,
                   !.todo = Address!DefaultsInOrder(p)]
           Default(t) == IF \E a \in visit[p].page :
             a.type = t /\ a.def THEN <<t>> ELSE <<>>
<1>1. visit' = [visit EXCEPT ![p] = r]
  BY WhoAsks DEF Address!Delete
<1>2. /\ Address!DefaultsInOrder(p) \in Seq(Address!Types)
      /\ \A i \in 1..Len(Address!DefaultsInOrder(p)) :
           Shows(visit[p], Address!DefaultsInOrder(p)[i])
  <2> DEFINE Shown == {s \in Seq(Address!Types) : \A i \in 1..Len(s) : Shows(visit[p], s[i])}
  <2>1. \A s, t \in Shown : s \o t \in Shown
    <3> TAKE s, t \in Shown
    <3>1. /\ s \in Seq(Address!Types) /\ t \in Seq(Address!Types)
          /\ Len(s) \in Nat
          /\ Len(t) \in Nat
      OBVIOUS
    <3>2. ASSUME NEW i \in 1..(Len(s) + Len(t))
          PROVE Shows(visit[p], (s \o t)[i])
      <4>1. (s \o t)[i] = IF i <= Len(s) THEN s[i] ELSE t[i - Len(s)]
        BY <3>1, ConcatProperties
      <4>2. i <= Len(s) => i \in 1..Len(s)
        BY <3>1
      <4>3. ~ (i <= Len(s)) => i - Len(s) \in 1..Len(t)
        BY <3>1
      <4> QED
        BY <4>1, <4>2, <4>3
    <3>3. s \o t \in Seq(Address!Types) /\ Len(s \o t) = Len(s) + Len(t)
      BY <3>1, ConcatProperties
    <3> QED
      BY <3>2, <3>3
  <2>2. \A t \in Address!Types : Default(t) \in Shown
    BY DEF Shows
  <2>3. Address!DefaultsInOrder(p) \in
          {Default("delivery") \o Default("billing"),
                                Default("billing") \o Default("delivery")}
    BY DEF Address!DefaultsInOrder
  <2>4. Address!DefaultsInOrder(p) \in Shown
    <3> HIDE DEF Default, Shown
    <3> QED BY <2>1, <2>2, <2>3 DEF Address!Types
  <2> QED
    BY <2>4
<1>3. visit[p].seen \cap rows \subseteq Address!AllRows
  BY DEF AddressInv, Address!TypeOK
<1>4. /\ r \in Visit
      /\ r.at = "inserting" /\ r.token = NoLink /\ r.kind = "page"
      /\ r.added = {}
      /\ r.todo = Address!DefaultsInOrder(p) /\ r.page = visit[p].page
  BY <1>2, <1>3, WhoAsks DEF Visit, EditorRequest, Address!Delete
<1> HIDE DEF r
<1>5. EditorRequest(r)
  BY <1>2, <1>4 DEF EditorRequest, Shows
<1> QED
  BY <1>1, <1>4, <1>5, WhoAsks, Going DEF Address!Delete, Address!Done

LEMMA InsertsDefault ==
  ASSUME Address!RegistrationAssumption, AddressInv, NEW p \in Address!Procs,
         Address!InsertDefault(p)
  PROVE  Works(p)
<1> DEFINE r == [visit[p] EXCEPT !.todo = Tail(visit[p].todo),
                   !.added = visit[p].added \cup {Address!NextType(p)}]
<1>1. visit' = [visit EXCEPT ![p] = r]
  BY WhoAsks DEF Address!InsertDefault
<1>2. /\ visit[p].todo \in Seq(Address!Types) /\ visit[p].todo # <<>>
      /\ visit[p].at = "inserting"
  BY WhoAsks DEF Address!InsertDefault, Address!Inserting, Visit
<1>3. /\ Tail(visit[p].todo) \in Seq(Address!Types)
      /\ Address!NextType(p) \in Address!Types
      /\ Address!NextType(p) = visit[p].todo[1]
      /\ 1 \in 1..Len(visit[p].todo)
      /\ \A i \in 1..Len(Tail(visit[p].todo)) :
           /\ i + 1 \in 1..Len(visit[p].todo)
           /\ Tail(visit[p].todo)[i] = visit[p].todo[i + 1]
  BY <1>2 DEF Address!NextType
<1>4. /\ r \in Visit
      /\ r.at = "inserting" /\ r.kind = visit[p].kind
      /\ r.token = visit[p].token
      /\ r.page = visit[p].page /\ r.locked = visit[p].locked
      /\ r.todo = Tail(visit[p].todo)
      /\ r.added = visit[p].added \cup {Address!NextType(p)}
  <2>1. visit[p] \in Visit
    BY WhoAsks
  <2>2. visit[p].added \cup {Address!NextType(p)} \subseteq Address!Types
    BY <1>3, <2>1 DEF Visit
  <2>3. r \in Visit
    BY <1>3, <2>1, <2>2 DEF Visit
  <2> QED
    BY <1>2, <2>1, <2>3 DEF Visit
<1> HIDE DEF r
<1>5. ASSUME p \in Customers PROVE CustomerRequest(r)
  <2>1. /\ visit[p].token \in Links /\ visit[p].kind \in Address!Kinds
        /\ Gives(visit[p])
    BY <1>2, <1>5, WhoAsks DEF CustomerRequest
  <2>2. \A t, u \in Address!Types : /\ Tail(<<t>>) = <<>> /\ Head(<<t>>) = t
                            /\ Tail(<<t, u>>) = <<u>> /\ Head(<<t, u>>) = t
    OBVIOUS
  <2>3. CASE visit[p].kind = "register"
    <3>1. CASE visit[p].todo = <<"billing">> /\ visit[p].added = {}
      <4>1. r.todo = <<>> /\ "billing" \in r.added
        BY <3>1, <2>2, <1>4 DEF Address!NextType, Address!Types
      <4> QED
        BY <4>1, <1>4, <2>1, <2>3 DEF Gives, CustomerRequest
    <3>2. CASE visit[p].todo = <<"billing", "delivery">> /\ visit[p].added = {}
      <4>1. r.todo = <<"delivery">> /\ "billing" \in r.added
        BY <3>2, <2>2, <1>4 DEF Address!NextType, Address!Types
      <4> QED
        BY <4>1, <1>4, <2>1, <2>3 DEF Gives, CustomerRequest
    <3>3. CASE visit[p].todo = <<"delivery">> /\ "billing" \in visit[p].added
      <4>1. r.todo = <<>> /\ "billing" \in r.added
        BY <3>3, <2>2, <1>4 DEF Address!Types
      <4> QED
        BY <4>1, <1>4, <2>1, <2>3 DEF Gives, CustomerRequest
    <3> QED
      BY <1>2, <2>1, <2>3, <3>1, <3>2, <3>3 DEF Gives
  <2>4. CASE visit[p].kind = "append"
    BY <1>2, <2>1, <2>4 DEF Gives
  <2>5. CASE visit[p].kind = "billing"
    <3>1. visit[p].todo = <<"billing">> /\ visit[p].added = {}
      BY <1>2, <2>1, <2>5 DEF Gives
    <3>2. r.todo = <<>> /\ r.added = {"billing"}
      BY <3>1, <2>2, <1>4 DEF Address!NextType, Address!Types
    <3> QED
      BY <3>2, <1>4, <2>1, <2>5 DEF Gives, CustomerRequest
  <2> QED
    BY <2>1, <2>3, <2>4, <2>5 DEF Address!Kinds
<1>6. ASSUME p \in Editors PROVE EditorRequest(r)
  <2>1. /\ visit[p].token = NoLink /\ visit[p].kind = "page"
        /\ \A t \in Address!Types :
            t \in visit[p].added \/
              (\E i \in 1..Len(visit[p].todo) : visit[p].todo[i] = t)
              => Shows(visit[p], t)
    BY <1>2, <1>6, WhoAsks DEF EditorRequest
  <2> QED
    BY <2>1, <1>3, <1>4 DEF EditorRequest, Shows
<1> QED
  BY <1>1, <1>2, <1>4, <1>5, <1>6, WhoAsks, Going DEF Address!InsertDefault,
    Address!Done

LEMMA RollsBack ==
  ASSUME Address!RegistrationAssumption, AddressInv, NEW p \in Address!Procs,
         Address!Refused(p) \/ Address!Deadlocked(p) \/ Address!Fails(p)
  PROVE  Works(p)
<1> DEFINE r == [Address!Fresh EXCEPT !.at = "failed"]
<1>1. visit' = [visit EXCEPT ![p] = r] /\ UNCHANGED <<rows, default>>
  BY DEF Address!Refused, Address!Deadlocked, Address!Fails, Address!RolledBack
<1>2. ~ Address!Done(p)
  <2>1. CASE Address!Deadlocked(p)
    BY <2>1 DEF Address!Deadlocked, Address!WaitsFor, Address!Inserting,
      Address!Done
  <2> QED
    BY <2>1 DEF Address!Refused, Address!Fails, Address!Inserting, Address!Done
<1>3. r \in Visit /\ r.at # "done"
  BY FreshIsIdle DEF Address!Fresh
<1>4. CustomerRequest(r) /\ EditorRequest(r)
  BY DEF CustomerRequest, EditorRequest, Address!Fresh
<1> HIDE DEF r
<1> QED
  BY <1>1, <1>2, <1>3, <1>4, Going

LEMMA RequestsMove ==
  ASSUME Address!RegistrationAssumption, AddressInv,
         [Address!Next]_Address!vars
  PROVE  \/ UNCHANGED <<rows, default, visit>>
         \/ \E p \in Address!Procs : Works(p)
         \/ \E p \in Address!Procs : Address!Commit(p)
<1>1. /\ \A p \in Customers, k \in Links : Address!Verify(p, k) => Works(p)
      /\ \A p \in Customers : Address!SeeDefault(p) \/ Address!Demote(p) =>
           Works(p)
      /\ \A p \in Editors :
           Address!Open(p) \/ Address!Save(p) \/ Address!Delete(p) => Works(p)
  BY Verifies, SeesDefault, Demotes, Opens, Saves, Deletes
<1>2. \A p \in Address!Procs :
        \/ Address!InsertDefault(p) \/ Address!Refused(p)
        \/ Address!Deadlocked(p) \/ Address!Fails(p)
        => Works(p)
  BY InsertsDefault, RollsBack
<1>3. ASSUME NEW k \in Links, Address!Expire(k) \/
             \E kind \in Address!Kinds : Address!CreateToken(k, kind)
      PROVE  UNCHANGED <<rows, default, visit>>
  BY <1>3 DEF Address!Expire, Address!CreateToken
<1>4. CASE UNCHANGED Address!vars
  BY <1>4 DEF Address!vars
<1> QED
  BY <1>1, <1>2, <1>3, <1>4, WhoAsks DEF Address!Next

(* What a commit leaves                                                    *)
LEMMA CommitsMove ==
  ASSUME Address!RegistrationAssumption, AddressInv, NEW p \in Address!Procs,
         Address!Commit(p)
  PROVE  Moves(p) /\ Address!Done(p)'
<1> DEFINE r == [Address!Fresh EXCEPT !.at = "done", !.token = visit[p].token]
<1>1. visit' = [visit EXCEPT ![p] = r] /\ visit[p].at = "inserting"
  BY DEF Address!Commit
<1>2. /\ r \in Visit
      /\ r.at = "done" /\ r.token = visit[p].token
  <2>1. visit[p].token \in Links \cup {NoLink}
    BY WhoAsks DEF Visit
  <2> QED
    BY <2>1, FreshIsIdle DEF Address!Fresh
<1> HIDE DEF r
<1>3. CustomerRequest(r) /\ (p \in Editors => EditorRequest(r))
  BY <1>2, WhoAsks DEF CustomerRequest, EditorRequest
<1> QED
  BY <1>1, <1>2, <1>3, WhoAsks DEF Moves, Address!Done, AddressInv,
    VisitsHaveTypes

LEMMA AddressesInserted ==
  ASSUME Address!RegistrationAssumption, AddressInv,
         NEW p \in Address!Procs, visit[p].at = "inserting"
  PROVE  /\ Address!Inserted(p) \subseteq Address!AllRows
         /\ \A row \in Address!Inserted(p) : row.in = p
         /\ Address!Removed(p) \subseteq visit[p].locked
         /\ p \in Customers => Address!Removed(p) = {}
         /\ p \in Customers => \E row \in Address!Inserted(p) : row.by = p
         /\ visit[p].todo = <<>> => \A t \in visit[p].added :
              /\ t \in Address!Types
              /\ Address!Giver(p, t) \in Address!Procs
              /\ Address!Row(Address!Giver(p, t), t, p) \in Address!Inserted(p)
              /\ p \in Customers => Address!Giver(p, t) = p
<1>1. CASE p \in Editors
  <2>1. /\ visit[p].kind = "page"
        /\ visit[p].page \subseteq Address!Addresses(Address!Procs)
        /\ visit[p].added \subseteq Address!Types
        /\ \A t \in visit[p].added : \E a \in visit[p].page :
             a.type = t /\ a.def
    BY <1>1, WhoAsks DEF EditorRequest, Visit, Shows
  <2>2. Address!Inserted(p) =
          {Address!Row(a.by, a.type, p) : a \in visit[p].page}
        /\ Address!Removed(p) = visit[p].locked
    BY <2>1 DEF Address!Inserted, Address!Removed
  <2>3. \A a \in visit[p].page :
          a.by \in Address!Procs /\ a.type \in Address!Types
    BY <2>1 DEF Address!Addresses
  <2>4. /\ Address!Inserted(p) \subseteq Address!AllRows
        /\ \A row \in Address!Inserted(p) : row.in = p
    BY <2>2, <2>3 DEF Address!Row, Address!AllRows
  <2>5. ASSUME NEW t \in visit[p].added
        PROVE  /\ Address!Giver(p, t) \in Address!Procs
               /\ Address!Row(Address!Giver(p, t), t, p) \in
                    Address!Inserted(p)
    <3> DEFINE a == CHOOSE a \in visit[p].page : a.type = t /\ a.def
    <3>1. a \in visit[p].page /\ a.type = t
      BY <2>1
    <3>2. Address!Giver(p, t) = a.by
      BY <2>1 DEF Address!Giver
    <3> HIDE DEF a
    <3> QED
      BY <2>2, <2>3, <3>1, <3>2
  <2> QED
    BY <1>1, <2>1, <2>2, <2>4, <2>5, WhoAsks
<1>2. CASE p \in Customers
  <2>1. /\ visit[p].kind \in Address!Kinds
        /\ visit[p].added \subseteq Address!Types
        /\ visit[p].kind = "billing" /\ visit[p].todo = <<>> =>
             visit[p].added = {"billing"}
        /\ visit[p].kind = "append" => visit[p].added = {}
    <3>1. /\ visit[p].kind \in Address!Kinds
          /\ visit[p].added \subseteq Address!Types
          /\ Gives(visit[p])
      BY <1>2, WhoAsks DEF CustomerRequest, Visit
    <3>2. <<>> # <<"billing">>
      OBVIOUS
    <3>3. visit[p].kind = "append" => visit[p].added = {}
      BY <3>1 DEF Gives
    <3>4. visit[p].kind = "billing" /\ visit[p].todo = <<>> =>
            visit[p].added = {"billing"}
      BY <3>1, <3>2 DEF Gives
    <3> QED
      BY <3>1, <3>3, <3>4
  <2>2. /\ Address!Removed(p) = {}
        /\ \A t \in Address!Types : Address!Giver(p, t) = p
    BY <2>1 DEF Address!Removed, Address!Giver, Address!Kinds
  <2>3. CASE visit[p].kind = "register"
    <3>1. Address!Inserted(p) = {Address!Row(p, t, p) : t \in Address!Types}
      BY <2>3 DEF Address!Inserted
    <3>2. /\ "billing" \in Address!Types
          /\ \A t \in Address!Types :
               /\ Address!Row(p, t, p) \in Address!AllRows
               /\ Address!Row(p, t, p).in = p /\ Address!Row(p, t, p).by = p
      BY DEF Address!Row, Address!AllRows, Address!Types
    <3> QED
      BY <1>2, <2>1, <2>2, <3>1, <3>2
  <2>4. CASE visit[p].kind # "register"
    <3>1. Address!Inserted(p) =
            {Address!Row(p,
              IF visit[p].kind = "append" THEN "delivery" ELSE "billing", p)}
      BY <2>1, <2>4 DEF Address!Inserted, Address!Kinds
    <3>2. \A t \in Address!Types :
               /\ Address!Row(p, t, p) \in Address!AllRows
               /\ Address!Row(p, t, p).in = p /\ Address!Row(p, t, p).by = p
      BY DEF Address!Row, Address!AllRows
    <3> QED
      BY <1>2, <2>1, <2>2, <2>4, <3>1, <3>2 DEF Address!Types, Address!Kinds
  <2> QED
    BY <2>3, <2>4
<1> QED
  BY <1>1, <1>2 DEF Address!Procs

-----------------------------------------------------------------------------
(* The invariant holds                                                     *)

LEMMA AddressInit == Address!RegistrationAssumption /\ Address!Init =>
  AddressInv
<1> SUFFICES ASSUME Address!RegistrationAssumption,
                    Address!Init PROVE AddressInv
  OBVIOUS
<1>1. /\ Address!Fresh \in Visit /\ CustomerRequest(Address!Fresh)
      /\ Address!Fresh.at = "idle"
  BY DEF Address!Fresh, Visit, CustomerRequest
<1>2. EditorRequest(Address!Fresh)
  BY DEF Address!Fresh, EditorRequest
<1>3. VisitsHaveTypes /\ VisitsAreInOrder
  BY <1>1, <1>2 DEF Address!Init, VisitsHaveTypes, VisitsAreInOrder,
    Address!Procs
<1>4. Address!TypeOK
  <2>1. visitFaults \in 0..MaxVisitFaults
    BY DEF Address!RegistrationAssumption, Address!Init
  <2>2. \A p \in Address!Procs :
          /\ visit[p].page = {} /\ visit[p].seen = {} /\ visit[p].locked = {}
                         /\ visit[p].added = {}
    BY DEF Address!Init, Address!Fresh
  <2> QED
    BY <2>1, <2>2 DEF Address!TypeOK, Address!Init, Address!NoToken
<1> QED
  BY <1>3, <1>4 DEF AddressInv, TokensAreMade, Address!DefaultsAreRows,
    RowsAreCommitted, Address!Init, Address!NoToken

LEMMA TokensStay ==
  ASSUME Address!RegistrationAssumption, AddressInv,
         [Address!Next]_Address!vars
  PROVE  /\ token' \in [Links -> [kind : Address!Kinds \cup {"none"},
                                   state :
                                     {"none", "valid", "expired", "used"}]]
         /\ TokensAreMade'
         /\ visitFaults' \in 0..MaxVisitFaults
         /\ \A k \in Links :
              token'[k].state = "used" /\ token[k].state # "used"
              => \E p \in Customers : Address!Commits(p) /\ visit[p].token = k
<1> USE DEF AddressInv, Address!TypeOK, TokensAreMade
<1>1. CASE UNCHANGED <<token, visitFaults>>
  BY <1>1
<1>2. ASSUME NEW k \in Links, NEW kind \in Address!Kinds,
             Address!CreateToken(k, kind)
      PROVE  /\ token' \in [Links -> [kind : Address!Kinds \cup {"none"},
                                   state :
                                     {"none", "valid", "expired", "used"}]]
             /\ TokensAreMade'
             /\ \A l \in Links : token'[l].state = "used" =>
                  token[l].state = "used"
             /\ visitFaults' = visitFaults
  BY <1>2 DEF Address!CreateToken, Address!Kinds
<1>3. ASSUME NEW k \in Links, Address!Expire(k)
      PROVE  /\ token' \in [Links -> [kind : Address!Kinds \cup {"none"},
                                   state :
                                     {"none", "valid", "expired", "used"}]]
             /\ TokensAreMade'
             /\ \A l \in Links : token'[l].state = "used" =>
                  token[l].state = "used"
             /\ visitFaults' = visitFaults
  BY <1>3 DEF Address!Expire
<1>4. ASSUME NEW p \in Address!Procs, Address!Commit(p)
      PROVE  /\ token' \in [Links -> [kind : Address!Kinds \cup {"none"},
                                   state :
                                     {"none", "valid", "expired", "used"}]]
             /\ TokensAreMade'
             /\ \A k \in Links :
                  token'[k].state = "used" /\ token[k].state # "used"
                  => p \in Customers /\ Address!Commits(p) /\
                    visit[p].token = k
             /\ visitFaults' = visitFaults
  <2>1. CASE token' = token
    BY <1>4, <2>1 DEF Address!Commit
  <2>2. CASE token' # token
    <3>1. /\ visit[p].token # NoLink
          /\ token' = [token EXCEPT ![visit[p].token].state = "used"]
      BY <1>4, <2>2 DEF Address!Commit
    <3>2. /\ p \in Customers /\ visit[p].token \in Links
          /\ visit[p].at = "inserting"
          /\ visit[p].kind \in Address!Kinds
      BY <1>4, <3>1, WhoAsks DEF Address!Procs, EditorRequest, Visit,
        CustomerRequest, Address!Commit
    <3>3. Address!Commits(p)
      BY <1>4, <3>2, CommitsMove DEF Address!Commits, Address!Done
    <3> QED
      <4>1. token'[visit[p].token] =
              [token[visit[p].token] EXCEPT !.state = "used"]
            /\ \A l \in Links : l # visit[p].token => token'[l] = token[l]
        BY <3>1, <3>2
      <4>2. TokensAreMade'
        BY <4>1, <3>2
      <4>3. \A l \in Links : token'[l] \in [kind : Address!Kinds \cup {"none"},
                                   state :
                                     {"none", "valid", "expired", "used"}]
        BY <4>1
      <4> QED
        BY <1>4, <3>1, <3>2, <3>3, <4>1, <4>2, <4>3 DEF Address!Commit
  <2> QED
    BY <2>1, <2>2
<1>5. ASSUME NEW p \in Address!Procs, Address!Fails(p)
      PROVE  token' = token /\ visitFaults' \in 0..MaxVisitFaults
  BY <1>5 DEF Address!Fails, Address!RolledBack, Address!RegistrationAssumption
<1>6. ASSUME NEW p \in Address!Procs,
             Address!InsertDefault(p) \/ Address!Refused(p) \/
               Address!Deadlocked(p)
      PROVE  UNCHANGED <<token, visitFaults>>
  BY <1>6 DEF Address!InsertDefault, Address!Refused, Address!Deadlocked,
    Address!RolledBack
<1>7. ASSUME NEW p \in Address!Procs,
             \/ Address!SeeDefault(p) \/ Address!Demote(p)
             \/ Address!Open(p) \/ Address!Save(p) \/ Address!Delete(p)
             \/ \E k \in Links : Address!Verify(p, k)
      PROVE  UNCHANGED <<token, visitFaults>>
  BY <1>7 DEF Address!SeeDefault, Address!Demote, Address!Open, Address!Save,
    Address!Delete, Address!Verify
<1>8. CASE UNCHANGED Address!vars
  BY <1>1, <1>8 DEF Address!vars
<1> HIDE DEF AddressInv, Address!TypeOK, TokensAreMade
<1> QED
  BY <1>1, <1>2, <1>3, <1>4, <1>5, <1>6, <1>7, <1>8, WhoAsks DEF Address!Next,
    AddressInv, Address!TypeOK, TokensAreMade

LEMMA RowsStay ==
  ASSUME Address!RegistrationAssumption, AddressInv,
         [Address!Next]_Address!vars
  PROVE  /\ rows' \subseteq Address!AllRows
         /\ default' \in [Address!Types -> Address!AllRows \cup {NoLink}]
         /\ RowsAreCommitted' /\ Address!DefaultsAreRows'
         /\ VisitsHaveTypes' /\ VisitsAreInOrder'
<1>0. /\ rows \subseteq Address!AllRows
      /\ default \in [Address!Types -> Address!AllRows \cup {NoLink}]
      /\ RowsAreCommitted /\ Address!DefaultsAreRows /\ VisitsHaveTypes
      /\ VisitsAreInOrder
  BY DEF AddressInv, Address!TypeOK
<1>1. CASE UNCHANGED <<rows, default, visit>>
  BY <1>0, <1>1 DEF RowsAreCommitted, Address!DefaultsAreRows, Address!Done,
    VisitsHaveTypes, VisitsAreInOrder
<1>2. ASSUME NEW p \in Address!Procs, Moves(p)
      PROVE  /\ VisitsHaveTypes' /\ VisitsAreInOrder'
             /\ \A q \in Address!Procs : Address!Done(q) =>
                  q # p /\ Address!Done(q)'
  BY <1>0, <1>2, WhoAsks DEF Moves, VisitsHaveTypes, VisitsAreInOrder,
    Address!Done
<1>3. \A row \in Address!AllRows : row.in \in Address!Procs
  BY DEF Address!AllRows
<1>4. ASSUME NEW p \in Address!Procs, Works(p)
      PROVE  /\ rows' \subseteq Address!AllRows
             /\ default' \in [Address!Types -> Address!AllRows \cup {NoLink}]
             /\ RowsAreCommitted' /\ Address!DefaultsAreRows'
  BY <1>0, <1>2, <1>3, <1>4 DEF Works, RowsAreCommitted,
    Address!DefaultsAreRows
<1>5. ASSUME NEW p \in Address!Procs, Address!Commit(p)
      PROVE  /\ rows' \subseteq Address!AllRows
             /\ default' \in [Address!Types -> Address!AllRows \cup {NoLink}]
             /\ RowsAreCommitted' /\ Address!DefaultsAreRows'
  <2>1. /\ visit[p].at = "inserting" /\ visit[p].todo = <<>>
        /\ rows' = (rows \ Address!Removed(p)) \cup Address!Inserted(p)
        /\ default' = [t \in Address!Types |->
               IF t \in visit[p].added THEN Address!Row(Address!Giver(p, t), t,
                 p)
               ELSE IF default[t] # NoLink /\
                 default[t] \in visit[p].locked THEN NoLink
               ELSE default[t]]
    BY <1>5 DEF Address!Commit
  <2>2. /\ Address!Inserted(p) \subseteq Address!AllRows
        /\ \A row \in Address!Inserted(p) : row.in = p
        /\ Address!Removed(p) \subseteq visit[p].locked
        /\ \A t \in visit[p].added : t \in Address!Types /\
             Address!Row(Address!Giver(p, t), t, p) \in Address!Inserted(p)
    BY <2>1, AddressesInserted
  <2>3. RowsAreCommitted'
    BY <1>0, <1>2, <1>3, <1>5, <2>1, <2>2, CommitsMove DEF RowsAreCommitted
  <2>4. \A t : Address!Row(Address!Giver(p, t), t, p).type = t
    BY DEF Address!Row
  <2>5. ASSUME NEW t \in Address!Types
        PROVE  /\ default'[t] \in Address!AllRows \cup {NoLink}
               /\ default'[t] = NoLink \/
                    (default'[t] \in rows' /\ default'[t].type = t)
    <3>1. CASE t \in visit[p].added
      BY <2>1, <2>2, <2>4, <3>1
    <3>2. CASE t \notin visit[p].added
      BY <1>0, <2>1, <2>2, <3>2 DEF Address!DefaultsAreRows
    <3> QED
      BY <3>1, <3>2
  <2> QED
    BY <1>0, <2>1, <2>2, <2>3, <2>5 DEF Address!DefaultsAreRows
<1> QED
  BY <1>1, <1>2, <1>4, <1>5, RequestsMove, CommitsMove DEF Works

LEMMA AddressInvStays ==
  ASSUME Address!RegistrationAssumption, AddressInv,
         [Address!Next]_Address!vars PROVE AddressInv'
<1>1. \A p \in Address!Procs :
        /\ visit'[p].page \subseteq Address!Addresses(Address!Procs)
                       /\ visit'[p].seen \cup
                            visit'[p].locked \subseteq Address!AllRows
                       /\ visit'[p].added \subseteq Address!Types
  BY RowsStay DEF VisitsHaveTypes, Visit
<1>2. Address!TypeOK'
  BY <1>1, TokensStay, RowsStay DEF Address!TypeOK, VisitsHaveTypes
<1> QED
  BY <1>2, TokensStay, RowsStay DEF AddressInv

LEMMA StepsHold ==
  ASSUME Address!RegistrationAssumption, AddressInv,
         [Address!Next]_Address!vars
  PROVE  /\ \A t \in Address!Types :
              default[t] # NoLink /\ default'[t] = NoLink
              => \E p \in Editors : Address!Commits(p)
         /\ \A p \in Customers : Address!Commits(p) =>
              /\ rows \subseteq rows'
              /\ \E r \in rows' \ rows : r.by = p
              /\ visit[p].kind # "append" =>
                   default'["billing"] = Address!Row(p, "billing", p)
         /\ \A k \in Links :
              token'[k].state = "used" /\ token[k].state # "used"
              => \E p \in Customers : Address!Commits(p) /\ visit[p].token = k
<1>1. CASE UNCHANGED <<rows, default, visit>>
  BY <1>1, TokensStay DEF Address!Commits, Address!Done
<1>2. ASSUME NEW p \in Address!Procs, Moves(p)
      PROVE  \A q \in Address!Procs : Address!Commits(q) => q = p
  BY <1>2 DEF Moves, Address!Commits, Address!Done, AddressInv, VisitsHaveTypes
<1>3. ASSUME NEW p \in Address!Procs, Works(p)
      PROVE  /\ default' = default
             /\ \A q \in Address!Procs : ~ Address!Commits(q)
  BY <1>2, <1>3 DEF Works, Address!Commits
<1>4. ASSUME NEW p \in Address!Procs, Address!Commit(p)
      PROVE  /\ \A t \in Address!Types :
                  default[t] # NoLink /\ default'[t] = NoLink
                  => p \in Editors /\ Address!Commits(p)
             /\ p \in Customers =>
                  /\ rows \subseteq rows'
                  /\ \E r \in rows' \ rows : r.by = p
                  /\ visit[p].kind # "append" =>
                       default'["billing"] = Address!Row(p, "billing", p)
  <2>1. /\ visit[p].at = "inserting" /\ visit[p].todo = <<>>
        /\ rows' = (rows \ Address!Removed(p)) \cup Address!Inserted(p)
        /\ default' = [t \in Address!Types |->
               IF t \in visit[p].added THEN Address!Row(Address!Giver(p, t), t,
                 p)
               ELSE IF default[t] # NoLink /\
                 default[t] \in visit[p].locked THEN NoLink
               ELSE default[t]]
    BY <1>4 DEF Address!Commit
  <2>2. Address!Commits(p)
    BY <1>4, <2>1, CommitsMove DEF Address!Commits, Address!Done
  <2>3. ASSUME p \in Customers
        PROVE  /\ rows \subseteq rows'
               /\ \E r \in rows' \ rows : r.by = p
               /\ visit[p].kind # "append" =>
                    default'["billing"] = Address!Row(p, "billing", p)
    <3>1. /\ Address!Removed(p) = {}
          /\ \E row \in Address!Inserted(p) : row.by = p
          /\ \A row \in Address!Inserted(p) : row.in = p
          /\ \A t \in visit[p].added : Address!Giver(p, t) = p
      BY <2>1, <2>3, AddressesInserted
    <3>2. \A row \in rows : row.in # p
      BY <2>1 DEF AddressInv, RowsAreCommitted, Address!Done
    <3>3. visit[p].kind # "append" => "billing" \in visit[p].added
      <4>1. Gives(visit[p]) /\ visit[p].kind \in Address!Kinds
        BY <2>1, <2>3, WhoAsks DEF CustomerRequest
      <4> QED
        <5>1. <<>> # <<"billing">> /\ <<>> # <<"billing", "delivery">>
          OBVIOUS
        <5>2. CASE visit[p].kind = "register"
          BY <2>1, <4>1, <5>1, <5>2 DEF Gives
        <5>3. CASE visit[p].kind = "billing"
          BY <2>1, <4>1, <5>1, <5>3 DEF Gives
        <5> QED
          BY <4>1, <5>2, <5>3 DEF Address!Kinds
    <3> QED
      BY <2>1, <3>1, <3>2, <3>3 DEF Address!Types
  <2>4. ASSUME NEW t \in Address!Types, default[t] # NoLink,
               default'[t] = NoLink
        PROVE  p \in Editors
    <3>1. t \notin visit[p].added /\ default[t] \in visit[p].locked
      <4>1. t \in visit[p].added =>
              Address!Row(Address!Giver(p, t), t, p) \in Address!AllRows
        BY <2>1, AddressesInserted
      <4>2. NoLink \notin Address!AllRows
        BY DEF Address!RegistrationAssumption, Address!AllRows
      <4> QED
        BY <2>1, <2>4, <4>1, <4>2
    <3>2. default[t].type = t
      BY <2>4 DEF AddressInv, Address!DefaultsAreRows
    <3>3. p \notin Customers
      <4>1. SUFFICES ASSUME p \in Customers PROVE FALSE
        OBVIOUS
      <4>2. Gives(visit[p]) /\ visit[p].kind \in Address!Kinds
        BY <2>1, <4>1, WhoAsks DEF CustomerRequest
      <4> QED
        <5>1. <<>> # <<"billing">>
          OBVIOUS
        <5>2. visit[p].kind = "billing"
          BY <3>1, <4>2 DEF Gives, Address!Kinds
        <5>3. visit[p].added = {"billing"} /\ default[t].type = "billing"
          BY <2>1, <3>1, <4>2, <5>1, <5>2 DEF Gives
        <5> QED
          BY <3>1, <3>2, <5>3
    <3> QED
      BY <3>3 DEF Address!Procs
  <2> QED
    BY <2>2, <2>3, <2>4
<1>5. \A p \in Address!Procs : Works(p) \/ Address!Commit(p) => Moves(p)
  BY CommitsMove DEF Works
<1>6. ASSUME NEW p \in Address!Procs, Address!Commit(p)
      PROVE  /\ \A t \in Address!Types :
                  default[t] # NoLink /\ default'[t] = NoLink
                  => \E q \in Editors : Address!Commits(q)
             /\ \A q \in Customers : Address!Commits(q) =>
                  /\ rows \subseteq rows'
                  /\ \E r \in rows' \ rows : r.by = q
                  /\ visit[q].kind # "append" =>
                       default'["billing"] = Address!Row(q, "billing", q)
  BY <1>2, <1>4, <1>5, <1>6, WhoAsks
<1>7. ASSUME NEW p \in Address!Procs, Works(p)
      PROVE  /\ \A t \in Address!Types :
                  ~ (default[t] # NoLink /\ default'[t] = NoLink)
             /\ \A q \in Customers : ~ Address!Commits(q)
  BY <1>3, <1>7, WhoAsks
<1> QED
  BY <1>1, <1>6, <1>7, RequestsMove, TokensStay

LEMMA AddressesRun == Documents =>
  Address!Init /\ [][Address!Next]_Address!vars
<1>1. InitOfPart => Address!Init
  BY DEF InitOfPart
<1>2. [NextOfPart]_DocVars => [Address!Next]_Address!vars
  BY DEF NextOfPart, DocVars, Addressing, addressVars, Address!vars
<1> QED
  BY <1>1, <1>2, PTL DEF Documents, DocVars

LEMMA AddressInvAlways == Documents => []AddressInv
<1>1. Address!Init => AddressInv
  BY AddressAssumption, AddressInit
<1>2. AddressInv /\ [Address!Next]_Address!vars => AddressInv'
  BY AddressAssumption, AddressInvStays
<1> QED
  BY <1>1, <1>2, AddressesRun, PTL

(* However links are opened and pages loaded and saved at the same time,   *)
(* and requests break off: a default is an address of the company and of   *)
(* its type; only a page takes a default away without another; and a       *)
(* change that was answered with success stands.                           *)
THEOREM AddressesDoHold == Documents => AddressesHold
<1>1. AddressInv /\ [Address!Next]_Address!vars =>
        [\A t \in Address!Types : default[t] # NoLink /\ default'[t] = NoLink
           => \E p \in Editors : Address!Commits(p)]_Address!vars
  BY AddressAssumption, StepsHold
<1>2. AddressInv /\ [Address!Next]_Address!vars =>
        [/\ \A p \in Customers : Address!Commits(p) =>
              /\ rows \subseteq rows'
              /\ \E r \in rows' \ rows : r.by = p
              /\ visit[p].kind # "append" =>
                   default'["billing"] = Address!Row(p, "billing", p)
         /\ \A k \in Links :
              token'[k].state = "used" /\ token[k].state # "used"
              => \E p \in Customers :
                Address!Commits(p) /\ visit[p].token = k]_Address!vars
  BY AddressAssumption, StepsHold
<1>3. AddressInv => Address!DefaultsAreRows
  BY DEF AddressInv
<1> QED
  BY <1>1, <1>2, <1>3, AddressesRun, AddressInvAlways, PTL
  DEF AddressesHold, Address!DefaultStays, Address!ChangesHold

(* Every variable of the documents keeps its type, in every part.          *)
THEOREM DocumentTypes == Documents => []TypesOK
<1>1. InitOfPart => part \in Parts
  BY DEF InitOfPart
<1>2. part \in Parts /\ [NextOfPart]_DocVars => (part \in Parts)'
  BY DEF NextOfPart, DocVars
<1>3. PayInv => Pay!TypeOK
  BY DEF PayInv
<1>4. AddressInv => Address!TypeOK
  BY DEF AddressInv
<1>5. Stock!Spec => []Stock!TypeOK
  BY StockTypes
<1>6. part \in Parts /\ TypeOK /\ Pay!TypeOK /\ Stock!TypeOK /\
        Address!TypeOK => TypesOK
  BY DEF TypesOK
<1> QED
  BY <1>1, <1>2, <1>3, <1>4, <1>5, <1>6, QuotesRun, TypeCorrect, PayInvAlways,
     AddressInvAlways, StockRuns, PTL DEF Documents, DocVars

=============================================================================
