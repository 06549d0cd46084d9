------------------------ MODULE CustomerRegistration ------------------------
(***************************************************************************)
(* The addresses of one company.  Its customer gives them through links    *)
(* with a token (services/registration_token.py,                           *)
(* routers/registration_tokens.py): to register, to append an address, or  *)
(* to change the one for the bills, which demotes the default address and  *)
(* inserts a new one.  The staff edits them on the company's page, whose   *)
(* save deletes all the addresses and inserts those of the page            *)
(* (routers/companies.py).  A request writes in steps of one transaction,  *)
(* READ COMMITTED: a statement sees the rows committed before it began,    *)
(* waits for rows others have locked, and an insert of a default address   *)
(* waits for, then meets, idx_company_addresses_one_default.  What the     *)
(* addresses say, contacts, names and the merge of companies are left out. *)
(***************************************************************************)
EXTENDS Naturals, FiniteSets, Sequences

CONSTANTS
  Tokens,
  Customers,    \* requests made through a link, each once
  Editors,      \* pages of the staff, each loaded and saved once
  None,
  MaxFaults     \* requests that break off or die

Types == {"billing", "delivery"}
Kinds == {"register", "append", "billing"}
Procs == Customers \cup Editors

RegistrationAssumption ==
  /\ None \notin Tokens \cup Procs \cup [by : Procs, type : Types, in : Procs]
  /\ Customers \cap Editors = {}
  /\ MaxFaults \in Nat

VARIABLES
  token,        \* registration_tokens
  rows,         \* company_addresses, committed
  default,      \* the committed row of each type with is_default
  proc,         \* the requests and pages
  faults

vars == <<token, rows, default, proc, faults>>

NoToken == [kind |-> "none", state |-> "none"]

\* "at" is the statement a request is about to make.  "page": the addresses
\* loaded, then those to insert.  "seen": the rows its statement sees.
\* "locked": committed rows it has demoted or deleted.  "added": the types of
\* which it has inserted the default.
Fresh == [at |-> "idle", kind |-> "none", token |-> None, page |-> {},
          todo |-> <<>>, seen |-> {}, locked |-> {}, added |-> {}]

Init ==
  /\ token = [k \in Tokens |-> NoToken]
  /\ rows = {}
  /\ default = [t \in Types |-> None]
  /\ proc = [p \in Procs |-> Fresh]
  /\ faults = 0

-----------------------------------------------------------------------------
(* An address is who gave it and its type; a row is an address and who     *)
(* inserted that row: a save of the page inserts the addresses anew.       *)
Row(giver, type, inserter) == [by |-> giver, type |-> type, in |-> inserter]

Registered == default["billing"] # None

(* create_token: to register only a company without a default address for  *)
(* the bills, to change it only one that has it.                           *)
CreateToken(k, kind) ==
  /\ token[k] = NoToken
  /\ kind = "register" => ~Registered
  /\ kind = "billing" => Registered
  /\ token' = [token EXCEPT ![k] = [kind |-> kind, state |-> "valid"]]
  /\ UNCHANGED <<rows, default, proc, faults>>

Expire(k) ==
  /\ token[k].state = "valid"
  /\ token' = [token EXCEPT ![k].state = "expired"]
  /\ UNCHANGED <<rows, default, proc, faults>>

-----------------------------------------------------------------------------
(* Who registers gives an address for the bills and one for deliveries,    *)
(* which is a default when it is the same.                                 *)
DefaultsGiven(kind) ==
  IF kind = "register" THEN {<<"billing">>, <<"billing", "delivery">>} ELSE {<<>>}

(* verify_token reads the row of the token without a lock.  The kind of    *)
(* the token is not compared with the request: the page its link opens     *)
(* makes the request.                                                      *)
Verify(p, k) ==
  /\ proc[p].at = "idle" /\ token[k].state = "valid"
  /\ \E todo \in DefaultsGiven(token[k].kind) :
       proc' = [proc EXCEPT ![p] = [Fresh EXCEPT
         !.at = IF token[k].kind = "billing" THEN "demoting" ELSE "inserting",
         !.kind = token[k].kind, !.token = k, !.todo = todo]]
  /\ UNCHANGED <<token, rows, default, faults>>

(* The demotion of change_billing begins: the rows its statement sees.     *)
SeeDefault(p) ==
  /\ proc[p].at = "demoting"
  /\ proc' = [proc EXCEPT ![p].at = "demote", ![p].seen = {default["billing"]} \ {None}]
  /\ UNCHANGED <<token, rows, default, faults>>

Free(p, wanted) == \A q \in Procs \ {p} : proc[q].locked \cap wanted = {}

(* Mutant of Demote: the demotion is committed before the insert.          *)
DemoteAtOnce(p) ==
  /\ proc[p].at = "demote" /\ Free(p, proc[p].seen)
  /\ proc' = [proc EXCEPT ![p].at = "inserting", ![p].todo = <<"billing">>]
  /\ default' = [default EXCEPT !["billing"] = IF @ \in proc[p].seen THEN None ELSE @]
  /\ UNCHANGED <<token, rows, faults>>

(* It waits for the row it sees, and leaves it when it is gone or no       *)
(* longer the default.                                                     *)
Demote(p) ==
  /\ proc[p].at = "demote" /\ Free(p, proc[p].seen)
  /\ proc' = [proc EXCEPT ![p].at = "inserting",
       ![p].locked = proc[p].seen \cap {default["billing"]},
       ![p].todo = <<"billing">>]
  /\ UNCHANGED <<token, rows, default, faults>>

-----------------------------------------------------------------------------
(* The page of the company is loaded.                                      *)
Open(p) ==
  /\ proc[p].at = "idle"
  /\ proc' = [proc EXCEPT ![p] = [Fresh EXCEPT !.at = "editing", !.kind = "page",
       !.page = {[by |-> r.by, type |-> r.type, def |-> default[r.type] = r] : r \in rows}]]
  /\ UNCHANGED <<token, rows, default, faults>>

(* What the page can save: an address edited, removed or added, which is   *)
(* the default when the page shows no other of its type                    *)
(* (CompanyAddressModal, handleAddressDelete).                             *)
Edits(p) ==
  LET page == proc[p].page
      Shown(t) == \E a \in page : a.type = t /\ a.def
  IN {page} \cup {page \ {a} : a \in page}
            \cup {page \cup {[by |-> p, type |-> t, def |-> ~Shown(t)]} : t \in Types}

(* submitAddresses: the request comes and its DELETE begins.               *)
Save(p) ==
  /\ proc[p].at = "editing"
  /\ \E edited \in Edits(p) :
       proc' = [proc EXCEPT ![p].at = "delete", ![p].page = edited, ![p].seen = rows]
  /\ UNCHANGED <<token, rows, default, faults>>

(* The page lists the addresses for the bills first; one it adds is last.  *)
DefaultsInOrder(p) ==
  LET Default(t) == IF \E a \in proc[p].page : a.type = t /\ a.def THEN <<t>> ELSE <<>>
      adds == [by |-> p, type |-> "billing", def |-> TRUE] \in proc[p].page
  IN IF adds THEN Default("delivery") \o Default("billing")
     ELSE Default("billing") \o Default("delivery")

(* _replace_addresses: the DELETE waits for rows that are being demoted or *)
(* deleted and takes what it saw and is still there.                       *)
Delete(p) ==
  /\ proc[p].at = "delete" /\ Free(p, proc[p].seen)
  /\ proc' = [proc EXCEPT ![p].at = "inserting", ![p].locked = proc[p].seen \cap rows,
       ![p].todo = DefaultsInOrder(p)]
  /\ UNCHANGED <<token, rows, default, faults>>

-----------------------------------------------------------------------------
(* Who must end before p can insert the default of a type.                 *)
InTheWay(p, t) ==
  {q \in Procs \ {p} : t \in proc[q].added
                       \/ (default[t] # None /\ default[t] \in proc[q].locked)}

Inserting(p) == proc[p].at = "inserting" /\ proc[p].todo # <<>>
NextType(p) == Head(proc[p].todo)
Conflict(p) == default[NextType(p)] # None /\ default[NextType(p)] \notin proc[p].locked

InsertDefault(p) ==
  /\ Inserting(p) /\ InTheWay(p, NextType(p)) = {} /\ ~Conflict(p)
  /\ proc' = [proc EXCEPT ![p].todo = Tail(@), ![p].added = @ \cup {NextType(p)}]
  /\ UNCHANGED <<token, rows, default, faults>>

RolledBack(p) ==
  /\ proc' = [proc EXCEPT ![p] = [Fresh EXCEPT !.at = "failed"]]
  /\ UNCHANGED <<token, rows, default>>

(* The company has that default already: 409 in register_customer, 500     *)
(* elsewhere, and nothing is written.                                      *)
Refused(p) ==
  /\ Inserting(p) /\ InTheWay(p, NextType(p)) = {} /\ Conflict(p)
  /\ RolledBack(p)
  /\ UNCHANGED faults

(* The database breaks a circle of two requests that wait for each other.  *)
WaitsFor(p) ==
  CASE Inserting(p) -> InTheWay(p, NextType(p))
    [] proc[p].at \in {"demote", "delete"} ->
         {q \in Procs \ {p} : proc[q].locked \cap proc[p].seen # {}}
    [] OTHER -> {}

Deadlocked(p) ==
  /\ \E q \in WaitsFor(p) : p \in WaitsFor(q)
  /\ RolledBack(p)
  /\ UNCHANGED faults

-----------------------------------------------------------------------------
Inserted(p) ==
  IF proc[p].kind = "page" THEN {Row(a.by, a.type, p) : a \in proc[p].page}
  ELSE IF proc[p].kind = "append" THEN {Row(p, "delivery", p)}
  ELSE IF proc[p].kind = "register" THEN {Row(p, t, p) : t \in Types}
  ELSE {Row(p, "billing", p)}

Giver(p, t) ==
  IF proc[p].kind = "page"
  THEN (CHOOSE a \in proc[p].page : a.type = t /\ a.def).by ELSE p

Removed(p) == IF proc[p].kind = "page" THEN proc[p].locked ELSE {}

(* mark_token_used, whatever the token is by now, and the commit.  An      *)
(* address that is appended is not a default.                              *)
Commit(p) ==
  /\ proc[p].at = "inserting" /\ proc[p].todo = <<>>
  /\ rows' = (rows \ Removed(p)) \cup Inserted(p)
  /\ default' = [t \in Types |->
       IF t \in proc[p].added THEN Row(Giver(p, t), t, p)
       ELSE IF default[t] # None /\ default[t] \in proc[p].locked THEN None
       ELSE default[t]]
  /\ token' = IF proc[p].token = None THEN token
              ELSE [token EXCEPT ![proc[p].token].state = "used"]
  /\ proc' = [proc EXCEPT ![p] = [Fresh EXCEPT !.at = "done", !.token = proc[p].token]]
  /\ UNCHANGED faults

(* An error, a lost connection or the death of the process.                *)
Fails(p) ==
  /\ proc[p].at \notin {"idle", "editing", "done", "failed"}
  /\ faults < MaxFaults
  /\ faults' = faults + 1
  /\ RolledBack(p)

Next ==
  \/ \E k \in Tokens : Expire(k) \/ \E kind \in Kinds : CreateToken(k, kind)
  \/ \E p \in Customers : SeeDefault(p) \/ Demote(p) \/ \E k \in Tokens : Verify(p, k)
  \/ \E p \in Editors : Open(p) \/ Save(p) \/ Delete(p)
  \/ \E p \in Procs : \/ InsertDefault(p) \/ Refused(p) \/ Deadlocked(p)
                      \/ Commit(p) \/ Fails(p)

Spec == Init /\ [][Next]_vars

-----------------------------------------------------------------------------
Addresses(who) == [by : who, type : Types, def : BOOLEAN]
AllRows == [by : Procs, type : Types, in : Procs]

TypeOK ==
  /\ token \in [Tokens -> [kind : Kinds \cup {"none"},
                           state : {"none", "valid", "expired", "used"}]]
  /\ rows \subseteq AllRows
  /\ default \in [Types -> AllRows \cup {None}]
  /\ DOMAIN proc = Procs
  /\ \A p \in Procs :
       /\ proc[p].page \subseteq Addresses(Procs)
       /\ proc[p].seen \cup proc[p].locked \subseteq AllRows
       /\ proc[p].added \subseteq Types
  /\ faults \in 0..MaxFaults

Done(p) == proc[p].at = "done"
Commits(p) == ~Done(p) /\ Done(p)'

(* What the index is for: a default is an address of the company and of    *)
(* its type, and no address is lost from the default of its type while     *)
(* customers change it, so a company that once has an address for its      *)
(* bills keeps one until the staff removes it on the page.                 *)
DefaultsAreRows == \A t \in Types : default[t] = None \/ (default[t] \in rows /\ default[t].type = t)

DefaultStays ==
  [][\A t \in Types : default[t] # None /\ default'[t] = None
       => \E p \in Editors : Commits(p)]_vars

(* A change that was answered with success holds: when a request to        *)
(* register or to change commits, its address is the default, and what     *)
(* was there before stays as history; a request that does not commit       *)
(* leaves its token as it was.                                             *)
ChangesHold ==
  [][/\ \A p \in Customers : Commits(p) =>
          /\ rows \subseteq rows'
          /\ \E r \in rows' \ rows : r.by = p
          /\ proc[p].kind # "append" => default'["billing"] = Row(p, "billing", p)
     /\ \A k \in Tokens : token'[k].state = "used" /\ token[k].state # "used"
          => \E p \in Customers : Commits(p) /\ proc[p].token = k]_vars

(* "期限 7 日・単回使用" (registration_tokens.py:80): a token is used once.   *)
(* Two requests read it before either has marked it.                       *)
SingleUse ==
  \A p, q \in Customers : p # q /\ Done(p) /\ Done(q) => proc[p].token # proc[q].token

(* A save of the page edits, removes or adds one address, so it takes at   *)
(* most one from the company.  A page that was loaded before its customer  *)
(* gave others takes those too.                                            *)
Given(set) == {<<r.by, r.type>> : r \in set}

PageTakesOne ==
  [][\A p \in Editors : Commits(p) => Cardinality(Given(rows) \ Given(rows')) <= 1]_vars

=============================================================================
