----------------------------- MODULE Onboarding -----------------------------
(***************************************************************************)
(* Onboarding (routers/onboarding.py): an account is a committed row in    *)
(* Postgres before its company and owners are written to the graph, one    *)
(* statement after another; if one of them fails the row is deleted again. *)
(* The dossier of a customer (routers/customers.py) finds the owners in    *)
(* the graph by the name of the company.                                   *)
(***************************************************************************)
EXTENDS Naturals, FiniteSets

CONSTANTS
  Form,       \* requests, each the id of the account it would create
  Number,     \* account numbers
  Company,    \* registration numbers
  Title,      \* names of companies
  Owner,      \* beneficial owners
  MaxUpsets   \* bound: failures, one of a kind for each request

Nobody == "nobody"

ASSUME OnboardingAssumption == MaxUpsets \in Nat /\ Nobody \notin Title

VARIABLES
  form,      \* form[f]: a request, its step and its answer
  accounts,  \* rows [id, number, name]
  inUse,     \* ids of accounts that a transaction refers to
  title,     \* title[k]: name of the company node, or Nobody
  belongs,   \* BELONGS_TO: pairs <<id, company>>
  owns,      \* OWNS_UBO: pairs <<owner, company>>
  renamed,   \* companies that were registered under two names (history)
  mischief   \* failures so far, pairs <<kind, request>> (history)

boardingVars == <<form, accounts, inUse, title, belongs, owns, renamed, mischief>>
graphVars == <<title, belongs, owns, renamed>>

NoForm == [step |-> "no"]
Request(step, n, t, k, o, left, person) ==
  [step |-> step, number |-> n, name |-> t, company |-> k, owners |-> o, left |-> left,
   person |-> person]
Ended == {"created", "conflict", "failed", "killed"}

BoardInit ==
  /\ form = [f \in Form |-> NoForm] /\ accounts = {} /\ inUse = {}
  /\ title = [k \in Company |-> Nobody] /\ belongs = {} /\ owns = {}
  /\ renamed = {} /\ mischief = {}

Upset(what, f) ==
  /\ Cardinality(mischief \cup {<<what, f>>}) <= MaxUpsets
  /\ mischief' = mischief \cup {<<what, f>>}
Now(r, step, left) ==
  Request(step, r.number, r.name, r.company, r.owners, left, r.person)
Moves(f, step) == form' = [form EXCEPT ![f] = Now(@, step, @.left)]
InStep(f, step) == form[f].step = step

-----------------------------------------------------------------------------
(* Screening fails closed: an account whose owners were found on a list,   *)
(* or could not be looked up, is stored all the same, with a high score.   *)
(* A person has no company and no owners.                                  *)
Screen(f) ==
  /\ form[f] = NoForm
  /\ \E n \in Number, t \in Title, k \in Company, o \in SUBSET Owner,
        person \in BOOLEAN :
       /\ person => o = {}
       /\ form' = [form EXCEPT ![f] = Request("insert", n, t, k, o, o, person)]
  /\ UNCHANGED <<accounts, inUse, graphVars, mischief>>

(* accounts.account_number is unique.                                      *)
Taken(f) == \E a \in accounts : a.number = form[f].number
Stored(f) == accounts \cup {[id |-> f, number |-> form[f].number, name |-> form[f].name]}

InsertAccount(f) ==
  /\ InStep(f, "insert")
  /\ IF Taken(f) THEN Moves(f, "conflict") /\ UNCHANGED accounts
     ELSE /\ accounts' = Stored(f)
          /\ Moves(f, IF form[f].person THEN "created" ELSE "company")
  /\ UNCHANGED <<inUse, graphVars, mischief>>

(* Any other error is answered 500 and nothing is undone: that of a COMMIT *)
(* whose acknowledgement is lost leaves the account, live.                 *)
InsertFails(f) ==
  /\ InStep(f, "insert") /\ Moves(f, "failed")
  /\ \/ UNCHANGED <<accounts, mischief>>
     \/ ~Taken(f) /\ Upset("commit", f) /\ accounts' = Stored(f)
  /\ UNCHANGED <<inUse, graphVars>>

(* MERGE (c:Company): the last name given stands.                          *)
MergeCompany(f) ==
  LET r == form[f] IN
  /\ InStep(f, "company") /\ Moves(f, "account")
  /\ title' = [title EXCEPT ![r.company] = r.name]
  /\ renamed' = IF title[r.company] \in {Nobody, r.name} THEN renamed
                ELSE renamed \cup {r.company}
  /\ UNCHANGED <<accounts, inUse, belongs, owns, mischief>>

(* MATCH (c:Company): nothing is linked to a company that is not there.    *)
Found(k) == title[k] # Nobody

MergeAccount(f) ==
  LET r == form[f] IN
  /\ InStep(f, "account") /\ Moves(f, "owners")
  /\ belongs' = IF Found(r.company) THEN belongs \cup {<<f, r.company>>} ELSE belongs
  /\ UNCHANGED <<accounts, inUse, title, owns, renamed, mischief>>

MergeOwner(f) ==
  LET r == form[f] IN
  /\ InStep(f, "owners")
  /\ \E o \in r.left :
       /\ form' = [form EXCEPT ![f] = Now(@, "owners", @.left \ {o})]
       /\ owns' = IF Found(r.company) THEN owns \cup {<<o, r.company>>} ELSE owns
  /\ UNCHANGED <<accounts, inUse, title, belongs, renamed, mischief>>

Answer(f) ==
  /\ InStep(f, "owners") /\ form[f].left = {} /\ Moves(f, "created")
  /\ UNCHANGED <<accounts, inUse, graphVars, mischief>>

(* Any statement may fail; what the earlier ones wrote stays in the graph. *)
GraphFails(f) ==
  /\ form[f].step \in {"company", "account", "owners"}
  /\ Upset("graph", f) /\ Moves(f, "undo")
  /\ UNCHANGED <<accounts, inUse, graphVars>>

(* Variant of Unlinked: the company goes too.                              *)
UnlinkedCompany(f) == {e \in owns : e[2] # form[f].company}

(* What a failed request wrote to the graph is left there.                 *)
Unlinked(f) == owns

(* DELETE FROM accounts; refused while a transaction refers to the row.    *)
Compensate(f) ==
  /\ InStep(f, "undo") /\ Moves(f, "failed")
  /\ \/ /\ f \notin inUse /\ UNCHANGED mischief
        /\ accounts' = {a \in accounts : a.id # f}
     \/ f \in inUse /\ UNCHANGED <<accounts, mischief>>
     \/ Upset("compensation", f) /\ UNCHANGED accounts
  /\ owns' = Unlinked(f)
  /\ UNCHANGED <<inUse, title, belongs, renamed>>

(* The account is live from its commit on: money may move meanwhile.       *)
UseAccount(a) ==
  /\ a.id \notin inUse /\ inUse' = inUse \cup {a.id}
  /\ UNCHANGED <<form, accounts, graphVars, mischief>>

(* The request is cancelled or its process dies.                           *)
Kill(f) ==
  /\ form[f].step \notin Ended \cup {"no"} /\ Upset("kill", f) /\ Moves(f, "killed")
  /\ UNCHANGED <<accounts, inUse, graphVars>>

BoardNext ==
  \/ \E f \in Form :
       \/ Screen(f) \/ InsertAccount(f) \/ InsertFails(f) \/ MergeCompany(f) \/ MergeAccount(f)
       \/ MergeOwner(f) \/ Answer(f) \/ GraphFails(f) \/ Compensate(f) \/ Kill(f)
  \/ \E a \in accounts : UseAccount(a)

BoardSpec == BoardInit /\ [][BoardNext]_boardingVars

-----------------------------------------------------------------------------
(* _fetch_customer_ubo: the owners of the companies of that name.          *)
Dossier(name) == {e[1] : e \in {e \in owns : title[e[2]] = name}}

BoardTypeOK ==
  /\ inUse \subseteq Form /\ title \in [Company -> Title \cup {Nobody}]
  /\ belongs \subseteq Form \X Company /\ owns \subseteq Owner \X Company
  /\ \A a, b \in accounts : a.number = b.number => a = b

Excused(f) == <<"compensation", f>> \in mischief \/ <<"commit", f>> \in mischief

(* Whoever was told that a company's account was created finds the account *)
(* linked to the company in the graph, and every owner given (while there  *)
(* are ten at most, its LIMIT) in the customer's dossier until the company *)
(* is registered under another name, whatever became of other requests for *)
(* the company; and one told that it failed has no account, unless it was  *)
(* used before the answer, its compensation failed as well, or its COMMIT  *)
(* was not acknowledged (onboarding.py:107-111, 140-253,                   *)
(* customers.py:185-209).                                                  *)
WholeOrGone ==
  \A f \in Form :
    /\ form[f].step = "created" =>
         /\ \E a \in accounts : a.id = f /\ a.number = form[f].number
         /\ ~form[f].person =>
              /\ <<f, form[f].company>> \in belongs
              /\ form[f].company \notin renamed => form[f].owners \subseteq Dossier(form[f].name)
    /\ form[f].step = "failed" =>
         \/ \A a \in accounts : a.id # f
         \/ f \in inUse \/ Excused(f)
=============================================================================
