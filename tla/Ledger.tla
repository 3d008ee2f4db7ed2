--------------------------------- MODULE Ledger ---------------------------------
(***************************************************************************)
(* The escrow ledger (tasks/idempotent-ledger-escrow-api/solution):        *)
(* accounts, idempotent transfers, holds that are captured, voided or      *)
(* expire, and the double-entry rows.                                      *)
(*                                                                         *)
(* The async handlers await nothing once they touch the database, so one   *)
(* of them runs at a time, on the event loop (`req`).  void_hold and       *)
(* get_account are plain functions, which FastAPI runs in threads beside   *)
(* it.  Every connection is in autocommit (isolation_level=None), so an    *)
(* action is one statement that writes, or the reads between two of them:  *)
(* threads run between the statements of a handler, and a crash, or a      *)
(* statement that fails because the file stayed locked, cuts it there.     *)
(***************************************************************************)
EXTENDS Integers, FiniteSets, Functions

CONSTANTS
  Account,     \* account ids
  Hold,        \* ids of the holds that get created
  Key,         \* Idempotency-Key values, each with its tenant
  Thread,      \* threads serving void_hold and get_account
  Amount,      \* amounts that requests name: positive, by the models
  Opening,     \* initial_balance values: not validated
  NoKey,       \* a transfer without the header
  MaxTime, MaxRequests   \* bounds: the clock, and requests on the event loop

ASSUME LedgerAssumption ==
  /\ Account \intersect Hold = {}
  /\ Account \intersect (Key \union {NoKey}) = {}
  /\ Hold \intersect (Key \union {NoKey}) = {}
  /\ NoKey \notin Key
  /\ "none" \notin Account
  /\ Amount \subseteq Nat \ {0}
  /\ Opening \subseteq Int
  /\ MaxTime \in Nat /\ MaxRequests \in Nat

\* The database names accounts and holds in strings of bounded length.
ASSUME IdsAreFinite == IsFiniteSet(Account) /\ IsFiniteSet(Hold)

VARIABLES
  \* Tables.
  accounts,   \* ids with a row in accounts
  balance,    \* accounts.balance
  posted,     \* posted[a]: sum of a's rows in ledger_entries
  holds,      \* holds[h]: [account, amount, expires, status], or NoHold
  keys,       \* keys[k]: the body idempotency_keys has for k, or NoBody
  \* Handlers.
  req,        \* the request on the event loop
  thread,     \* thread[d]: [pc, hold]
  \* The environment and what we remember of the past.
  now,
  requests,
  opening,    \* opening[a]: the initial_balance a was created with
  stray,      \* stray[a]: what was credited to a before a existed
  debits,     \* debits[x]: debits made for the transfer key or the hold x
  answers,    \* answers[h]: what clients were told became of h
  cut         \* accounts, holds and keys of requests cut after their first write

tables == <<accounts, balance, posted, holds, keys>>
memory == <<opening, stray, debits, answers, cut>>
vars   == <<tables, req, thread, now, requests, memory>>

NoHold == [status |-> "none"]
NoBody == [from |-> "none"]
Body   == [from : Account, to : Account, amount : Amount]
Idle   == [pc |-> "idle"]

Statuses == {"active", "captured", "voided", "expired"}

Init ==
  /\ accounts = {}
  /\ balance = [a \in Account |-> 0]
  /\ posted = [a \in Account |-> 0]
  /\ holds = [h \in Hold |-> NoHold]
  /\ keys = [k \in Key |-> NoBody]
  /\ req = Idle
  /\ thread = [d \in Thread |-> Idle]
  /\ now = 0
  /\ requests = 0
  /\ opening = [a \in Account |-> 0]
  /\ stray = [a \in Account |-> 0]
  /\ debits = [x \in Key \union Hold |-> 0]
  /\ answers = [h \in Hold |-> {}]
  /\ cut = {}

--------------------------------------------------------------------------------
(* Holds. *)

Active(h) == holds[h].status = "active"

\* expire_stale_holds.
ExpireStaleHolds ==
  holds' = [h \in Hold |->
              IF Active(h) /\ holds[h].expires <= now
              THEN [holds[h] EXCEPT !.status = "expired"] ELSE holds[h]]

SetStatus(h, status) == holds' = [holds EXCEPT ![h].status = status]

HoldsOf(a) == {h \in Hold : Active(h) /\ holds[h].account = a /\ holds[h].expires > now}

AmountOf(rows, some) == SumFunction([h \in some |-> rows[h].amount])

\* The sum in get_account_balances.
Reserved(a) == AmountOf(holds, HoldsOf(a))

\* Mutated form of Available: holds reserve nothing.
AvailableUnreserved(a) == balance[a]

Available(a) == balance[a] - Reserved(a)

--------------------------------------------------------------------------------
(* The event loop.  A request starts with expire_stale_holds, the first      *)
(* statement of its handler that writes, except create_account.              *)

Start(r) ==
  /\ req = Idle
  /\ requests < MaxRequests
  /\ requests' = requests + 1
  /\ req' = r
  /\ UNCHANGED <<accounts, balance, posted, keys, thread, now, memory>>

At(op, pc) == req.pc = pc /\ req.op = op

Goto(pc) == req' = [req EXCEPT !.pc = pc]

\* create_account; a second one with the same id breaks the primary key.
CreateAccount(a, amount) ==
  /\ req = Idle
  /\ requests < MaxRequests
  /\ requests' = requests + 1
  /\ a \notin accounts
  /\ accounts' = accounts \union {a}
  /\ balance' = [balance EXCEPT ![a] = amount]
  /\ opening' = [opening EXCEPT ![a] = amount]
  /\ req' = IF amount > 0
            THEN [op |-> "create", pc |-> "credited", from |-> a, to |-> a,
                  amount |-> amount, tag |-> a]
            ELSE Idle
  /\ UNCHANGED <<posted, holds, keys, thread, now, stray, debits, answers, cut>>

\* transfer: the look at idempotency_keys answers a known key, with 422 when
\* the body is another; a new key goes on to expire_stale_holds.
StartTransfer(key, body) ==
  /\ key # NoKey => keys[key] = NoBody
  /\ ExpireStaleHolds
  /\ Start([op |-> "transfer", pc |-> "check", from |-> body.from, to |-> body.to,
            amount |-> body.amount, tag |-> key])

CheckTransfer ==
  /\ At("transfer", "check")
  /\ IF /\ {req.from, req.to} \subseteq accounts
        /\ Available(req.from) >= req.amount
     THEN Goto("debit") ELSE req' = Idle
  /\ UNCHANGED <<tables, thread, now, requests, memory>>

\* create_hold.
StartHold(h, a, amount, expires) ==
  /\ holds[h] = NoHold
  /\ ExpireStaleHolds
  /\ Start([op |-> "hold", pc |-> "check", from |-> a, amount |-> amount,
            tag |-> h, expires |-> expires])

CheckHold ==
  /\ At("hold", "check")
  /\ IF req.from \in accounts /\ req.amount <= Available(req.from)
     THEN Goto("insert") ELSE req' = Idle
  /\ UNCHANGED <<tables, thread, now, requests, memory>>

InsertHold ==
  /\ At("hold", "insert")
  /\ holds' = [holds EXCEPT ![req.tag] =
                 [account |-> req.from, amount |-> req.amount,
                  expires |-> req.expires, status |-> "active"]]
  /\ req' = Idle
  /\ UNCHANGED <<accounts, balance, posted, keys, thread, now, requests, memory>>

\* capture_hold.  amount 0 stands for a payload without capture_amount.
StartCapture(h, to, amount) ==
  /\ ExpireStaleHolds
  /\ Start([op |-> "capture", pc |-> "check", to |-> to, amount |-> amount, tag |-> h])

\* Mutated form of CheckCapture: any hold that exists.
CheckCaptureAnyStatus ==
  /\ At("capture", "check")
  /\ LET h == holds[req.tag]
     IN  req' = IF h # NoHold /\ (h # NoHold => req.amount <= h.amount)
                THEN [op |-> "capture", pc |-> "debit", from |-> h.account,
                      to |-> req.to, tag |-> req.tag,
                      amount |-> IF req.amount = 0 THEN h.amount ELSE req.amount]
                ELSE Idle
  /\ UNCHANGED <<tables, thread, now, requests, memory>>

\* The destination is not looked up.
CheckCapture ==
  /\ At("capture", "check")
  /\ LET h == holds[req.tag]
     IN  req' = IF Active(req.tag) /\ (Active(req.tag) => req.amount <= h.amount)
                THEN [op |-> "capture", pc |-> "debit", from |-> h.account,
                      to |-> req.to, tag |-> req.tag,
                      amount |-> IF req.amount = 0 THEN h.amount ELSE req.amount]
                ELSE Idle
  /\ UNCHANGED <<tables, thread, now, requests, memory>>

(* The statements transfer and capture_hold share. *)

Add(f, a, amount) == [f EXCEPT ![a] = @ + amount]

Debit ==
  /\ req.pc = "debit"
  /\ balance' = Add(balance, req.from, -req.amount)
  /\ debits' = IF req.tag = NoKey THEN debits ELSE Add(debits, req.tag, 1)
  /\ Goto("credit")
  /\ UNCHANGED <<accounts, posted, holds, keys, thread, now, requests, opening,
                 stray, answers, cut>>

\* An UPDATE that matches no account changes nothing and raises nothing.
Credit ==
  /\ req.pc = "credit"
  /\ IF req.to \in accounts
     THEN balance' = Add(balance, req.to, req.amount) /\ UNCHANGED stray
     ELSE stray' = Add(stray, req.to, req.amount) /\ UNCHANGED balance
  /\ Goto(IF req.op = "capture" THEN "settle" ELSE "debitRow")
  /\ UNCHANGED <<accounts, posted, holds, keys, thread, now, requests, opening,
                 debits, answers, cut>>

\* capture_hold only.
Settle ==
  /\ At("capture", "settle")
  /\ SetStatus(req.tag, "captured")
  /\ Goto("debitRow")
  /\ UNCHANGED <<accounts, balance, posted, keys, thread, now, requests, memory>>

\* One row of ledger_entries.
PostRow(pc, a, amount) ==
  /\ req.pc = pc
  /\ posted' = Add(posted, a, amount)
  /\ UNCHANGED <<accounts, balance, holds, keys, thread, now, requests, opening,
                 stray, debits, cut>>

\* The opening deposit writes the credit first.
PostOpening ==
  /\ \/ PostRow("credited", req.to, req.amount) /\ Goto("created")
     \/ PostRow("created", req.to, -req.amount) /\ req' = Idle
  /\ UNCHANGED answers

\* Mutated form of PostDebit: the row is written for the destination.
PostDebitToDestination ==
  PostRow("debitRow", req.to, -req.amount) /\ Goto("creditRow") /\ UNCHANGED answers

PostDebit ==
  PostRow("debitRow", req.from, -req.amount) /\ Goto("creditRow") /\ UNCHANGED answers

\* After it capture_hold answers, and so does a transfer without a key.
AfterCredit ==
  IF req.op = "capture"
  THEN req' = Idle /\ answers' = [answers EXCEPT ![req.tag] = @ \union {"captured"}]
  ELSE /\ IF req.tag = NoKey THEN req' = Idle ELSE Goto("remember")
       /\ UNCHANGED answers

\* Mutated form of PostCredit: the credit row has the sign of the debit row.
PostCreditWrongSign == PostRow("creditRow", req.to, -req.amount) /\ AfterCredit

PostCredit == PostRow("creditRow", req.to, req.amount) /\ AfterCredit

\* Mutated form of Remember: the key is not stored.
RememberNothing ==
  /\ At("transfer", "remember")
  /\ req' = Idle
  /\ UNCHANGED <<tables, thread, now, requests, memory>>

\* transfer's last statement, then the answer.
Remember ==
  /\ At("transfer", "remember")
  /\ keys' = [keys EXCEPT ![req.tag] =
                [from |-> req.from, to |-> req.to, amount |-> req.amount]]
  /\ req' = Idle
  /\ UNCHANGED <<accounts, balance, posted, holds, thread, now, requests, memory>>

--------------------------------------------------------------------------------
(* The threads.  get_account only expires holds: its reads change nothing. *)

StartVoid(d, h) ==
  /\ thread[d] = Idle
  /\ ExpireStaleHolds
  /\ thread' = [thread EXCEPT ![d] = [pc |-> "check", hold |-> h]]
  /\ UNCHANGED <<accounts, balance, posted, keys, req, now, requests, memory>>

CheckVoid(d) ==
  /\ thread[d].pc = "check"
  /\ thread' = [thread EXCEPT ![d] =
                  IF Active(@.hold) THEN [@ EXCEPT !.pc = "update"] ELSE Idle]
  /\ UNCHANGED <<tables, req, now, requests, memory>>

UpdateVoid(d) ==
  /\ thread[d].pc = "update"
  /\ SetStatus(thread[d].hold, "voided")
  /\ answers' = [answers EXCEPT ![thread[d].hold] = @ \union {"voided"}]
  /\ thread' = [thread EXCEPT ![d] = Idle]
  /\ UNCHANGED <<accounts, balance, posted, keys, req, now, requests, opening,
                 stray, debits, cut>>

GetAccount ==
  /\ ExpireStaleHolds
  /\ UNCHANGED <<accounts, balance, posted, keys, req, thread, now, requests, memory>>

--------------------------------------------------------------------------------
(* The environment. *)

Tick ==
  /\ now < MaxTime
  /\ now' = now + 1
  /\ UNCHANGED <<tables, req, thread, requests, memory>>

\* The request on the event loop goes no further; its statements so far stay.
Cut ==
  /\ req # Idle
  /\ cut' = IF req.pc \in {"check", "insert", "debit"} THEN cut
            ELSE cut \union {req.from, req.to, req.tag}
  /\ req' = Idle
  /\ UNCHANGED <<tables, thread, now, requests, opening, stray, debits, answers>>

CutThread(d) ==
  /\ thread[d] # Idle
  /\ thread' = [thread EXCEPT ![d] = Idle]
  /\ UNCHANGED <<tables, req, now, requests, memory>>

--------------------------------------------------------------------------------
EventLoop ==
  \/ \E a \in Account, amount \in Opening : CreateAccount(a, amount)
  \/ \E key \in Key \union {NoKey}, body \in Body : StartTransfer(key, body)
  \/ \E h \in Hold, a \in Account, amount \in Amount, expires \in 0..MaxTime + 1 :
       StartHold(h, a, amount, expires)
  \/ \E h \in Hold, to \in Account, amount \in Amount \union {0} :
       StartCapture(h, to, amount)
  \/ CheckTransfer
  \/ CheckHold
  \/ InsertHold
  \/ CheckCapture
  \/ Debit
  \/ Credit
  \/ Settle
  \/ PostDebit
  \/ PostCredit
  \/ PostOpening
  \/ Remember

Threads ==
  \/ \E d \in Thread : (\E h \in Hold : StartVoid(d, h)) \/ CheckVoid(d) \/ UpdateVoid(d)
  \/ GetAccount

Next ==
  \/ EventLoop
  \/ Threads
  \/ Tick
  \/ Cut
  \/ \E d \in Thread : CutThread(d)

Spec == Init /\ [][Next]_vars

--------------------------------------------------------------------------------
(* Properties. *)

\* The request on the event loop, by handler; amount is an initial_balance in a
\* create, and 0 in a capture whose payload has none, until the hold is read.
CreateReq   == [op : {"create"}, pc : {"credited", "created"}, from : Account,
                to : Account, amount : Int, tag : Account]
TransferReq == [op : {"transfer"}, pc : {"check", "debit", "credit", "debitRow",
                "creditRow", "remember"}, from : Account, to : Account,
                amount : Amount, tag : Key \union {NoKey}]
HoldReq     == [op : {"hold"}, pc : {"check", "insert"}, from : Account,
                amount : Amount, tag : Hold, expires : 0..MaxTime + 1]
AskedReq    == [op : {"capture"}, pc : {"check"}, to : Account,
                amount : Amount \union {0}, tag : Hold]
CaptureReq  == [op : {"capture"}, pc : {"debit", "credit", "settle", "debitRow",
                "creditRow"}, from : Account, to : Account, amount : Amount,
                tag : Hold]

HoldRow == [account : Account, amount : Amount, expires : 0..MaxTime + 1,
            status : Statuses]

TypeOK ==
  /\ req \in {Idle} \union CreateReq \union TransferReq \union HoldReq
             \union AskedReq \union CaptureReq
  /\ accounts \subseteq Account
  /\ balance \in [Account -> Int]
  /\ posted \in [Account -> Int]
  /\ holds \in [Hold -> {NoHold} \union HoldRow]
  /\ \A h \in Hold : holds[h] # NoHold => holds[h].account \in accounts
  /\ keys \in [Key -> {NoBody} \union Body]
  /\ thread \in [Thread -> {Idle} \union [pc : {"check", "update"}, hold : Hold]]
  /\ now \in 0..MaxTime
  /\ requests \in 0..MaxRequests
  /\ opening \in [Account -> Int]
  /\ stray \in [Account -> Int]
  /\ debits \in [Key \union Hold -> Nat]
  /\ answers \in [Hold -> SUBSET {"captured", "voided"}]
  /\ cut \subseteq Account \union Hold \union Key \union {NoKey}

Moving == req.pc \in {"credit", "settle", "debitRow", "creditRow", "credited", "created"}

\* What the holds on a tie up.  One whose debit is made and whose status is
\* not yet updated is tied up no longer.
Tied(a) == {h \in HoldsOf(a) : ~(req.pc \in {"credit", "settle"} /\ req.tag = h)}

TiedUp(a) == AmountOf(holds, Tied(a))

\* No account is overdrawn, and active holds stay covered, whatever voids,
\* expiry and lost requests do between the check of a balance and its debit
\* (transfer, create_hold, capture_hold).  It is not promised to an account
\* whose capture was cut: the hold stays active after the debit.
HoldsAreCovered ==
  \A a \in accounts \ cut : opening[a] >= 0 => balance[a] >= TiedUp(a)

\* An account's balance is what it opened with and what its ledger rows add,
\* once a request is over; credits to an account that does not exist have rows
\* and no balance (transfer, capture_hold, create_account).
LedgerExplainsBalance ==
  ~Moving => \A a \in accounts \ cut : balance[a] = opening[a] + posted[a] - stray[a]

\* Money only moves: the total of the balances never exceeds what was paid in,
\* a cut request leaves less and never more (debit before credit), and with no
\* request cut or under way the ledger sums to zero (hidden_verifier.py:114).
MoneyIsNotCreated ==
  /\ SumFunctionOnSet(balance, accounts) <= SumFunctionOnSet(opening, accounts)
  /\ ~Moving /\ cut = {} => SumFunctionOnSet(posted, Account) = 0

\* A transfer key moves money at most once, and a remembered one did, if no
\* request that carried it was cut (transfer, lines 136-167).
KeyMovesMoneyOnce ==
  \A k \in Key \ cut :
    /\ debits[k] <= 1
    /\ keys[k] # NoBody => debits[k] = 1
    /\ ~(req # Idle /\ req.tag = k) /\ debits[k] = 1 => keys[k] # NoBody

\* A hold is debited at most once, whoever voids or expires it meanwhile, if
\* its capture was not cut (capture_hold).
HoldIsDebitedOnce == \A h \in Hold \ cut : debits[h] <= 1

\* The inductive invariants behind the properties.  An account, a hold
\* and a key are each described by where the request that works on it stands.
Existence ==
  /\ req.pc = "insert" => req.from \in accounts
  /\ req \in HoldReq => holds[req.tag] = NoHold
  /\ req \in CaptureReq => holds[req.tag] # NoHold
  /\ req.pc \in {"debit", "credit", "settle", "debitRow"} => req.from \in accounts
  /\ req \in CreateReq => req.from = req.to
  /\ \A d \in Thread : thread[d].pc = "update" => holds[thread[d].hold] # NoHold
  /\ \A a \in Account \ accounts : balance[a] = 0 /\ opening[a] = 0

KeyOK(k) ==
  IF req \in TransferReq /\ req.tag = k
  THEN /\ keys[k] = NoBody
       /\ debits[k] = IF req.pc \in {"check", "debit"} THEN 0 ELSE 1
  ELSE debits[k] = IF keys[k] = NoBody THEN 0 ELSE 1

KeyInv == \A k \in Key \ cut : KeyOK(k)

HoldOK(h) ==
  IF req \in CaptureReq /\ req.tag = h
  THEN /\ debits[h] = IF req.pc = "debit" THEN 0 ELSE 1
       /\ req.pc \in {"debitRow", "creditRow"} => ~Active(h)
  ELSE /\ debits[h] \in {0, 1}
       /\ Active(h) \/ holds[h] = NoHold => debits[h] = 0

HoldInv == \A h \in Hold \ cut : HoldOK(h)

\* What the balance of a owes to its rows while a request moves money.
Drift(a) ==
  LET out == IF req.from = a THEN req.amount ELSE 0
      in  == IF req.to = a THEN req.amount ELSE 0
  IN  CASE req.pc = "credit"                   -> -out
        [] req.pc \in {"settle", "debitRow"}   -> in - out
        [] req.pc = "creditRow"                -> in
        [] req.pc = "created"                  -> -in
        [] OTHER                               -> 0

BalanceOK(a) == balance[a] = opening[a] + posted[a] - stray[a] + Drift(a)

BalanceInv == \A a \in Account \ cut : BalanceOK(a)

\* What a request was told it may take from a is there beside the holds on a
\* other than the one it takes.
Affords(a, amount, tag) ==
  a \notin cut /\ opening[a] >= 0 =>
    balance[a] >= amount + AmountOf(holds, HoldsOf(a) \ {tag})

ClaimInv ==
  /\ req \in CaptureReq => req.from = holds[req.tag].account
  /\ req.pc \in {"debit", "insert"} => Affords(req.from, req.amount, req.tag)
  /\ At("capture", "check") /\ Active(req.tag) =>
       Affords(holds[req.tag].account, holds[req.tag].amount, req.tag)

\* What was debited and not yet credited, and what the rows do not yet balance.
InTransit == IF req.pc = "credit" THEN req.amount ELSE 0

Unposted == CASE req.pc = "creditRow" -> -req.amount
              [] req.pc = "created"   -> req.amount
              [] OTHER                -> 0

MoneyInv ==
  /\ SumFunctionOnSet(balance, accounts) + InTransit <= SumFunctionOnSet(opening, accounts)
  /\ cut = {} => SumFunctionOnSet(posted, Account) = Unposted

\* Clients are not told both that a hold was captured and that it was voided
\* (instruction.md:35, "Returns `409 Conflict` if not active").
HoldHasOneOutcome == \A h \in Hold : Cardinality(answers[h]) <= 1
================================================================================
