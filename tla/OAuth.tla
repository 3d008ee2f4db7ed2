--------------------------------- MODULE OAuth ---------------------------------
(***************************************************************************)
(* The authorization server (tasks/oauth2-pkce-rtr-api): pushed requests,  *)
(* authorization codes, families of rotated refresh tokens, device codes   *)
(* and the cache of proofs, each a table of one database.                  *)
(*                                                                         *)
(* Handlers are coroutines that never await, so one runs at a time; but    *)
(* the connection autocommits (isolation_level=None) and `with conn' opens *)
(* no transaction, so a crash between two statements keeps the first.  A   *)
(* handler is one step per statement that writes; `job' says where it is.  *)
(*                                                                         *)
(* A challenge, a verifier and a key are right or wrong.  Clients present  *)
(* what they were given.  A new process has a new key, so what it thinks   *)
(* of an older token's signature is left open.                             *)
(***************************************************************************)
EXTENDS Integers, Sequences, FiniteSets

CONSTANTS
  Request,   \* pushed requests
  Proof,     \* jti of proofs
  Device,    \* device codes
  MaxCodes, MaxTokens, MaxCrashes   \* bounds: codes, stored tokens, crashes

ASSUME OAuthAssumption ==
  MaxCodes \in Nat /\ MaxTokens \in Nat /\ MaxCrashes \in Nat

VARIABLES
  par,       \* par_requests: "new", "stored", "expired" or "deleted"
  codes,     \* auth_codes, in order: the request of each, and whether it is used
  tokens,    \* tokens, in order: [family, type, status]
  devices,   \* device_codes: "new", "pending", "approved" or "denied"
  seen,      \* dpop_jti_cache
  job,       \* the statement that comes next, or Idle
  \* What is remembered for the properties.
  given,     \* successful answers: what for, and the code, tokens or resource
  rotated,   \* tokens whose refresh was begun
  withdrawn, \* tokens that a client revoked
  replayed,  \* families of rotated tokens that came again
  mistaken,  \* families one of whose access tokens was presented for a refresh
  crashes

tables == <<par, codes, tokens, devices, seen>>
ghosts == <<rotated, withdrawn, replayed, mistaken>>
vars   == <<tables, job, given, ghosts, crashes>>

Idle == [next |-> "idle"]

Init ==
  /\ par = [r \in Request |-> "new"]
  /\ codes = <<>>
  /\ tokens = <<>>
  /\ devices = [d \in Device |-> "new"]
  /\ seen = {}
  /\ job = Idle
  /\ given = {}
  /\ rotated = {} /\ withdrawn = {} /\ replayed = {} /\ mistaken = {}
  /\ crashes = 0

\* What clients have: answers name codes and tokens by their place in the table.
Known(kinds) == UNION {a.what : a \in {b \in given : b.kind \in kinds}}
KnownCodes == Known({"pushed", "direct"})
KnownTokens == Known({"exchanged", "refreshed", "client"})

Give(kind, for, what) == given' = given \union {[kind |-> kind, for |-> for, what |-> what]}

Token(family, type) == [family |-> family, type |-> type, status |-> "active"]

(***************************************************************************)
(* Pushed requests and codes                                               *)
(***************************************************************************)
Par(r) ==
  /\ job = Idle /\ par[r] = "new"
  /\ par' = [par EXCEPT ![r] = "stored"]
  /\ UNCHANGED <<codes, tokens, devices, seen, job, given, ghosts, crashes>>

\* expires_at passes.
Expire(r) ==
  /\ par[r] = "stored"
  /\ par' = [par EXCEPT ![r] = "expired"]
  /\ UNCHANGED <<codes, tokens, devices, seen, job, given, ghosts, crashes>>

\* The code is inserted; the request, if there is one, is deleted next.
Authorize(r) ==
  /\ job = Idle /\ par[r] = "stored" /\ Len(codes) < MaxCodes
  /\ codes' = Append(codes, [used |-> FALSE])
  /\ job' = [next |-> "delete", request |-> r]
  /\ UNCHANGED <<par, tokens, devices, seen, given, ghosts, crashes>>

DeleteRequest ==
  /\ job.next = "delete"
  /\ par' = [par EXCEPT ![job.request] = "deleted"]
  /\ Give("pushed", job.request, {Len(codes)})
  /\ job' = Idle
  /\ UNCHANGED <<codes, tokens, devices, seen, ghosts, crashes>>

AuthorizeDirectly ==
  /\ job = Idle /\ Len(codes) < MaxCodes
  /\ codes' = Append(codes, [used |-> FALSE])
  /\ Give("direct", Len(codes'), {Len(codes')})
  /\ UNCHANGED <<par, tokens, devices, seen, job, ghosts, crashes>>

(***************************************************************************)
(* Tokens                                                                  *)
(***************************************************************************)
UsableAlways(c) == TRUE
Usable(c) == ~codes[c].used

\* With the wrong verifier or for a used code, nothing changes.
ExchangeCode(c) ==
  /\ job = Idle /\ Usable(c) /\ Len(tokens) + 2 <= MaxTokens
  /\ codes' = [codes EXCEPT ![c].used = TRUE]
  /\ job' = [next |-> "access", kind |-> "exchanged", for |-> c, family |-> Len(tokens) + 1]
  /\ UNCHANGED <<par, tokens, devices, seen, given, ghosts, crashes>>

EndedToken(t) == {t}
Ended(t) == {u \in DOMAIN tokens : tokens[u].family = tokens[t].family}

SpentNever(t) == tokens
Spent(t) == [tokens EXCEPT ![t].status = "used"]

\* Any token will do; one that was used ends its family.
Refresh(t) ==
  /\ job = Idle
  /\ replayed' = IF t \in rotated \ withdrawn THEN replayed \union {tokens[t].family} ELSE replayed
  /\ \/ /\ tokens[t].status = "used"
        /\ tokens' = [u \in DOMAIN tokens |->
                        IF u \in Ended(t) THEN [tokens[u] EXCEPT !.status = "revoked"] ELSE tokens[u]]
        /\ UNCHANGED <<job, rotated, mistaken>>
     \/ /\ tokens[t].status = "active" /\ Len(tokens) + 2 <= MaxTokens
        /\ tokens' = Spent(t)
        /\ rotated' = rotated \union {t}
        /\ mistaken' = IF tokens[t].type = "access" THEN mistaken \union {tokens[t].family} ELSE mistaken
        /\ job' = [next |-> "access", kind |-> "refreshed", for |-> t,
                    family |-> tokens[t].family]
     \/ /\ tokens[t].status = "revoked"
        /\ UNCHANGED <<tokens, job, rotated, mistaken>>
  /\ UNCHANGED <<par, codes, devices, seen, given, withdrawn, crashes>>

InsertAccess ==
  /\ job.next = "access"
  /\ tokens' = Append(tokens, Token(job.family, "access"))
  /\ job' = [job EXCEPT !.next = "refresh"]
  /\ UNCHANGED <<par, codes, devices, seen, given, ghosts, crashes>>

\* The last statement, and the answer.
InsertRefresh ==
  /\ job.next = "refresh"
  /\ tokens' = Append(tokens, Token(job.family, "refresh"))
  /\ Give(job.kind, job.for, {Len(tokens), Len(tokens) + 1})
  /\ job' = Idle
  /\ UNCHANGED <<par, codes, devices, seen, ghosts, crashes>>

ClientCredentials ==
  /\ job = Idle /\ Len(tokens) < MaxTokens
  /\ tokens' = Append(tokens, Token(Len(tokens) + 1, "access"))
  /\ Give("client", Len(tokens'), {Len(tokens')})
  /\ UNCHANGED <<par, codes, devices, seen, job, ghosts, crashes>>

\* One token, whatever its status, and no other of its family.
Revoke(t) ==
  /\ job = Idle
  /\ tokens' = [tokens EXCEPT ![t].status = "revoked"]
  /\ withdrawn' = withdrawn \union {t}
  /\ UNCHANGED <<par, codes, devices, seen, job, given, rotated, replayed, mistaken, crashes>>

(***************************************************************************)
(* Devices and proofs                                                      *)
(***************************************************************************)
DeviceCode(d) ==
  /\ job = Idle /\ devices[d] = "new"
  /\ devices' = [devices EXCEPT ![d] = "pending"]
  /\ UNCHANGED <<par, codes, tokens, seen, job, given, ghosts, crashes>>

\* However often, and whatever was answered before.
DeviceVerify(d, approved) ==
  /\ job = Idle /\ devices[d] # "new"
  /\ devices' = [devices EXCEPT ![d] = IF approved THEN "approved" ELSE "denied"]
  /\ UNCHANGED <<par, codes, tokens, seen, job, given, ghosts, crashes>>

\* The token is not stored, so it can neither be revoked nor introspected.
ExchangeDevice(d) ==
  /\ job = Idle /\ devices[d] = "approved"
  /\ Give("device", d, {})
  /\ UNCHANGED <<tables, job, ghosts, crashes>>

Seen(j) == j \in seen

\* A proof is cached before the token is looked at, which is good or not; its status
\* in the table does not matter.
ProtectedResource(j, good) ==
  /\ job = Idle /\ ~Seen(j)
  /\ seen' = seen \union {j}
  /\ IF good THEN Give("resource", j, {Cardinality({a \in given : a.kind = "resource" /\ a.for = j})}) ELSE UNCHANGED given
  /\ UNCHANGED <<par, codes, tokens, devices, job, ghosts, crashes>>

\* The process dies, with what its handler had still to do, and starts again.
Crash ==
  /\ crashes < MaxCrashes /\ crashes' = crashes + 1
  /\ job' = Idle
  /\ UNCHANGED <<tables, given, ghosts>>

Next ==
  \/ \E r \in Request : Par(r) \/ Expire(r) \/ Authorize(r)
  \/ DeleteRequest
  \/ AuthorizeDirectly
  \/ \E c \in KnownCodes : ExchangeCode(c)
  \/ \E t \in KnownTokens : Refresh(t) \/ Revoke(t)
  \/ InsertAccess
  \/ InsertRefresh
  \/ ClientCredentials
  \/ \E d \in Device : DeviceCode(d) \/ ExchangeDevice(d)
  \/ \E d \in Device, approved \in BOOLEAN : DeviceVerify(d, approved)
  \/ \E j \in Proof, good \in BOOLEAN : ProtectedResource(j, good)
  \/ Crash

Spec == Init /\ [][Next]_vars

(***************************************************************************)
(* Properties                                                              *)
(***************************************************************************)
\* When a token that was rotated comes again, its family is over: no token of it,
\* those issued later included, is active again, whatever clients that share it do
\* next and wherever the server crashes.  Revoking the token in between hides that
\* it was used, and its replay then ends nothing.
ReplayEndsFamily ==
  \A t \in DOMAIN tokens : tokens[t].family \in replayed => tokens[t].status = "revoked"

\* Rotation leaves a family at most one refresh token that works, unless one of its
\* access tokens was taken for a refresh token, which the server does not notice.
OneTokenToRefresh ==
  \A t, u \in DOMAIN tokens :
    /\ tokens[t].family = tokens[u].family /\ tokens[t].family \notin mistaken
    /\ tokens[t].type = "refresh" /\ tokens[t].status = "active"
    /\ tokens[u].type = "refresh" /\ tokens[u].status = "active"
    => t = u

\* A pushed request, a code and a proof are each answered with success at most
\* once.  A crash may leave a request in place after its code was stored, or spend
\* a code for nothing, but the code it leaves behind is in nobody's hands.
AnsweredOnce ==
  \A a, b \in given : a.kind = b.kind /\ a.for = b.for => a = b
================================================================================
