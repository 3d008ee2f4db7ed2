------------------------------ MODULE OAuthProofs -------------------------------
(***************************************************************************)
(* Proofs about OAuth, for any requests, proofs and devices and any number *)
(* of codes, tokens and crashes.                                           *)
(***************************************************************************)
EXTENDS OAuth, FiniteSetTheorems, TLAPS

TokenRow == [family : Nat, type : {"access", "refresh"}, status : {"active", "used", "revoked"}]
CodeRow == [used : BOOLEAN]
CodeAnswers == {"pushed", "direct"}
TokenAnswers == {"exchanged", "refreshed", "client"}
Answer == [kind : CodeAnswers \union TokenAnswers \union {"device", "resource"},
           for : Request \union Device \union Proof \union Nat, what : SUBSET Nat]
Deletion == [next : {"delete"}, request : Request]
Grant == [next : {"access", "refresh"}, kind : {"exchanged", "refreshed"},
          for : Nat, family : Nat]

Shape ==
  /\ par \in [Request -> {"new", "stored", "expired", "deleted"}]
  /\ codes \in Seq(CodeRow)
  /\ tokens \in Seq(TokenRow)
  /\ devices \in [Device -> {"new", "pending", "approved", "denied"}]
  /\ seen \subseteq Proof
  /\ job \in {Idle} \union Deletion \union Grant
  /\ given \subseteq Answer
  /\ rotated \subseteq DOMAIN tokens /\ withdrawn \subseteq DOMAIN tokens
  /\ crashes \in Nat

\* Answers name rows that exist.
Handed ==
  \A a \in given : /\ a.kind \in CodeAnswers => a.what \subseteq DOMAIN codes
                   /\ a.kind \in TokenAnswers => a.what \subseteq DOMAIN tokens

TypeOK == Shape /\ Handed

Granting == job.next \in {"access", "refresh"}

\* A family is named by the place of its first token, so that Len(tokens) + 1
\* names a new one.
Families ==
  /\ \A t \in DOMAIN tokens : tokens[t].family \in 1..t
  /\ replayed \subseteq 1..Len(tokens) /\ mistaken \subseteq 1..Len(tokens)
  /\ job.next = "access" => job.family \in 1..Len(tokens) + 1
  /\ job.next = "refresh" => job.family \in 1..Len(tokens)

Over(f) == \A u \in DOMAIN tokens : tokens[u].family = f => tokens[u].status = "revoked"

\* A rotated token that was not revoked by hand is used until its family ends,
\* and a grant is under way only in a family that has not ended.
Rotation ==
  /\ ReplayEndsFamily
  /\ \A t \in rotated : tokens[t].status # "active"
  /\ \A t \in rotated \ withdrawn : tokens[t].status = "used" \/ Over(tokens[t].family)
  /\ Granting => /\ job.family \notin replayed
                 /\ \A t \in rotated \ withdrawn :
                      tokens[t].family = job.family => tokens[t].status = "used"

Refreshes(t) == tokens[t].type = "refresh" /\ tokens[t].status = "active"

\* While a grant is under way its family has no refresh token that works.
Single ==
  /\ OneTokenToRefresh
  /\ Granting /\ job.family \notin mistaken =>
       \A t \in DOMAIN tokens : tokens[t].family = job.family => ~Refreshes(t)

\* What an answer leaves behind, so that the same is not asked with success again.
Marked ==
  \A a \in given :
    /\ a.kind = "pushed" => a.for \in Request /\ par[a.for] = "deleted"
    /\ a.kind = "direct" => a.for \in 1..Len(codes)
    /\ a.kind = "exchanged" => a.for \in DOMAIN codes /\ codes[a.for].used
    /\ a.kind = "refreshed" => a.for \in DOMAIN tokens /\ tokens[a.for].status # "active"
    /\ a.kind = "client" => a.for \in DOMAIN tokens
    /\ a.kind = "device" => a.what = {}
    /\ a.kind = "resource" => a.for \in seen

\* A handler under way has answered nothing yet for what it was asked.
Pending ==
  /\ job.next = "delete" => par[job.request] # "deleted" /\ codes # <<>>
  /\ Granting => \A a \in given : ~(a.kind = job.kind /\ a.for = job.for)
  /\ Granting /\ job.kind = "exchanged" => job.for \in DOMAIN codes /\ codes[job.for].used
  /\ Granting /\ job.kind = "refreshed" =>
       job.for \in DOMAIN tokens /\ tokens[job.for].status # "active"

Inv == TypeOK /\ Families /\ Rotation /\ Single /\ Marked /\ Pending /\ AnsweredOnce

--------------------------------------------------------------------------------
\* What a job is, from the statement that comes next.
LEMMA JobKind ==
  ASSUME Shape
  PROVE  /\ Granting => job \in Grant
         /\ job.next = "delete" => job \in Deletion
         /\ job = Idle => ~Granting /\ job.next # "delete"
  BY DEF Shape, Granting, Grant, Deletion, Idle

LEMMA RowKind ==
  ASSUME tokens \in Seq(TokenRow)
  PROVE  /\ DOMAIN tokens = 1..Len(tokens) /\ Len(tokens) \in Nat
         /\ \A u \in DOMAIN tokens : tokens[u] \in TokenRow
  OBVIOUS

\* A row more.
LEMMA Inserted ==
  ASSUME tokens \in Seq(TokenRow), NEW row \in TokenRow, tokens' = Append(tokens, row)
  PROVE  /\ tokens' \in Seq(TokenRow)
         /\ Len(tokens) \in Nat /\ Len(tokens') = Len(tokens) + 1
         /\ DOMAIN tokens = 1..Len(tokens) /\ DOMAIN tokens' = 1..Len(tokens) + 1
         /\ \A t \in 1..Len(tokens) : tokens'[t] = tokens[t]
         /\ tokens'[Len(tokens) + 1] = row
  OBVIOUS

\* Rows whose status alone changes.
Restate(S, st) ==
  [u \in DOMAIN tokens |-> IF u \in S THEN [tokens[u] EXCEPT !.status = st] ELSE tokens[u]]

LEMMA Restated ==
  ASSUME tokens \in Seq(TokenRow), NEW st \in {"used", "revoked"}, NEW S \in SUBSET DOMAIN tokens,
         tokens' = Restate(S, st)
  PROVE  /\ tokens' \in Seq(TokenRow)
         /\ Len(tokens) \in Nat /\ Len(tokens') = Len(tokens)
         /\ DOMAIN tokens = 1..Len(tokens) /\ DOMAIN tokens' = DOMAIN tokens
         /\ \A u \in DOMAIN tokens :
              /\ tokens'[u].family = tokens[u].family /\ tokens'[u].type = tokens[u].type
              /\ tokens'[u].status = IF u \in S THEN st ELSE tokens[u].status
<1> USE DEF Restate
<1>1. DOMAIN tokens = 1..Len(tokens) /\ Len(tokens) \in Nat
  BY RowKind
<1>2. \A u \in DOMAIN tokens : tokens[u] \in TokenRow
  BY RowKind
<1>3. \A u \in DOMAIN tokens : tokens'[u] \in TokenRow
  BY <1>2 DEF TokenRow
<1>4. tokens' \in [1..Len(tokens) -> TokenRow]
  BY <1>1, <1>3
<1>5. tokens' \in Seq(TokenRow) /\ Len(tokens') = Len(tokens)
  BY <1>1, <1>4
<1>6. QED
  BY <1>1, <1>2, <1>5 DEF TokenRow

\* Steps that touch neither tokens nor what is remembered of them, and start no grant.
LEMMA Quiet ==
  ASSUME Families, Rotation, Single, UNCHANGED <<tokens, ghosts>>,
         job' = job \/ job'.next \notin {"access", "refresh"}
  PROVE  Families' /\ Rotation' /\ Single'
<1> USE DEF ghosts
<1>1. CASE job' = job
  BY <1>1 DEF Families, Rotation, Single, Granting, ReplayEndsFamily, OneTokenToRefresh, Over, Refreshes
<1>2. CASE job'.next \notin {"access", "refresh"}
  BY <1>2 DEF Families, Rotation, Single, Granting, ReplayEndsFamily, OneTokenToRefresh, Over, Refreshes
<1>3. QED
  BY <1>1, <1>2

\* An answer that repeats none is added.
LEMMA Given ==
  ASSUME Inv, NEW new \in Answer, given' = given \union {new},
         \A a \in given : a.kind = new.kind /\ a.for = new.for => a.what = new.what
  PROVE  AnsweredOnce' /\ given' \subseteq Answer
<1>1. given' \subseteq Answer
  BY DEF Inv, TypeOK, Shape
<1>2. \A a \in given : a.kind = new.kind /\ a.for = new.for => a = new
  BY DEF Inv, TypeOK, Shape, Answer
<1>3. \A a, b \in given : a.kind = b.kind /\ a.for = b.for => a = b
  BY DEF Inv, AnsweredOnce
<1>4. \A a, b \in given' : a.kind = b.kind /\ a.for = b.for => a = b
  BY <1>1, <1>2, <1>3
<1>5. QED
  BY <1>1, <1>4 DEF AnsweredOnce

\* Pushed requests: no token and no grant is touched.
LEMMA RequestStep ==
  ASSUME Inv, NEW r \in Request, Par(r) \/ Expire(r) \/ Authorize(r)
  PROVE  Inv'
<1> USE DEF ghosts
<1>1. UNCHANGED <<tokens, ghosts>> /\ (job' = job \/ job'.next \notin {"access", "refresh"})
  BY DEF Par, Expire, Authorize
<1>2. Families' /\ Rotation' /\ Single'
  BY <1>1, Quiet DEF Inv
<1>3. UNCHANGED given /\ AnsweredOnce'
  BY DEF Par, Expire, Authorize, Inv, AnsweredOnce
<1>4. CASE Par(r) \/ Expire(r)
  <2>1. TypeOK'
    BY <1>4 DEF Par, Expire, Inv, TypeOK, Shape, Handed
  <2>2. /\ UNCHANGED <<job, codes, tokens, seen, given>>
        /\ \A x \in Request : par[x] = "deleted" <=> par'[x] = "deleted"
    BY <1>4 DEF Par, Expire, Inv, TypeOK, Shape
  <2>3. Marked'
    BY <2>2 DEF Inv, Marked
  <2>4. job.next = "delete" => job.request \in Request
    BY JobKind DEF Inv, TypeOK, Deletion
  <2>5. Pending'
    BY <2>2, <2>4 DEF Inv, Pending, Granting
  <2>6. QED
    BY <1>2, <1>3, <2>1, <2>3, <2>5 DEF Inv
<1>5. CASE Authorize(r)
  <2> USE DEF Authorize
  <2>1. /\ codes' \in Seq(CodeRow) /\ DOMAIN codes \subseteq DOMAIN codes'
        /\ \A c \in DOMAIN codes : codes'[c] = codes[c]
        /\ 1..Len(codes) \subseteq 1..Len(codes')
    BY <1>5 DEF Inv, TypeOK, Shape, CodeRow
  <2>2. job' \in Deletion /\ job'.request = r
    BY <1>5 DEF Deletion
  <2>3. TypeOK'
    BY <1>5, <2>1, <2>2 DEF Inv, TypeOK, Shape, Handed
  <2>4. Marked'
    BY <1>5, <2>1 DEF Inv, Marked
  <2>5. Pending'
    BY <1>5, <2>2 DEF Pending, Granting, Deletion, Inv, TypeOK, Shape
  <2>6. QED
    BY <1>2, <1>3, <2>3, <2>4, <2>5 DEF Inv
<1>6. QED
  BY <1>4, <1>5
LEMMA DeleteStep ==
  ASSUME Inv, DeleteRequest
  PROVE  Inv'
<1> USE DEF DeleteRequest
<1> DEFINE r == job.request
<1>1. r \in Request /\ par[r] # "deleted" /\ job' = Idle /\ Idle.next = "idle"
  BY JobKind DEF Inv, TypeOK, Deletion, Pending, Idle
<1>2. /\ UNCHANGED <<codes, tokens, seen>>
      /\ par' \in [Request -> {"new", "stored", "expired", "deleted"}]
      /\ \A x \in Request : par'[x] = IF x = r THEN "deleted" ELSE par[x]
  BY <1>1 DEF Inv, TypeOK, Shape
<1>3. \A a \in given : a.kind = "pushed" => a.for # r
  BY <1>1 DEF Inv, Marked
<1>4. Len(codes) \in Nat /\ Len(codes) \in DOMAIN codes
  BY JobKind DEF Inv, TypeOK, Shape, Pending
<1>5. AnsweredOnce' /\ given' \subseteq Answer
  <2> DEFINE new == [kind |-> "pushed", for |-> r, what |-> {Len(codes)}]
  <2>1. new \in Answer /\ new.kind = "pushed" /\ new.for = r
    BY <1>1, <1>4 DEF Answer, CodeAnswers
  <2>2. given' = given \union {new}
    BY DEF Give
  <2> HIDE DEF new
  <2>3. QED
    BY <1>3, <2>1, <2>2, Given
<1>6. Families' /\ Rotation' /\ Single'
  BY <1>1, Quiet DEF Inv
<1>7. TypeOK'
  BY <1>1, <1>2, <1>4, <1>5 DEF Inv, TypeOK, Shape, Handed, Give, ghosts, CodeAnswers, TokenAnswers
<1>8. Marked'
  BY <1>1, <1>2 DEF Inv, Marked, Give
<1>9. Pending'
  BY <1>1 DEF Pending, Granting
<1>10. QED
  BY <1>5, <1>6, <1>7, <1>8, <1>9 DEF Inv

LEMMA DirectStep ==
  ASSUME Inv, AuthorizeDirectly
  PROVE  Inv'
<1> USE DEF AuthorizeDirectly
<1> DEFINE n == Len(codes)
<1>1. /\ job = Idle /\ ~Granting /\ Idle.next = "idle" /\ UNCHANGED <<par, tokens, devices, seen, job, ghosts, crashes>>
  BY JobKind DEF Inv, TypeOK, Idle
<1>2. /\ n \in Nat /\ DOMAIN codes = 1..n
      /\ codes' \in Seq(CodeRow) /\ DOMAIN codes' = 1..n + 1 /\ Len(codes') = n + 1
      /\ \A c \in 1..n : codes'[c] = codes[c]
  BY DEF Inv, TypeOK, Shape, CodeRow
<1>3. AnsweredOnce' /\ given' \subseteq Answer
  <2> DEFINE new == [kind |-> "direct", for |-> n + 1, what |-> {n + 1}]
  <2>1. new \in Answer /\ new.kind = "direct" /\ new.for = n + 1
    BY <1>2 DEF Answer, CodeAnswers
  <2>2. \A a \in given : a.kind = "direct" => a.for # n + 1
    BY <1>2 DEF Inv, Marked
  <2>3. given' = given \union {new}
    BY <1>2 DEF Give
  <2> HIDE DEF new
  <2>4. QED
    BY <2>1, <2>2, <2>3, Given
<1>4. Families' /\ Rotation' /\ Single'
  BY <1>1, Quiet DEF Inv
<1>5. TypeOK'
  BY <1>1, <1>2, <1>3 DEF Inv, TypeOK, Shape, Handed, Give, ghosts, CodeAnswers, TokenAnswers
<1>6. Marked'
  BY <1>1, <1>2 DEF Inv, Marked, Give
<1>7. Pending'
  BY <1>1 DEF Pending, Granting
<1>8. QED
  BY <1>3, <1>4, <1>5, <1>6, <1>7 DEF Inv

\* A code that clients know exists, and so does a token.
LEMMA KnownExist ==
  ASSUME Inv
  PROVE  KnownCodes \subseteq DOMAIN codes /\ KnownTokens \subseteq DOMAIN tokens
  BY DEF Inv, TypeOK, Handed, KnownCodes, KnownTokens, Known, CodeAnswers, TokenAnswers

LEMMA ExchangeStep ==
  ASSUME Inv, NEW c \in DOMAIN codes, ExchangeCode(c)
  PROVE  Inv'
<1> USE DEF ExchangeCode
<1> DEFINE f == Len(tokens) + 1
<1>1. /\ job' = [next |-> "access", kind |-> "exchanged", for |-> c, family |-> f]
      /\ UNCHANGED <<par, tokens, devices, seen, given, rotated, withdrawn, replayed, mistaken, crashes>>
  BY DEF ghosts
<1>2. /\ Len(tokens) \in Nat /\ DOMAIN tokens = 1..Len(tokens)
      /\ Len(codes) \in Nat /\ DOMAIN codes = 1..Len(codes)
  BY DEF Inv, TypeOK, Shape
<1>3. /\ codes' \in Seq(CodeRow) /\ DOMAIN codes' = DOMAIN codes /\ Len(codes') = Len(codes)
      /\ codes'[c].used /\ \A d \in DOMAIN codes : codes[d].used => codes'[d].used
  <2>1. codes \in Seq(CodeRow) /\ codes' = [codes EXCEPT ![c] = [codes[c] EXCEPT !.used = TRUE]]
    BY DEF Inv, TypeOK, Shape
  <2>2. codes[c] \in CodeRow
    BY <1>2, <2>1
  <2>3. [codes[c] EXCEPT !.used = TRUE] \in CodeRow /\ [codes[c] EXCEPT !.used = TRUE].used
    BY <2>2 DEF CodeRow
  <2>4. QED
    BY <1>2, <2>1, <2>3
<1>4. job' \in Grant /\ Granting'
  BY <1>1, <1>2 DEF Grant, Granting
<1>5. TypeOK'
  BY <1>1, <1>3, <1>4 DEF Inv, TypeOK, Shape, Handed
<1>6. f \notin replayed /\ \A t \in DOMAIN tokens : tokens[t].family # f
  BY <1>2 DEF Inv, Families
<1>7. Families'
  BY <1>1, <1>2 DEF Inv, Families
<1>8. Rotation'
  BY <1>1, <1>6 DEF Inv, Rotation, ReplayEndsFamily, Over, TypeOK, Shape
<1>9. Single'
  BY <1>1, <1>6 DEF Inv, Single, OneTokenToRefresh, Refreshes
<1>10. Marked'
  BY <1>1, <1>3 DEF Inv, Marked
<1>11. \A a \in given : a.kind = "exchanged" => a.for # c
  BY DEF Inv, Marked, Usable
<1>12. Pending'
  BY <1>1, <1>3, <1>11 DEF Pending
<1>13. AnsweredOnce'
  BY <1>1 DEF Inv, AnsweredOnce
<1>14. QED
  BY <1>5, <1>7, <1>8, <1>9, <1>10, <1>12, <1>13 DEF Inv

\* Only the status of rows changes, and no row becomes active.
LEMMA Statuses ==
  ASSUME Inv, NEW st \in {"used", "revoked"}, NEW S \in SUBSET DOMAIN tokens,
         tokens' = Restate(S, st),
         UNCHANGED <<par, codes, devices, seen, given, crashes>>,
         rotated' \subseteq DOMAIN tokens, withdrawn' \subseteq DOMAIN tokens,
         job' = job \/ job' \in Grant
  PROVE  TypeOK' /\ Marked' /\ AnsweredOnce' /\ Len(tokens') = Len(tokens)
<1>1. tokens \in Seq(TokenRow)
  BY DEF Inv, TypeOK, Shape
<1>2. /\ tokens' \in Seq(TokenRow) /\ Len(tokens') = Len(tokens) /\ DOMAIN tokens' = DOMAIN tokens
      /\ \A u \in DOMAIN tokens : tokens'[u].status # "active" \/ tokens'[u].status = tokens[u].status
  BY <1>1, Restated
<1>3. TypeOK'
  BY <1>2 DEF Inv, TypeOK, Shape, Handed
<1>4. Marked'
  BY <1>2 DEF Inv, Marked
<1>5. QED
  BY <1>2, <1>3, <1>4 DEF Inv, AnsweredOnce

LEMMA RevokeStep ==
  ASSUME Inv, NEW t \in DOMAIN tokens, Revoke(t)
  PROVE  Inv'
<1> USE DEF Revoke
<1>1. tokens \in Seq(TokenRow) /\ job = Idle /\ ~Granting /\ job.next # "delete"
  BY JobKind DEF Inv, TypeOK, Shape
<1>2. tokens' = Restate({t}, "revoked")
  BY <1>1 DEF Restate
<1>3. /\ Len(tokens') = Len(tokens) /\ DOMAIN tokens' = DOMAIN tokens
      /\ \A u \in DOMAIN tokens :
           /\ tokens'[u].family = tokens[u].family /\ tokens'[u].type = tokens[u].type
           /\ tokens'[u].status = IF u = t THEN "revoked" ELSE tokens[u].status
  BY <1>1, <1>2, Restated
<1>4. TypeOK' /\ Marked' /\ AnsweredOnce'
  <2>1. rotated' \subseteq DOMAIN tokens /\ withdrawn' \subseteq DOMAIN tokens
    BY DEF Inv, TypeOK, Shape
  <2>2. QED
    BY <1>2, <2>1, Statuses
<1>5. Families'
  BY <1>1, <1>3 DEF Inv, Families, Granting
<1>6. Rotation'
  BY <1>1, <1>3 DEF Inv, Rotation, ReplayEndsFamily, Over, Granting, TypeOK, Shape
<1>7. Single'
  BY <1>1, <1>3 DEF Inv, Single, OneTokenToRefresh, Granting
<1>8. Pending'
  BY <1>1 DEF Pending, Granting
<1>9. QED
  BY <1>4, <1>5, <1>6, <1>7, <1>8 DEF Inv

\* A rotated token came again, or a revoked one: no grant starts.
LEMMA ReuseStep ==
  ASSUME Inv, NEW t \in DOMAIN tokens, Refresh(t), tokens[t].status # "active"
  PROVE  Inv'
<1> DEFINE f == tokens[t].family
           S == IF tokens[t].status = "used" THEN Ended(t) ELSE {}
<1>1. /\ job = Idle /\ UNCHANGED <<par, codes, devices, seen, job, given, rotated, withdrawn, mistaken, crashes>>
      /\ replayed' = IF t \in rotated \ withdrawn THEN replayed \union {f} ELSE replayed
  BY DEF Refresh
<1>2. tokens \in Seq(TokenRow) /\ ~Granting /\ job.next # "delete" /\ S \in SUBSET DOMAIN tokens
  BY <1>1, JobKind DEF Inv, TypeOK, Shape, Ended
<1>3. tokens[t].status \in {"used", "revoked"}
  BY <1>2, RowKind DEF TokenRow
<1>4. tokens' = Restate(S, "revoked")
  <2>1. CASE tokens[t].status = "used"
    BY <2>1 DEF Refresh, Restate
  <2>2. CASE tokens[t].status = "revoked"
    <3>1. tokens' = tokens
      BY <2>2 DEF Refresh
    <3>2. S = {} /\ tokens = [u \in DOMAIN tokens |-> tokens[u]]
      BY <1>2, <2>2
    <3>3. QED
      BY <3>1, <3>2 DEF Restate
  <2>3. QED
    BY <1>3, <2>1, <2>2
<1> HIDE DEF S
<1>5. /\ Len(tokens') = Len(tokens) /\ DOMAIN tokens' = DOMAIN tokens /\ DOMAIN tokens = 1..Len(tokens)
      /\ Len(tokens) \in Nat
      /\ \A u \in DOMAIN tokens :
           /\ tokens'[u].family = tokens[u].family /\ tokens'[u].type = tokens[u].type
           /\ tokens'[u].status = IF u \in S THEN "revoked" ELSE tokens[u].status
  BY <1>2, <1>4, Restated
<1>6. TypeOK' /\ Marked' /\ AnsweredOnce'
  <2>1. rotated' \subseteq DOMAIN tokens /\ withdrawn' \subseteq DOMAIN tokens
    BY <1>1 DEF Inv, TypeOK, Shape
  <2>2. QED
    BY <1>1, <1>2, <1>4, <2>1, Statuses
\* The family is over if the token is one that was rotated and not revoked by hand.
<1>7. t \in rotated \ withdrawn => \A u \in DOMAIN tokens : tokens[u].family = f => tokens'[u].status = "revoked"
  <2>1. CASE tokens[t].status = "used"
    BY <1>5, <2>1 DEF S, Ended
  <2>2. CASE tokens[t].status = "revoked"
    BY <1>5, <2>2 DEF Inv, Rotation, Over
  <2>3. QED
    BY <1>3, <2>1, <2>2
<1>8. \A u \in DOMAIN tokens : tokens[u].status = "revoked" => tokens'[u].status = "revoked"
  BY <1>5
<1>9. \A u \in DOMAIN tokens : tokens'[u].status = tokens[u].status
                              \/ \A v \in DOMAIN tokens : tokens[v].family = tokens[u].family => tokens'[v].status = "revoked"
  BY <1>5 DEF S, Ended
<1>10. Families'
  <2>1. f \in 1..Len(tokens)
    BY <1>5 DEF Inv, Families
  <2>2. QED
    BY <1>1, <1>2, <1>5, <2>1 DEF Inv, Families, Granting
<1>11. ReplayEndsFamily'
  BY <1>1, <1>5, <1>7, <1>8 DEF Inv, Rotation, ReplayEndsFamily
<1>12. Rotation'
  <2>1. \A u \in rotated' : tokens'[u].status # "active"
    BY <1>1, <1>5 DEF Inv, Rotation, TypeOK, Shape
  <2>2. \A u \in rotated' \ withdrawn' : tokens'[u].status = "used" \/ Over(tokens[u].family)'
    BY <1>1, <1>5, <1>8, <1>9, SMTT(30) DEF Inv, Rotation, Over, TypeOK, Shape
  <2>3. \A u \in rotated' : tokens'[u].family = tokens[u].family
    BY <1>1, <1>5 DEF Inv, TypeOK, Shape
  <2>4. ~Granting'
    BY <1>1, <1>2 DEF Granting
  <2>5. QED
    BY <1>11, <2>1, <2>2, <2>3, <2>4 DEF Rotation, Over
<1>13. Single'
  BY <1>1, <1>2, <1>5 DEF Inv, Single, OneTokenToRefresh, Granting
<1>14. Pending'
  BY <1>1, <1>2 DEF Pending, Granting
<1>15. QED
  BY <1>6, <1>10, <1>12, <1>13, <1>14 DEF Inv

LEMMA RotateStep ==
  ASSUME Inv, NEW t \in DOMAIN tokens, Refresh(t), tokens[t].status = "active"
  PROVE  Inv'
<1> DEFINE f == tokens[t].family
<1>1. /\ job = Idle /\ UNCHANGED <<par, codes, devices, seen, given, withdrawn, crashes>>
      /\ tokens' = Spent(t)
      /\ rotated' = rotated \union {t}
      /\ mistaken' = IF tokens[t].type = "access" THEN mistaken \union {f} ELSE mistaken
      /\ job' = [next |-> "access", kind |-> "refreshed", for |-> t, family |-> f]
  BY DEF Refresh
<1>2. tokens \in Seq(TokenRow) /\ DOMAIN tokens = 1..Len(tokens) /\ Len(tokens) \in Nat
  BY DEF Inv, TypeOK, Shape
<1>3. t \notin rotated /\ replayed' = replayed /\ f \notin replayed
  BY DEF Inv, Rotation, ReplayEndsFamily, Refresh
<1>4. tokens' = Restate({t}, "used")
  BY <1>1, <1>2 DEF Restate, Spent
<1>5. /\ Len(tokens') = Len(tokens) /\ DOMAIN tokens' = DOMAIN tokens
      /\ \A u \in DOMAIN tokens :
           /\ tokens'[u].family = tokens[u].family /\ tokens'[u].type = tokens[u].type
           /\ tokens'[u].status = IF u = t THEN "used" ELSE tokens[u].status
  <2>1. {t} \in SUBSET DOMAIN tokens /\ \A u \in DOMAIN tokens : u \in {t} <=> u = t
    OBVIOUS
  <2>2. /\ Len(tokens') = Len(tokens) /\ DOMAIN tokens' = DOMAIN tokens
        /\ \A u \in DOMAIN tokens :
             /\ tokens'[u].family = tokens[u].family /\ tokens'[u].type = tokens[u].type
             /\ tokens'[u].status = IF u \in {t} THEN "used" ELSE tokens[u].status
    BY <1>2, <1>4, <2>1, Restated
  <2>3. QED
    BY <2>1, <2>2
<1>6. tokens[t] \in TokenRow /\ tokens[t].type \in {"access", "refresh"} /\ f \in Nat /\ t \in Nat
  BY <1>2, RowKind DEF TokenRow
<1>7. job' \in Grant /\ job'.next = "access" /\ job'.kind = "refreshed" /\ job'.for = t /\ job'.family = f
  BY <1>1, <1>6 DEF Grant
<1>8. TypeOK' /\ Marked' /\ AnsweredOnce'
  <2>1. rotated' \subseteq DOMAIN tokens /\ withdrawn' \subseteq DOMAIN tokens
    BY <1>1 DEF Inv, TypeOK, Shape
  <2>2. QED
    BY <1>1, <1>4, <1>7, <2>1, Statuses
<1>9. Families'
  <2>1. f \in 1..t
    BY DEF Inv, Families
  <2>2. f \in 1..Len(tokens) /\ f \in 1..Len(tokens) + 1
    BY <1>2, <2>1
  <2>3. QED
    BY <1>1, <1>3, <1>5, <1>7, <2>2 DEF Inv, Families
<1>10. Rotation'
  <2>1. ReplayEndsFamily'
    BY <1>3, <1>5 DEF Inv, Rotation, ReplayEndsFamily
  <2>2. \A u \in rotated' : tokens'[u].status # "active"
    BY <1>1, <1>5 DEF Inv, Rotation, TypeOK, Shape
  \* The family was not over: t was active in it.
  <2>3. \A u \in rotated' \ withdrawn' : tokens'[u].family = f => tokens'[u].status = "used"
    BY <1>1, <1>5 DEF Inv, Rotation, Over, TypeOK, Shape
  <2>4. \A u \in rotated' \ withdrawn' : tokens'[u].status = "used" \/ Over(tokens[u].family)'
    BY <1>1, <1>5, <2>3 DEF Inv, Rotation, Over, TypeOK, Shape
  <2>5. QED
    BY <1>3, <1>7, <2>1, <2>2, <2>3, <2>4 DEF Rotation, Over
<1>11. Single'
  <2>1. OneTokenToRefresh'
    BY <1>1, <1>5 DEF Inv, Single, OneTokenToRefresh
  <2>2. f \notin mistaken' => f \notin mistaken /\ tokens[t].type = "refresh"
    BY <1>1, <1>6
  <2>3. f \notin mistaken' => \A u \in DOMAIN tokens : tokens[u].family = f /\ u # t => ~Refreshes(u)
    BY <2>2 DEF Inv, Single, OneTokenToRefresh, Refreshes
  <2>4. QED
    BY <1>5, <1>7, <2>1, <2>3 DEF Single, Refreshes
<1>12. \A a \in given : ~(a.kind = "refreshed" /\ a.for = t)
  BY DEF Inv, Marked
<1>13. Pending'
  BY <1>1, <1>5, <1>7, <1>12 DEF Pending
<1>14. QED
  BY <1>8, <1>9, <1>10, <1>11, <1>13 DEF Inv

LEMMA AccessStep ==
  ASSUME Inv, InsertAccess
  PROVE  Inv'
<1> DEFINE n == Len(tokens)  f == job.family  row == Token(f, "access")
<1>1. /\ job.next = "access" /\ Granting /\ job \in Grant /\ tokens \in Seq(TokenRow)
      /\ tokens' = Append(tokens, row) /\ job' = [job EXCEPT !.next = "refresh"]
      /\ UNCHANGED <<par, codes, devices, seen, given, rotated, withdrawn, replayed, mistaken, crashes>>
  BY JobKind DEF InsertAccess, Granting, ghosts, Inv, TypeOK, Shape
<1>2. /\ row \in TokenRow /\ f \in Nat
      /\ row.family = f /\ row.type = "access" /\ row.status = "active"
  BY <1>1 DEF Token, TokenRow, Grant
<1>3. /\ job' \in Grant /\ job'.next = "refresh" /\ Granting'
      /\ job'.kind = job.kind /\ job'.for = job.for /\ job'.family = f
  BY <1>1 DEF Grant, Granting
<1> HIDE DEF row
<1>4. /\ tokens' \in Seq(TokenRow) /\ n \in Nat /\ Len(tokens') = n + 1
      /\ DOMAIN tokens = 1..n /\ DOMAIN tokens' = 1..n + 1
      /\ \A t \in 1..n : tokens'[t] = tokens[t]
      /\ tokens'[n + 1] = row
  BY <1>1, <1>2, Inserted
<1>5. rotated \subseteq 1..n /\ withdrawn \subseteq 1..n
  BY <1>4 DEF Inv, TypeOK, Shape
<1>6. TypeOK'
  BY <1>1, <1>3, <1>4, <1>5 DEF Inv, TypeOK, Shape, Handed
<1>7. Families'
  <2>1. f \in 1..n + 1 /\ replayed \subseteq 1..n /\ mistaken \subseteq 1..n
    BY <1>1 DEF Inv, Families
  <2>2. \A t \in DOMAIN tokens' : tokens'[t].family \in 1..t
    BY <1>2, <1>4, <2>1 DEF Inv, Families
  <2>3. QED
    BY <1>1, <1>3, <1>4, <2>1, <2>2 DEF Families
<1>8. Rotation'
  <2>1. f \notin replayed /\ \A t \in rotated \ withdrawn : tokens[t].family = f => tokens[t].status = "used"
    BY <1>1 DEF Inv, Rotation
  <2>2. ReplayEndsFamily'
    BY <1>1, <1>2, <1>4, <2>1 DEF Inv, Rotation, ReplayEndsFamily
  <2>3. \A t \in rotated : tokens'[t].status # "active"
    BY <1>4, <1>5 DEF Inv, Rotation
  <2>4. ASSUME NEW t \in rotated \ withdrawn
        PROVE  tokens'[t].status = "used" \/ Over(tokens[t].family)'
    <3>1. t \in 1..n /\ tokens'[t] = tokens[t]
      BY <1>4, <1>5
    <3>2. CASE tokens[t].status = "used"
      BY <3>1, <3>2
    <3>3. CASE tokens[t].status # "used"
      <4>1. \A u \in 1..n : tokens[u].family = tokens[t].family => tokens[u].status = "revoked"
        BY <1>4, <3>3 DEF Inv, Rotation, Over
      <4>2. tokens[t].family # row.family
        BY <1>2, <2>1, <3>3
      <4>3. \A u \in 1..n + 1 : u \in 1..n \/ u = n + 1
        BY <1>4
      <4>4. QED
        BY <1>4, <3>1, <4>1, <4>2, <4>3 DEF Over
    <3>4. QED
      BY <3>2, <3>3
  <2>5. \A t \in rotated \ withdrawn : tokens'[t].family = f => tokens'[t].status = "used"
    BY <1>4, <1>5, <2>1
  <2>6. QED
    <3>1. \A t \in (rotated \ withdrawn)' : tokens'[t].status = "used" \/ Over(tokens[t].family)'
      BY <1>1, <2>4
    <3>2. job'.family \notin replayed'
      BY <1>1, <1>3, <2>1
    <3>3. \A t \in (rotated \ withdrawn)' : tokens'[t].family = job'.family => tokens'[t].status = "used"
      BY <1>1, <1>3, <2>5
    <3>4. QED
      BY <1>1, <2>2, <2>3, <3>1, <3>2, <3>3 DEF Rotation
<1>9. Single'
  <2>1. OneTokenToRefresh'
    BY <1>1, <1>2, <1>4 DEF Inv, Single, OneTokenToRefresh
  <2>2. f \notin mistaken => \A t \in 1..n : tokens[t].family = f => ~Refreshes(t)
    BY <1>1, <1>4 DEF Inv, Single
  <2>3. f \notin mistaken' => \A t \in DOMAIN tokens' : tokens'[t].family = f => ~Refreshes(t)'
    BY <1>1, <1>2, <1>4, <2>2 DEF Refreshes
  <2>4. QED
    BY <1>3, <2>1, <2>3 DEF Single
<1>10. Marked'
  BY <1>1, <1>4 DEF Inv, Marked
<1>11. Pending'
  BY <1>1, <1>3, <1>4 DEF Inv, Pending
<1>12. AnsweredOnce'
  BY <1>1 DEF Inv, AnsweredOnce
<1>13. QED
  BY <1>6, <1>7, <1>8, <1>9, <1>10, <1>11, <1>12 DEF Inv

LEMMA RefreshStep ==
  ASSUME Inv, InsertRefresh
  PROVE  Inv'
<1> DEFINE n == Len(tokens)  f == job.family  row == Token(f, "refresh")
           new == [kind |-> job.kind, for |-> job.for, what |-> {n, n + 1}]
<1>1. /\ job.next = "refresh" /\ Granting /\ job \in Grant /\ tokens \in Seq(TokenRow)
      /\ tokens' = Append(tokens, row) /\ job' = Idle
      /\ given' = given \union {new}
      /\ UNCHANGED <<par, codes, devices, seen, rotated, withdrawn, replayed, mistaken, crashes>>
  BY JobKind DEF InsertRefresh, Give, Granting, ghosts, Inv, TypeOK, Shape
<1>2. /\ row \in TokenRow /\ f \in Nat
      /\ row.family = f /\ row.type = "refresh" /\ row.status = "active"
  BY <1>1 DEF Token, TokenRow, Grant
<1>3. ~Granting' /\ job'.next # "delete" /\ job'.next \notin {"access", "refresh"}
  BY <1>1 DEF Idle, Granting
<1> HIDE DEF row
<1>4. /\ tokens' \in Seq(TokenRow) /\ n \in Nat /\ Len(tokens') = n + 1
      /\ DOMAIN tokens = 1..n /\ DOMAIN tokens' = 1..n + 1
      /\ \A t \in 1..n : tokens'[t] = tokens[t]
      /\ tokens'[n + 1] = row
  BY <1>1, <1>2, Inserted
<1>5. rotated \subseteq 1..n /\ withdrawn \subseteq 1..n /\ f \in 1..n
  BY <1>1, <1>4 DEF Inv, TypeOK, Shape, Families
<1>6. /\ new \in Answer /\ new.kind = job.kind /\ new.for = job.for /\ new.what = {n, n + 1}
      /\ new.kind \in {"exchanged", "refreshed"}
  BY <1>1, <1>4 DEF Grant, Answer, TokenAnswers
<1> HIDE DEF new
<1>7. AnsweredOnce' /\ given' \subseteq Answer
  <2>1. \A a \in given : ~(a.kind = new.kind /\ a.for = new.for)
    BY <1>1, <1>6 DEF Inv, Pending
  <2>2. QED
    BY <1>1, <1>6, <2>1, Given
<1>8. TypeOK'
  <2>1. Handed'
    <3>1. {n, n + 1} \subseteq DOMAIN tokens'
      BY <1>4, <1>5
    <3>2. QED
      BY <1>1, <1>4, <1>6, <3>1 DEF Inv, TypeOK, Handed, CodeAnswers
  <2>2. Shape'
    BY <1>1, <1>4, <1>5, <1>7 DEF Inv, TypeOK, Shape
  <2>3. QED
    BY <2>1, <2>2 DEF TypeOK
<1>9. Families'
  <2>1. replayed \subseteq 1..n /\ mistaken \subseteq 1..n
    BY DEF Inv, Families
  <2>2. \A t \in DOMAIN tokens' : tokens'[t].family \in 1..t
    BY <1>2, <1>4, <1>5 DEF Inv, Families
  <2>3. QED
    BY <1>1, <1>3, <1>4, <2>1, <2>2 DEF Families
<1>10. Rotation'
  <2>1. f \notin replayed /\ \A t \in rotated \ withdrawn : tokens[t].family = f => tokens[t].status = "used"
    BY <1>1 DEF Inv, Rotation
  <2>2. ReplayEndsFamily'
    BY <1>1, <1>2, <1>4, <2>1 DEF Inv, Rotation, ReplayEndsFamily
  <2>3. \A t \in rotated : tokens'[t].status # "active"
    BY <1>4, <1>5 DEF Inv, Rotation
  <2>4. ASSUME NEW t \in rotated \ withdrawn
        PROVE  tokens'[t].status = "used" \/ Over(tokens[t].family)'
    <3>1. t \in 1..n /\ tokens'[t] = tokens[t]
      BY <1>4, <1>5
    <3>2. CASE tokens[t].status = "used"
      BY <3>1, <3>2
    <3>3. CASE tokens[t].status # "used"
      <4>1. \A u \in 1..n : tokens[u].family = tokens[t].family => tokens[u].status = "revoked"
        BY <1>4, <3>3 DEF Inv, Rotation, Over
      <4>2. tokens[t].family # row.family
        BY <1>2, <2>1, <3>3
      <4>3. \A u \in 1..n + 1 : u \in 1..n \/ u = n + 1
        BY <1>4
      <4>4. QED
        BY <1>4, <3>1, <4>1, <4>2, <4>3 DEF Over
    <3>4. QED
      BY <3>2, <3>3
  <2>5. QED
    BY <1>1, <1>3, <2>2, <2>3, <2>4 DEF Rotation
\* The new token is the only one of its family that works.
<1>11. Single'
  <2>1. f \notin mistaken => \A t \in 1..n : tokens[t].family = f => ~Refreshes(t)
    BY <1>1, <1>4 DEF Inv, Single
  <2>2. OneTokenToRefresh'
    BY <1>1, <1>2, <1>4, <2>1 DEF Inv, Single, OneTokenToRefresh, Refreshes
  <2>3. QED
    BY <1>3, <2>2 DEF Single
<1>12. Marked'
  <2>1. \A a \in given' : a \in given \/ a = new
    BY <1>1
  <2>2. /\ new.kind = "exchanged" => new.for \in DOMAIN codes /\ codes[new.for].used
        /\ new.kind = "refreshed" => new.for \in DOMAIN tokens /\ tokens[new.for].status # "active"
    BY <1>1, <1>6 DEF Inv, Pending
  <2>3. \A a \in given : /\ a.kind = "refreshed" => a.for \in DOMAIN tokens' /\ tokens'[a.for].status # "active"
                        /\ a.kind = "client" => a.for \in DOMAIN tokens'
    BY <1>4 DEF Inv, Marked
  <2>4. QED
    BY <1>1, <1>4, <1>6, <2>1, <2>2, <2>3 DEF Inv, Marked
<1>13. Pending'
  BY <1>3 DEF Pending
<1>14. QED
  BY <1>7, <1>8, <1>9, <1>10, <1>11, <1>12, <1>13 DEF Inv

LEMMA ClientStep ==
  ASSUME Inv, ClientCredentials
  PROVE  Inv'
<1> DEFINE n == Len(tokens)  row == Token(n + 1, "access")
           new == [kind |-> "client", for |-> n + 1, what |-> {n + 1}]
<1>1. /\ job = Idle /\ ~Granting /\ job.next # "delete" /\ tokens \in Seq(TokenRow)
      /\ tokens' = Append(tokens, row)
      /\ given' = given \union {[kind |-> "client", for |-> Len(tokens'), what |-> {Len(tokens')}]}
      /\ UNCHANGED <<par, codes, devices, seen, job, rotated, withdrawn, replayed, mistaken, crashes>>
  BY JobKind DEF ClientCredentials, Give, ghosts, Inv, TypeOK, Shape
<1>2. n \in Nat /\ row \in TokenRow /\ row.family = n + 1 /\ row.type = "access"
  BY <1>1 DEF Token, TokenRow
<1>3. ~Granting' /\ job'.next # "delete" /\ job'.next \notin {"access", "refresh"}
  BY <1>1 DEF Granting
<1> HIDE DEF row
<1>4. /\ tokens' \in Seq(TokenRow) /\ Len(tokens') = n + 1
      /\ DOMAIN tokens = 1..n /\ DOMAIN tokens' = 1..n + 1
      /\ \A t \in 1..n : tokens'[t] = tokens[t]
      /\ tokens'[n + 1] = row
  BY <1>1, <1>2, Inserted
<1>5. rotated \subseteq 1..n /\ withdrawn \subseteq 1..n /\ replayed \subseteq 1..n /\ mistaken \subseteq 1..n
  BY <1>4 DEF Inv, TypeOK, Shape, Families
<1>6. /\ new \in Answer /\ new.kind = "client" /\ new.for = n + 1 /\ new.what = {n + 1}
      /\ given' = given \union {new}
  BY <1>1, <1>2, <1>4 DEF Answer, TokenAnswers
<1> HIDE DEF new
<1>7. AnsweredOnce' /\ given' \subseteq Answer
  <2>1. \A a \in given : a.kind = "client" => a.for # n + 1
    BY <1>2, <1>4 DEF Inv, Marked
  <2>2. QED
    BY <1>6, <2>1, Given
<1>8. TypeOK'
  <2>1. Handed'
    <3>1. {n + 1} \subseteq DOMAIN tokens'
      BY <1>2, <1>4
    <3>2. QED
      BY <1>1, <1>4, <1>6, <3>1 DEF Inv, TypeOK, Handed, CodeAnswers
  <2>2. Shape'
    BY <1>1, <1>4, <1>5, <1>7 DEF Inv, TypeOK, Shape
  <2>3. QED
    BY <2>1, <2>2 DEF TypeOK
<1>9. Families'
  <2>1. \A t \in DOMAIN tokens' : tokens'[t].family \in 1..t
    BY <1>2, <1>4 DEF Inv, Families
  <2>2. QED
    BY <1>1, <1>2, <1>3, <1>4, <1>5, <2>1 DEF Families
<1>10. \A t \in 1..n : tokens[t].family # n + 1
  BY <1>2, <1>4 DEF Inv, Families
<1>11. Rotation'
  <2>1. ReplayEndsFamily'
    BY <1>1, <1>2, <1>4, <1>5 DEF Inv, Rotation, ReplayEndsFamily
  <2>2. \A t \in rotated : tokens'[t].status # "active"
    BY <1>4, <1>5 DEF Inv, Rotation
  <2>3. ASSUME NEW t \in rotated \ withdrawn
        PROVE  tokens'[t].status = "used" \/ Over(tokens[t].family)'
    <3>1. t \in 1..n /\ tokens'[t] = tokens[t]
      BY <1>4, <1>5
    <3>2. CASE tokens[t].status = "used"
      BY <3>1, <3>2
    <3>3. CASE tokens[t].status # "used"
      <4>1. \A u \in 1..n : tokens[u].family = tokens[t].family => tokens[u].status = "revoked"
        BY <1>4, <3>3 DEF Inv, Rotation, Over
      <4>2. tokens[t].family # row.family
        BY <1>2, <1>10, <3>1
      <4>3. \A u \in 1..n + 1 : u \in 1..n \/ u = n + 1
        BY <1>2
      <4>4. QED
        BY <1>4, <3>1, <4>1, <4>2, <4>3 DEF Over
    <3>4. QED
      BY <3>2, <3>3
  <2>4. QED
    BY <1>1, <1>3, <2>1, <2>2, <2>3 DEF Rotation
<1>12. Single'
  BY <1>1, <1>2, <1>3, <1>4 DEF Inv, Single, OneTokenToRefresh
<1>13. Marked'
  <2>1. \A a \in given' : a \in given \/ a = new
    BY <1>6
  <2>2. \A a \in given : /\ a.kind = "refreshed" => a.for \in DOMAIN tokens' /\ tokens'[a.for].status # "active"
                        /\ a.kind = "client" => a.for \in DOMAIN tokens'
    BY <1>2, <1>4 DEF Inv, Marked
  <2>3. QED
    BY <1>1, <1>2, <1>4, <1>6, <2>1, <2>2 DEF Inv, Marked
<1>14. Pending'
  BY <1>3 DEF Pending
<1>15. QED
  BY <1>7, <1>8, <1>9, <1>11, <1>12, <1>13, <1>14 DEF Inv

\* Devices and proofs: only answers and marks change.
LEMMA DeviceStep ==
  ASSUME Inv, NEW d \in Device, NEW approved \in BOOLEAN, DeviceCode(d) \/ DeviceVerify(d, approved)
  PROVE  Inv'
<1>1. UNCHANGED <<par, codes, tokens, seen, job, given, ghosts, crashes>>
  BY DEF DeviceCode, DeviceVerify
<1>2. devices' \in [Device -> {"new", "pending", "approved", "denied"}]
  BY DEF DeviceCode, DeviceVerify, Inv, TypeOK, Shape
<1>3. Families' /\ Rotation' /\ Single'
  BY <1>1, Quiet DEF Inv
<1>4. TypeOK' /\ Marked' /\ AnsweredOnce'
  BY <1>1, <1>2 DEF Inv, TypeOK, Shape, Handed, Marked, AnsweredOnce, ghosts
<1>5. Pending'
  BY <1>1 DEF Inv, Pending, Granting
<1>6. QED
  BY <1>3, <1>4, <1>5 DEF Inv

LEMMA ExchangeDeviceStep ==
  ASSUME Inv, NEW d \in Device, ExchangeDevice(d)
  PROVE  Inv'
<1> DEFINE new == [kind |-> "device", for |-> d, what |-> {}]
<1>1. /\ job = Idle /\ ~Granting /\ job.next # "delete" /\ given' = given \union {new}
      /\ UNCHANGED <<par, codes, tokens, devices, seen, job, ghosts, crashes>>
  BY JobKind DEF ExchangeDevice, Give, tables, Inv, TypeOK
<1>2. /\ new \in Answer /\ new.kind = "device" /\ new.for = d /\ new.what = {}
  BY DEF Answer
<1> HIDE DEF new
<1>3. AnsweredOnce' /\ given' \subseteq Answer
  <2>1. \A a \in given : a.kind = "device" => a.what = {}
    BY DEF Inv, Marked
  <2>2. QED
    BY <1>1, <1>2, <2>1, Given
<1>4. Families' /\ Rotation' /\ Single'
  BY <1>1, Quiet DEF Inv
<1>5. TypeOK'
  BY <1>1, <1>2, <1>3 DEF Inv, TypeOK, Shape, Handed, ghosts, CodeAnswers, TokenAnswers
<1>6. Marked'
  BY <1>1, <1>2 DEF Inv, Marked
<1>7. Pending'
  BY <1>1 DEF Pending, Granting
<1>8. QED
  BY <1>3, <1>4, <1>5, <1>6, <1>7 DEF Inv

LEMMA ResourceStep ==
  ASSUME Inv, NEW j \in Proof, NEW good \in BOOLEAN, ProtectedResource(j, good)
  PROVE  Inv'
<1>1. /\ job = Idle /\ ~Granting /\ job.next # "delete" /\ seen' = seen \union {j} /\ j \notin seen
      /\ UNCHANGED <<par, codes, tokens, devices, job, ghosts, crashes>>
  BY JobKind DEF ProtectedResource, Seen, Inv, TypeOK
<1>2. Families' /\ Rotation' /\ Single'
  BY <1>1, Quiet DEF Inv
<1>3. Pending'
  BY <1>1 DEF Pending, Granting
<1>4. CASE given' = given
  <2>1. TypeOK' /\ Marked' /\ AnsweredOnce'
    BY <1>1, <1>4 DEF Inv, TypeOK, Shape, Handed, Marked, AnsweredOnce, ghosts
  <2>2. QED
    BY <1>2, <1>3, <2>1 DEF Inv
<1>5. CASE good
  <2> DEFINE others == {a \in given : a.kind = "resource" /\ a.for = j}
             new == [kind |-> "resource", for |-> j, what |-> {Cardinality(others)}]
  <2>1. others = {}
    BY <1>1 DEF Inv, Marked
  <2>2. Cardinality(others) = 0
    BY <2>1, FS_EmptySet
  <2>3. new \in Answer /\ new.kind = "resource" /\ new.for = j /\ given' = given \union {new}
    BY <1>5, <2>2 DEF Answer, ProtectedResource, Give
  <2> HIDE DEF new
  <2>4. AnsweredOnce' /\ given' \subseteq Answer
    BY <2>1, <2>3, Given
  <2>5. TypeOK'
    BY <1>1, <2>3, <2>4 DEF Inv, TypeOK, Shape, Handed, ghosts, CodeAnswers, TokenAnswers
  <2>6. Marked'
    BY <1>1, <2>3 DEF Inv, Marked
  <2>7. QED
    BY <1>2, <1>3, <2>4, <2>5, <2>6 DEF Inv
<1>6. QED
  BY <1>4, <1>5 DEF ProtectedResource

\* A crash ends the grant under way, and with it what was asked of its family.
LEMMA CrashStep ==
  ASSUME Inv, Crash
  PROVE  Inv'
<1>1. job' = Idle /\ UNCHANGED <<par, codes, tokens, devices, seen, given, ghosts>> /\ crashes' = crashes + 1
  BY DEF Crash, tables
<1>2. ~Granting' /\ job'.next # "delete" /\ job'.next \notin {"access", "refresh"}
  BY <1>1 DEF Idle, Granting
<1>3. Families' /\ Rotation' /\ Single'
  BY <1>1, <1>2, Quiet DEF Inv
<1>4. TypeOK' /\ Marked' /\ AnsweredOnce'
  BY <1>1 DEF Inv, TypeOK, Shape, Handed, Marked, AnsweredOnce, ghosts
<1>5. Pending'
  BY <1>2 DEF Pending
<1>6. QED
  BY <1>3, <1>4, <1>5 DEF Inv

LEMMA Initial == Init => Inv
<1> SUFFICES ASSUME Init PROVE Inv
  OBVIOUS
<1> USE DEF Init, Idle
<1>1. TypeOK
  BY DEF TypeOK, Shape, Handed
<1>2. Families /\ Rotation /\ Single
  BY DEF Families, Rotation, Single, ReplayEndsFamily, OneTokenToRefresh, Granting
<1>3. Marked /\ Pending /\ AnsweredOnce
  BY DEF Marked, Pending, AnsweredOnce, Granting
<1>4. QED
  BY <1>1, <1>2, <1>3 DEF Inv

LEMMA Steps == Inv /\ [Next]_vars => Inv'
<1> SUFFICES ASSUME Inv, [Next]_vars PROVE Inv'
  OBVIOUS
<1>1. ASSUME NEW t \in KnownTokens, Refresh(t) PROVE Inv'
  <2>1. t \in DOMAIN tokens
    BY <1>1, KnownExist
  <2>2. QED
    BY <1>1, <2>1, ReuseStep, RotateStep
<1>2. ASSUME NEW t \in KnownTokens, Revoke(t) PROVE Inv'
  BY <1>2, KnownExist, RevokeStep
<1>3. ASSUME NEW c \in KnownCodes, ExchangeCode(c) PROVE Inv'
  BY <1>3, KnownExist, ExchangeStep
<1>4. ASSUME NEW d \in Device, DeviceCode(d) PROVE Inv'
  BY <1>4, DeviceStep
<1>5. CASE UNCHANGED vars
  <2>1. UNCHANGED <<par, codes, tokens, devices, seen, job, given, ghosts, crashes>>
    BY <1>5 DEF vars, tables
  <2>2. Families' /\ Rotation' /\ Single'
    BY <2>1, Quiet DEF Inv
  <2>3. TypeOK' /\ Marked' /\ AnsweredOnce'
    BY <2>1 DEF Inv, TypeOK, Shape, Handed, Marked, AnsweredOnce, ghosts
  <2>4. Pending'
    BY <2>1 DEF Inv, Pending, Granting
  <2>5. QED
    BY <2>2, <2>3, <2>4 DEF Inv
<1>6. QED
  BY <1>1, <1>2, <1>3, <1>4, <1>5, RequestStep, DeleteStep, DirectStep, AccessStep, RefreshStep,
     ClientStep, DeviceStep, ExchangeDeviceStep, ResourceStep, CrashStep DEF Next

LEMMA Invariant == Spec => []Inv
BY Initial, Steps, PTL DEF Spec

\* Every variable keeps its type and clients are given rows that exist.
THEOREM Typed == Spec => []TypeOK
<1>1. Inv => TypeOK
  BY DEF Inv
<1>2. QED
  BY <1>1, Invariant, PTL

\* The reuse of a rotated refresh token (token, line 259) ends its family for good.
THEOREM ReuseEndsFamily == Spec => []ReplayEndsFamily
<1>1. Inv => ReplayEndsFamily
  BY DEF Inv, Rotation
<1>2. QED
  BY <1>1, Invariant, PTL

\* However many times its tokens are rotated, a family has one that can be next.
THEOREM RotationLeavesOne == Spec => []OneTokenToRefresh
<1>1. Inv => OneTokenToRefresh
  BY DEF Inv, Single
<1>2. QED
  BY <1>1, Invariant, PTL

\* Requests, codes, refresh tokens and proofs are honoured once each, wherever the
\* server crashes.
THEOREM HonouredOnce == Spec => []AnsweredOnce
<1>1. Inv => AnsweredOnce
  BY DEF Inv
<1>2. QED
  BY <1>1, Invariant, PTL
================================================================================
