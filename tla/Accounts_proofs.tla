-------------------------- MODULE Accounts_proofs --------------------------
(* Theorems about Accounts: types, and the five properties of its run, for   *)
(* any requests, organizations, users, tokens and faults.                    *)
EXTENDS Accounts, FiniteSetTheorems, SequenceTheorems, TLAPS

-----------------------------------------------------------------------------
(* The inductive invariant.                                                  *)

Making == {"insert user", "undo", "commit"}
Exchange == {"mark", "issue"}
Resetting == {"password", "links"}
Personal == {"link", "sweep"} \cup Exchange \cup Resetting

\* What a request has read is still so, of the tenants, users and tokens.
Agrees(c, hs, us, ts) ==
  /\ c.at \in Making => c.slug \in hs
  /\ c.at = "commit" => c.role \in Role
  /\ c.at \in Personal => c.user \in 1..Len(us)
  /\ c.at \in {"mark"} \cup Resetting => c.tok # None
  /\ c.tok # None =>
       /\ c.tok \in 1..Len(ts) /\ ts[c.tok].user = c.user
       /\ \/ c.at \in Exchange /\ ts[c.tok].kind \in {"session", "code", "grant"}
          \/ c.at \in Resetting /\ ts[c.tok].kind = "reset"

Knows(c) == Agrees(c, held, users, tokens)

KnowInv == \A h \in Handler : Busy(h) => Knows(ctx[h])

\* The bounds leave room for what requests are about to insert.
RoomInv ==
  /\ Len(tokens) + Cardinality(Coming) <= MaxTokens
  /\ Len(users) + Cardinality(Newcomers) <= MaxUsers

\* Rows refer to rows, and what history counts are rows.
RowInv ==
  /\ \A t \in 1..Len(tokens) : tokens[t].user \in 1..Len(users)
  /\ \A u \in User : swept[u] <= Len(tokens) /\ reset[u] <= Len(tokens)

\* A token no two requests raced for: one request holds it at most, it has not
\* done anything before it is marked, and it is marked or about to be after.
UseInv ==
  \A t \in Token \ raced :
    /\ uses[t] <= 1
    /\ uses[t] = 1 =>
         t \in 1..Len(tokens) /\ (tokens[t].used \/ \E h \in Handler : At(h, "links") /\ ctx[h].tok = t)
    /\ \A h \in Handler : Busy(h) /\ ctx[h].tok = t =>
         /\ Exchanging(h, t) = {}
         /\ ctx[h].at \in Exchange \cup {"password"} => uses[t] = 0
         /\ ctx[h].at = "issue" => tokens[t].used

\* A request exchanges a session, and no sweep has come between.
Trading(h) ==
  /\ Busy(h) /\ ctx[h].tok # None /\ ctx[h].at \in Exchange /\ ~ctx[h].late
  /\ tokens[ctx[h].tok].kind = "session"

\* What lives, and what a request is exchanging, is younger than the sweep.
SweepInv ==
  /\ \A t \in 1..Len(tokens) : tokens[t].kind = "session" /\ ~tokens[t].used =>
       /\ t > swept[tokens[t].user]
       /\ t \notin raced /\ tokens[t].parent # None => tokens[t].parent > swept[tokens[t].user]
  /\ \A h \in Handler : Trading(h) => ctx[h].tok > swept[ctx[h].user]

\* A link older than the last reset is about to be marked.
ResetInv ==
  \A t \in 1..Len(tokens) \ raced : tokens[t].kind = "reset" /\ ~tokens[t].used =>
    \/ t > reset[tokens[t].user]
    \/ \E h \in Handler : At(h, "links") /\ ctx[h].user = tokens[t].user

\* The list of a chosen token is never the empty one.
ScopeInv ==
  \A t \in 1..Len(tokens) : tokens[t].kind \in {"code", "grant", "key"} =>
    tokens[t].scopes # {} /\ tokens[t].scopes \subseteq tokens[t].asked \cup DefaultScopes

\* Requests that work on a tenant; a registration works alone on its own.
Maker(h) == Busy(h) /\ ctx[h].at \in Making
Registering(h) == At(h, "insert user") \/ At(h, "undo")

Alone(h) ==
  /\ \A u \in 1..Len(users) : users[u].slug # ctx[h].slug
  /\ \A g \in Handler \ {h} : Maker(g) => ctx[g].slug # ctx[h].slug

\* A tenant has an owner, or is being registered.
HeldInv ==
  /\ \A u \in 1..Len(users) : users[u].slug \in held
  /\ \A s \in held \ lost :
       Owners(s) # {} \/ \E h \in Handler : Registering(h) /\ ctx[h].slug = s
  /\ \A h \in Handler : Registering(h) => Alone(h)

\* A creation of an owner has seen every owner it will meet.
SeesOwners(h) ==
  /\ \A u \in ctx[h].demoted : u \in 1..Len(users) /\ users[u].slug = ctx[h].slug
  /\ ctx[h].role # "owner" => ctx[h].demoted = {}
  /\ ctx[h].role = "owner" /\ ctx[h].slug \notin crowned =>
       /\ \A u \in Owners(ctx[h].slug) : u \in ctx[h].demoted
       /\ \A g \in Handler \ {h} :
            ~(At(g, "commit") /\ ctx[g].slug = ctx[h].slug /\ ctx[g].role = "owner")

OwnerInv ==
  /\ \A s \in Slug \ crowned : \A u, v \in Owners(s) : u = v
  /\ \A h \in Handler : At(h, "commit") => SeesOwners(h)

IInv ==
  /\ TypeOK /\ KnowInv /\ RoomInv /\ RowInv
  /\ UseInv /\ SweepInv /\ ResetInv /\ ScopeInv /\ HeldInv /\ OwnerInv

-----------------------------------------------------------------------------
(* Sequences and what the types say of them.                                 *)

LEMMA Appended ==
  ASSUME NEW S, NEW s \in Seq(S), NEW e \in S
  PROVE  /\ Append(s, e) \in Seq(S) /\ Len(Append(s, e)) = Len(s) + 1
         /\ \A i \in 1..Len(s) : Append(s, e)[i] = s[i]
         /\ Append(s, e)[Len(s) + 1] = e
OBVIOUS

LEMMA Listed ==
  ASSUME NEW S, NEW n \in Nat, NEW f \in [1..n -> S]
  PROVE  f \in Seq(S) /\ Len(f) = n
<1>1. f \in Seq(S)
  BY SeqDef
<1>2. QED
  BY <1>1

LEMMA TokenTypes ==
  ASSUME TypeOK
  PROVE  /\ Len(tokens) \in 0..MaxTokens /\ Len(users) \in Nat \ {0}
         /\ \A t \in 1..Len(tokens) : t \in Token /\ tokens[t] \in TokenRow
         /\ \A u \in 1..Len(users) : u \in User /\ users[u] \in UserRow
BY BoundAssumption DEF TypeOK, Token, User

LEMMA Revoked ==
  ASSUME TypeOK, NEW hit
  PROVE  /\ Revoke(hit) \in Seq(TokenRow) /\ Len(Revoke(hit)) = Len(tokens)
         /\ \A t \in 1..Len(tokens) :
              Revoke(hit)[t] = IF t \in hit THEN [tokens[t] EXCEPT !.used = TRUE] ELSE tokens[t]
<1>1. Revoke(hit) \in [1..Len(tokens) -> TokenRow]
  BY TokenTypes DEF Revoke, TokenRow
<1>2. QED
  BY <1>1, Listed, TokenTypes DEF Revoke

LEMMA NewRow ==
  ASSUME NEW kind \in Kind, NEW u \in User
  PROVE  Row(kind, u) \in TokenRow
BY DEF Row, TokenRow

LEMMA Contexts ==
  ASSUME TypeOK, NEW h \in Handler, Busy(h)
  PROVE  /\ ctx[h] \in Context
         /\ \A step \in {"undo", "issue", "links"} : [ctx EXCEPT ![h].at = step] \in [Handler -> Context \cup {None}]
         /\ [ctx EXCEPT ![h] = None] \in [Handler -> Context \cup {None}]
<1>1. ctx[h] \in Context
  BY DEF TypeOK, Busy
<1>2. \A step \in {"undo", "issue", "links"} : [ctx[h] EXCEPT !.at = step] \in Context
  BY <1>1 DEF Context
<1>3. QED
  BY <1>1, <1>2 DEF TypeOK

LEMMA Started ==
  ASSUME TypeOK, NEW h \in Handler, NEW c \in Context, Start(h, c)
  PROVE  ctx' \in [Handler -> Context \cup {None}] /\ begun' \in 0..MaxOps
BY BoundAssumption DEF TypeOK, Start

LEMMA Zero == 0 \in 0..MaxUsers
BY BoundAssumption

LEMMA FreshMaker ==
  ASSUME NEW step \in {"insert user", "commit"}, NEW s \in Slug,
         NEW role \in Role \cup {"none"}, NEW demoted \in SUBSET User
  PROVE  /\ [Idle EXCEPT !.at = step, !.slug = s] \in Context
         /\ [Idle EXCEPT !.at = step, !.slug = s, !.role = role, !.demoted = demoted] \in Context
BY Zero DEF Idle, Context

LEMMA FreshHolder ==
  ASSUME NEW step \in {"link", "issue", "sweep", "mark", "password"},
         NEW t \in Token \cup {None}, NEW u \in 0..MaxUsers
  PROVE  /\ [Idle EXCEPT !.at = step, !.user = u] \in Context
         /\ [Idle EXCEPT !.at = step, !.tok = t, !.user = u] \in Context
BY DEF Idle, Context

LEMMA Rooms ==
  ASSUME TypeOK
  PROVE  /\ IsFiniteSet(Coming) /\ IsFiniteSet(Newcomers)
         /\ Cardinality(Coming) \in Nat /\ Cardinality(Newcomers) \in Nat
         /\ \A h \in Coming : Cardinality(Coming) >= 1
         /\ \A h \in Newcomers : Cardinality(Newcomers) >= 1
<1>1. Coming \subseteq Handler /\ Newcomers \subseteq Handler
  BY DEF Coming, Newcomers
<1>2. IsFiniteSet(Coming) /\ IsFiniteSet(Newcomers)
  BY <1>1, HandlerAssumption, FS_Subset
<1>3. QED
  BY <1>2, FS_CardinalityType, FS_EmptySet

-----------------------------------------------------------------------------
(* Types, action by action.                                                  *)

LEMMA FaultTypes ==
  ASSUME TypeOK, Fine \/ Fault
  PROVE  faults' \in 0..FaultBudget
BY BoundAssumption DEF TypeOK, Fine, Fault

LEMMA InsertTenantTypes ==
  ASSUME TypeOK, NEW h \in Handler, NEW s \in Slug, InsertTenant(h, s)
  PROVE  TypeOK'
<1>1. [Idle EXCEPT !.at = "insert user", !.slug = s] \in Context
  BY FreshMaker
<1>2. ctx' \in [Handler -> Context \cup {None}] /\ begun' \in 0..MaxOps
  BY <1>1, Started DEF InsertTenant
<1>3. QED
  BY <1>2 DEF TypeOK, InsertTenant, history

LEMMA InsertUserTypes ==
  ASSUME TypeOK, KnowInv, RoomInv, NEW h \in Handler, InsertUser(h)
  PROVE  TypeOK'
<1> DEFINE u == Len(users) + 1
<1>1. /\ Busy(h) /\ h \in Newcomers /\ ctx[h] \in Context
  BY Contexts DEF InsertUser, At, Newcomers
<1>2. u <= MaxUsers /\ u \in User /\ u \in 0..MaxUsers
  BY <1>1, Rooms, TokenTypes, BoundAssumption DEF RoomInv, User
<1>3. ctx[h].slug \in Slug
  BY <1>1 DEF KnowInv, Knows, Agrees, Making, InsertUser, At, TypeOK
<1>4. NewUser(ctx[h].slug, "owner") \in UserRow
  BY <1>3 DEF NewUser, UserRow, Role
<1>5. users' \in Seq(UserRow) /\ Len(users') \in 1..MaxUsers
  <2>1. CASE users' = Append(users, NewUser(ctx[h].slug, "owner"))
    BY <2>1, <1>2, <1>4, Appended, TokenTypes DEF TypeOK
  <2>2. QED
    BY <2>1 DEF InsertUser, TypeOK
<1>6. ctx' \in [Handler -> Context \cup {None}]
  <2>1. [ctx[h] EXCEPT !.at = "issue", !.user = u] \in Context
    BY <1>1, <1>2 DEF Context
  <2>2. CASE ctx' = [ctx EXCEPT ![h].at = "issue", ![h].user = u]
    <3>1. ctx' = [ctx EXCEPT ![h] = [ctx[h] EXCEPT !.at = "issue", !.user = u]]
      BY <2>2
    <3>2. QED
      BY <2>1, <3>1 DEF TypeOK
  <2>3. CASE Goto(h, "undo") \/ Leave(h)
    BY <1>1, <2>3, Contexts DEF Goto, Leave
  <2>4. QED
    BY <2>2, <2>3 DEF InsertUser
<1>7. faults' \in 0..FaultBudget
  BY FaultTypes DEF InsertUser
<1>8. QED
  BY <1>5, <1>6, <1>7 DEF TypeOK, InsertUser, history

LEMMA DeleteTenantTypes ==
  ASSUME TypeOK, KnowInv, NEW h \in Handler, DeleteTenant(h)
  PROVE  TypeOK'
<1>1. Busy(h) /\ ctx[h].slug \in Slug
  BY DEF KnowInv, Knows, Agrees, Making, DeleteTenant, At, TypeOK
<1>2. ctx' \in [Handler -> Context \cup {None}]
  BY <1>1, Contexts DEF DeleteTenant, Leave
<1>3. faults' \in 0..FaultBudget
  BY FaultTypes DEF DeleteTenant
<1>4. QED
  BY <1>1, <1>2, <1>3 DEF TypeOK, DeleteTenant

LEMMA BeginCreateTypes ==
  ASSUME TypeOK, NEW h \in Handler, NEW s \in Slug, NEW role \in Role, BeginCreate(h, s, role)
  PROVE  TypeOK'
<1>1. Demoted(s, role) \in SUBSET User
  BY TokenTypes DEF Demoted, Owners
<1>2. [Idle EXCEPT !.at = "commit", !.slug = s, !.role = role, !.demoted = Demoted(s, role)] \in Context
  BY <1>1, FreshMaker
<1>3. ctx' \in [Handler -> Context \cup {None}] /\ begun' \in 0..MaxOps
  BY <1>2, Started DEF BeginCreate
<1>4. crowned' \subseteq Slug
  BY DEF TypeOK, BeginCreate
<1>5. QED
  BY <1>3, <1>4 DEF TypeOK, BeginCreate, rows

LEMMA CommitCreateTypes ==
  ASSUME TypeOK, KnowInv, RoomInv, NEW h \in Handler, CommitCreate(h)
  PROVE  TypeOK'
<1> DEFINE c == ctx[h]
           old == [u \in 1..Len(users) |->
                     IF u \in c.demoted THEN [users[u] EXCEPT !.role = "admin"] ELSE users[u]]
<1>1. Busy(h) /\ h \in Newcomers /\ h \in Coming /\ c \in Context
  BY Contexts DEF CommitCreate, At, Newcomers, Coming
<1>2. Len(users) + 1 \in User /\ Len(tokens) + 1 <= MaxTokens
  BY <1>1, Rooms, TokenTypes, BoundAssumption DEF RoomInv, User
<1>3. c.slug \in Slug /\ c.role \in Role
  BY <1>1 DEF KnowInv, Knows, Agrees, Making, CommitCreate, At, TypeOK
<1>4. NewUser(c.slug, c.role) \in UserRow
  BY <1>3 DEF NewUser, UserRow
<1>5. old \in Seq(UserRow) /\ Len(old) = Len(users)
  <2>1. old \in [1..Len(users) -> UserRow]
    BY TokenTypes DEF UserRow, Role
  <2>2. QED
    BY <2>1, Listed, TokenTypes
<1>6. users' \in Seq(UserRow) /\ Len(users') \in 1..MaxUsers
  <2>1. CASE users' = Append(old, NewUser(c.slug, c.role))
    <3> HIDE DEF old
    <3>1. QED
      BY <2>1, <1>2, <1>4, <1>5, Appended, TokenTypes DEF User
  <2>2. QED
    BY <2>1 DEF CommitCreate, TypeOK
<1>7. tokens' \in Seq(TokenRow) /\ Len(tokens') <= MaxTokens
  <2>1. Row("reset", Len(users) + 1) \in TokenRow
    BY <1>2, NewRow DEF Kind
  <2>2. CASE tokens' = Append(tokens, Row("reset", Len(users) + 1))
    BY <2>1, <2>2, <1>2, Appended, TokenTypes DEF TypeOK
  <2>3. QED
    BY <2>2 DEF CommitCreate, TypeOK
<1>8. ctx' \in [Handler -> Context \cup {None}] /\ faults' \in 0..FaultBudget
  BY <1>1, Contexts, FaultTypes DEF CommitCreate, Leave
<1>9. QED
  BY <1>6, <1>7, <1>8 DEF TypeOK, CommitCreate, history

LEMMA LoginTypes ==
  ASSUME TypeOK, NEW h \in Handler, NEW u \in User, Login(h, u) \/ ForgotPassword(h, u)
  PROVE  TypeOK'
<1>1. u \in 0..MaxUsers
  BY BoundAssumption DEF User
<1>2. ctx' \in [Handler -> Context \cup {None}] /\ begun' \in 0..MaxOps
  BY <1>1, FreshHolder, Started DEF Login, ForgotPassword
<1>3. UNCHANGED <<rows, history, faults>>
  BY DEF Login, ForgotPassword
<1>4. QED
  BY <1>2, <1>3 DEF TypeOK, rows, history

LEMMA Capped ==
  ASSUME NEW chosen, NEW role \in Role
  PROVE  /\ CapScopes(chosen, role) \in SUBSET {"read", "operate", "own"}
         /\ CapScopes(chosen, role) # {}
         /\ CapScopes(chosen, role) \subseteq chosen \cup DefaultScopes
<1>1. ScopesForRole(role) \subseteq {"read", "operate", "own"} /\ "read" \in ScopesForRole(role)
  BY DEF ScopesForRole, Role
<1>2. QED
  BY <1>1 DEF CapScopes, DefaultScopes

LEMMA ChosenRow ==
  ASSUME TypeOK, NEW h \in Handler, NEW u \in User, NEW kind \in {"code", "key"}, NEW role \in Role,
         NEW chosen \in Requests, Choose(h, u, kind, role, chosen)
  PROVE  \E r \in TokenRow :
           /\ tokens' = Append(tokens, r)
           /\ r.kind = kind /\ r.user = u /\ ~r.used /\ r.parent = None
           /\ r.scopes = CapScopes(chosen, role) /\ r.asked = chosen
<1> DEFINE r == [Row(kind, u) EXCEPT !.scopes = CapScopes(chosen, role), !.asked = chosen]
<1>1. /\ r \in TokenRow /\ tokens' = Append(tokens, r)
      /\ r.kind = kind /\ r.user = u /\ ~r.used /\ r.parent = None
      /\ r.scopes = CapScopes(chosen, role) /\ r.asked = chosen
  BY Capped DEF Choose, Row, TokenRow, Kind
<1> HIDE DEF r
<1>2. QED
  BY <1>1

LEMMA Roomy ==
  ASSUME TypeOK, Room
  PROVE  Len(tokens) + 1 <= MaxTokens
BY Rooms, TokenTypes, BoundAssumption DEF Room

LEMMA ChooseTypes ==
  ASSUME TypeOK, NEW h \in Handler, NEW u \in User, NEW kind \in {"code", "key"}, NEW role \in Role,
         NEW chosen \in Requests, Choose(h, u, kind, role, chosen)
  PROVE  TypeOK'
<1>1. PICK r \in TokenRow : tokens' = Append(tokens, r)
  BY ChosenRow
<1>2. tokens' \in Seq(TokenRow) /\ Len(tokens') = Len(tokens) + 1
  BY <1>1, Appended DEF TypeOK
<1>3. Len(tokens) + 1 <= MaxTokens
  BY Roomy DEF Choose
<1>4. begun' \in 0..MaxOps
  BY BoundAssumption DEF TypeOK, Choose
<1>5. QED
  BY <1>2, <1>3, <1>4 DEF TypeOK, Choose, history

LEMMA InsertLinkTypes ==
  ASSUME TypeOK, KnowInv, RoomInv, NEW h \in Handler, InsertLink(h)
  PROVE  TypeOK'
<1>1. Busy(h) /\ h \in Coming
  BY DEF InsertLink, At, Coming
<1>2. ctx[h].user \in User /\ Len(tokens) + 1 <= MaxTokens
  BY <1>1, Rooms, TokenTypes, BoundAssumption
  DEF RoomInv, KnowInv, Knows, Agrees, Personal, InsertLink, At
<1>3. tokens' \in Seq(TokenRow) /\ Len(tokens') <= MaxTokens
  <2>1. Row("reset", ctx[h].user) \in TokenRow
    BY <1>2, NewRow DEF Kind
  <2>2. CASE tokens' = Append(tokens, Row("reset", ctx[h].user))
    BY <2>1, <2>2, <1>2, Appended, TokenTypes DEF TypeOK
  <2>3. QED
    BY <2>2 DEF InsertLink, TypeOK
<1>4. ctx' \in [Handler -> Context \cup {None}] /\ faults' \in 0..FaultBudget
  BY <1>1, Contexts, FaultTypes DEF InsertLink, Leave
<1>5. QED
  BY <1>3, <1>4 DEF TypeOK, InsertLink, history

LEMMA SelectTypes ==
  ASSUME TypeOK, NEW h \in Handler, NEW t \in Token, Select(h, t)
  PROVE  TypeOK'
<1>1. t \in 1..Len(tokens)
  BY TokenTypes DEF Select, Token
<1>2. tokens[t].user \in 0..MaxUsers
  BY <1>1, TokenTypes, BoundAssumption DEF TokenRow, User
<1>3. ctx' \in [Handler -> Context \cup {None}] /\ begun' \in 0..MaxOps
  BY <1>2, FreshHolder, Started DEF Select
<1>4. raced' \subseteq Token
  BY DEF TypeOK, Select
<1>5. QED
  BY <1>3, <1>4 DEF TypeOK, Select, rows

LEMMA SelectUsedTypes ==
  ASSUME TypeOK, NEW h \in Handler, NEW t \in Token, SelectUsed(h, t)
  PROVE  TypeOK'
<1>1. t \in 1..Len(tokens)
  BY TokenTypes DEF SelectUsed, Token
<1>2. tokens[t].user \in 0..MaxUsers
  BY <1>1, TokenTypes, BoundAssumption DEF TokenRow, User
<1>3. ctx' \in [Handler -> Context \cup {None}] /\ begun' \in 0..MaxOps
  BY <1>2, FreshHolder, Started DEF SelectUsed
<1>4. QED
  BY <1>3 DEF TypeOK, SelectUsed, rows, history

LEMMA MarkTypes ==
  ASSUME TypeOK, KnowInv, NEW h \in Handler, Mark(h)
  PROVE  TypeOK'
<1>1. Busy(h) /\ ctx[h].tok \in Token
  BY TokenTypes DEF Mark, At, KnowInv, Knows, Agrees
<1>2. ctx' \in [Handler -> Context \cup {None}] /\ faults' \in 0..FaultBudget
  BY <1>1, Contexts, FaultTypes DEF Mark, Goto
<1>3. tokens' \in Seq(TokenRow) /\ Len(tokens') <= MaxTokens
  BY Revoked DEF TypeOK, Mark
<1>4. raced' \subseteq Token
  BY <1>1 DEF TypeOK, Mark
<1>5. QED
  BY <1>2, <1>3, <1>4 DEF TypeOK, Mark

LEMMA IssuedRow ==
  ASSUME TypeOK, KnowInv, NEW h \in Handler, At(h, "issue")
  PROVE  LET c == ctx[h]  r == NewToken(c) IN
         /\ r \in TokenRow /\ ~r.used /\ r.user = c.user /\ r.kind # "reset" /\ r.parent = c.tok
         /\ r.kind \in {"code", "grant", "key"} =>
              /\ c.tok # None /\ tokens[c.tok].kind \in {"code", "grant"}
              /\ r.scopes = tokens[c.tok].scopes /\ r.asked = tokens[c.tok].asked
         /\ r.kind = "session" /\ c.tok # None => tokens[c.tok].kind = "session"
<1> DEFINE c == ctx[h]
           k == tokens[c.tok]
<1>1. Busy(h) /\ Knows(c) /\ c.at = "issue" /\ c.user \in User
  BY TokenTypes DEF At, KnowInv, Knows, Agrees, Personal, Exchange
<1>2. CASE c.tok = None
  <2>1. NewToken(c) = Row("session", c.user)
    BY <1>2 DEF NewToken
  <2>2. Row("session", c.user) \in TokenRow
    BY <1>1, NewRow DEF Kind
  <2>3. QED
    BY <1>2, <2>1, <2>2 DEF Row
<1>3. CASE c.tok # None
  <2>1. /\ c.tok \in Token /\ k \in TokenRow /\ k.user = c.user
        /\ k.kind \in {"session", "code", "grant"}
    BY <1>1, <1>3, TokenTypes DEF Knows, Agrees, Exchange, Resetting
  <2>2. NewToken(c) = [k EXCEPT !.kind = Successor(k.kind), !.used = FALSE, !.parent = c.tok]
    BY <1>3 DEF NewToken
  <2>3. Successor(k.kind) = (IF k.kind = "session" THEN "session" ELSE "grant")
    BY DEF Successor
  <2>4. Successor(k.kind) \in Kind
    BY <2>3 DEF Kind
  <2> DEFINE r == NewToken(c)
  <2>5. /\ r \in TokenRow /\ ~r.used /\ r.user = k.user /\ r.parent = c.tok
        /\ r.kind = Successor(k.kind) /\ r.scopes = k.scopes /\ r.asked = k.asked
    <3> DEFINE n == Successor(k.kind)
    <3>1. r = [k EXCEPT !.kind = n, !.used = FALSE, !.parent = c.tok] /\ n \in Kind
      BY <2>2, <2>4
    <3> HIDE DEF k, n, r
    <3>2. r \in TokenRow
      BY <2>1, <3>1 DEF TokenRow
    <3>3. ~r.used /\ r.user = k.user /\ r.parent = c.tok /\ r.kind = n
      BY <2>1, <3>1 DEF TokenRow
    <3>4. r.scopes = k.scopes /\ r.asked = k.asked
      BY <2>1, <3>1 DEF TokenRow
    <3>5. QED
      BY <3>2, <3>3, <3>4 DEF n
  <2> HIDE DEF r
  <2>6. QED
    BY <1>3, <2>1, <2>3, <2>5 DEF r
<1>4. QED
  BY <1>2, <1>3

LEMMA IssueTypes ==
  ASSUME TypeOK, KnowInv, RoomInv, NEW h \in Handler, Issue(h)
  PROVE  TypeOK'
<1>1. Busy(h) /\ h \in Coming /\ At(h, "issue")
  BY DEF Issue, At, Coming
<1>2. Len(tokens) + 1 <= MaxTokens /\ Len(tokens) + 1 \in Token
  BY <1>1, Rooms, TokenTypes, BoundAssumption DEF RoomInv, Token
<1>3. tokens' \in Seq(TokenRow) /\ Len(tokens') <= MaxTokens
  <2>1. NewToken(ctx[h]) \in TokenRow
    BY <1>1, IssuedRow
  <2>2. CASE tokens' = Append(tokens, NewToken(ctx[h]))
    BY <2>1, <2>2, <1>2, Appended, TokenTypes DEF TypeOK
  <2>3. QED
    BY <2>2 DEF Issue, TypeOK
<1>4. uses' \in [Token -> Nat] /\ raced' \subseteq Token
  BY <1>2 DEF Issue, TypeOK
<1>5. ctx' \in [Handler -> Context \cup {None}] /\ faults' \in 0..FaultBudget
  BY <1>1, Contexts, FaultTypes DEF Issue, Leave
<1>6. QED
  BY <1>3, <1>4, <1>5 DEF TypeOK, Issue

LEMMA SweepTypes ==
  ASSUME TypeOK, KnowInv, NEW h \in Handler, Sweep(h)
  PROVE  TypeOK'
<1>1. Busy(h) /\ ctx[h].user \in User
  BY TokenTypes DEF Sweep, At, KnowInv, Knows, Agrees, Personal
<1>2. tokens' \in Seq(TokenRow) /\ Len(tokens') <= MaxTokens
  BY Revoked DEF TypeOK, Sweep
<1>3. swept' \in [User -> 0..MaxTokens]
  <2>1. swept' = swept \/ swept' = [swept EXCEPT ![ctx[h].user] = Len(tokens)]
    BY DEF Sweep
  <2>2. swept \in [User -> 0..MaxTokens] /\ Len(tokens) \in 0..MaxTokens
    BY TokenTypes DEF TypeOK
  <2>3. QED
    BY <1>1, <2>1, <2>2
<1>4. ctx' \in [Handler -> Context \cup {None}]
  <2>1. \A g \in Handler : Busy(g) => [ctx[g] EXCEPT !.late = TRUE] \in Context
    <3>1. \A c \in Context : [c EXCEPT !.late = TRUE] \in Context
      BY DEF Context
    <3>2. \A g \in Handler : Busy(g) => ctx[g] \in Context
      BY DEF TypeOK, Busy
    <3>3. QED
      BY <3>1, <3>2
  <2>2. CASE Leave(h)
    BY <1>1, <2>2, Contexts DEF Leave
  <2>3. CASE ~Leave(h)
    <3> DEFINE late(g) == Busy(g) /\ g # h /\ ctx[g].user = ctx[h].user /\ ctx[g].at \in {"mark", "issue"}
    <3>1. ctx' = [g \in Handler |->
             IF g = h THEN None ELSE IF late(g) THEN [ctx[g] EXCEPT !.late = TRUE] ELSE ctx[g]]
      BY <2>3 DEF Sweep
    <3>2. \A g \in Handler : ctx[g] \in Context \cup {None}
      BY DEF TypeOK
    <3>3. QED
      BY <2>1, <3>1, <3>2
  <2>4. QED
    BY <2>2, <2>3
<1>5. faults' \in 0..FaultBudget
  BY FaultTypes DEF Sweep
<1>6. QED
  BY <1>2, <1>3, <1>4, <1>5 DEF TypeOK, Sweep

LEMMA LogoutTypes ==
  ASSUME TypeOK, NEW h \in Handler, NEW t \in Token, Logout(h, t)
  PROVE  TypeOK'
<1>1. tokens' \in Seq(TokenRow) /\ Len(tokens') <= MaxTokens
  BY Revoked DEF TypeOK, Logout
<1>2. begun' \in 0..MaxOps
  BY BoundAssumption DEF TypeOK, Logout
<1>3. QED
  BY <1>1, <1>2 DEF TypeOK, Logout, history

LEMMA SetPasswordTypes ==
  ASSUME TypeOK, KnowInv, NEW h \in Handler, SetPassword(h)
  PROVE  TypeOK'
<1>1. Busy(h) /\ ctx[h].user \in User /\ ctx[h].tok \in Token
  BY TokenTypes DEF SetPassword, At, KnowInv, Knows, Agrees, Personal, Resetting
<1>2. uses' \in [Token -> Nat]
  <2>1. uses' = uses \/ uses' = [uses EXCEPT ![ctx[h].tok] = @ + 1]
    BY DEF SetPassword
  <2>2. uses \in [Token -> Nat]
    BY DEF TypeOK
  <2>3. QED
    BY <1>1, <2>1, <2>2
<1>3. reset' \in [User -> 0..MaxTokens]
  <2>1. reset' = reset \/ reset' = [reset EXCEPT ![ctx[h].user] = Len(tokens)]
    BY DEF SetPassword
  <2>2. reset \in [User -> 0..MaxTokens] /\ Len(tokens) \in 0..MaxTokens
    BY TokenTypes DEF TypeOK
  <2>3. QED
    BY <1>1, <2>1, <2>2
<1>4. ctx' \in [Handler -> Context \cup {None}] /\ faults' \in 0..FaultBudget
  BY <1>1, Contexts, FaultTypes DEF SetPassword, Goto, Leave
<1>5. QED
  BY <1>2, <1>3, <1>4 DEF TypeOK, SetPassword, rows

LEMMA SiblingTokens ==
  ASSUME TypeOK, NEW t
  PROVE  Siblings(t) \subseteq 1..Len(tokens) /\ Siblings(t) \subseteq Token
BY TokenTypes DEF Siblings

LEMMA MarkLinksTypes ==
  ASSUME TypeOK, NEW h \in Handler, MarkLinks(h)
  PROVE  TypeOK'
<1>1. Busy(h)
  BY DEF MarkLinks, At
<1>2. tokens' \in Seq(TokenRow) /\ Len(tokens') <= MaxTokens
  BY Revoked DEF TypeOK, MarkLinks
<1>3. raced' \subseteq Token
  BY SiblingTokens DEF TypeOK, MarkLinks
<1>4. ctx' \in [Handler -> Context \cup {None}] /\ faults' \in 0..FaultBudget
  BY <1>1, Contexts, FaultTypes DEF MarkLinks, Leave
<1>5. QED
  BY <1>2, <1>3, <1>4 DEF TypeOK, MarkLinks

LEMMA CutTypes ==
  ASSUME TypeOK, KnowInv, Fault, NEW hs \in SUBSET Handler, Cut(hs)
  PROVE  TypeOK'
<1>1. \A h \in Handler : At(h, "mark") \/ At(h, "links") => ctx[h].tok \in Token
  BY TokenTypes DEF At, KnowInv, Knows, Agrees, Resetting
<1>2. \A h \in Handler : At(h, "insert user") \/ At(h, "undo") => ctx[h].slug \in Slug
  BY DEF At, KnowInv, Knows, Agrees, Making, TypeOK
<1>3. raced' \subseteq Token
  <2>1. UNION {Siblings(ctx[h].tok) : h \in {g \in hs : At(g, "links")}} \subseteq Token
    BY SiblingTokens
  <2>2. {ctx[h].tok : h \in {g \in hs : At(g, "mark") \/ At(g, "links")}} \subseteq Token
    BY <1>1
  <2>3. QED
    BY <2>1, <2>2 DEF TypeOK, Cut
<1>4. lost' \subseteq Slug
  BY <1>2 DEF TypeOK, Cut
<1>5. ctx' \in [Handler -> Context \cup {None}]
  BY DEF TypeOK, Cut
<1>6. faults' \in 0..FaultBudget
  BY FaultTypes
<1>7. QED
  BY <1>3, <1>4, <1>5, <1>6 DEF TypeOK, Cut, rows

-----------------------------------------------------------------------------
(* Rows are added and marked; nothing else about them changes.               *)

TokensKept ==
  /\ Len(tokens') >= Len(tokens)
  /\ \A t \in 1..Len(tokens) :
       /\ tokens'[t].kind = tokens[t].kind /\ tokens'[t].user = tokens[t].user
       /\ tokens'[t].parent = tokens[t].parent
       /\ tokens'[t].scopes = tokens[t].scopes /\ tokens'[t].asked = tokens[t].asked
       /\ tokens[t].used => tokens'[t].used

LEMMA KeptByAppend ==
  ASSUME TypeOK, NEW r \in TokenRow, tokens' = Append(tokens, r)
  PROVE  /\ TokensKept /\ Len(tokens') = Len(tokens) + 1 /\ tokens'[Len(tokens) + 1] = r
         /\ \A t \in 1..Len(tokens) : tokens'[t] = tokens[t]
BY Appended, TokenTypes DEF TypeOK, TokensKept

LEMMA KeptByRevoke ==
  ASSUME TypeOK, NEW hit, tokens' = Revoke(hit)
  PROVE  /\ TokensKept /\ Len(tokens') = Len(tokens)
         /\ \A t \in 1..Len(tokens) :
              /\ t \in hit => tokens'[t].used
              /\ t \notin hit => tokens'[t] = tokens[t]
<1>1. \A t \in 1..Len(tokens) :
        tokens'[t] = IF t \in hit THEN [tokens[t] EXCEPT !.used = TRUE] ELSE tokens[t]
  BY Revoked
<1>2. Len(tokens') = Len(tokens) /\ Len(tokens) \in Nat
  BY Revoked, TokenTypes
<1>3. \A t \in 1..Len(tokens) : tokens[t] \in TokenRow
  BY TokenTypes
<1>4. ASSUME NEW t \in 1..Len(tokens)
      PROVE  /\ tokens'[t].kind = tokens[t].kind /\ tokens'[t].user = tokens[t].user
             /\ tokens'[t].parent = tokens[t].parent
             /\ tokens'[t].scopes = tokens[t].scopes /\ tokens'[t].asked = tokens[t].asked
             /\ tokens[t].used \/ t \in hit => tokens'[t].used
             /\ t \notin hit => tokens'[t] = tokens[t]
  <2>1. tokens[t] \in TokenRow
    BY <1>3
  <2>2. CASE t \in hit
    <3>1. tokens'[t] = [tokens[t] EXCEPT !.used = TRUE]
      BY <1>1, <2>2
    <3>2. QED
      BY <2>1, <2>2, <3>1 DEF TokenRow
  <2>3. CASE t \notin hit
    BY <1>1, <2>3
  <2>4. QED
    BY <2>2, <2>3
<1>5. QED
  BY <1>2, <1>4 DEF TokensKept

LEMMA KeptBySame ==
  ASSUME TypeOK, tokens' = tokens
  PROVE  TokensKept
BY TokenTypes DEF TokensKept

LEMMA KnowsOn ==
  ASSUME TypeOK, TokensKept, Len(users') >= Len(users), Len(users') \in Nat, Len(tokens') \in Nat,
         NEW c, Knows(c), c.at \in Making => c.slug \in held'
  PROVE  Agrees(c, held', users', tokens')
<1>1. Len(tokens) \in Nat /\ Len(users) \in Nat
  BY TokenTypes
<1>2. c.at \in Personal => c.user \in 1..Len(users')
  BY <1>1 DEF Knows, Agrees
<1>3. c.tok # None => c.tok \in 1..Len(tokens) /\ c.tok \in 1..Len(tokens')
  BY <1>1 DEF Knows, Agrees, TokensKept
<1>4. QED
  BY <1>2, <1>3 DEF Knows, Agrees, TokensKept

LEMMA RowsOn ==
  ASSUME TypeOK, TypeOK', RowInv, TokensKept, Len(tokens') = Len(tokens),
         Len(users') >= Len(users),
         \A u \in User : swept'[u] \in {swept[u], Len(tokens)} /\ reset'[u] \in {reset[u], Len(tokens)}
  PROVE  RowInv'
<1>1. Len(tokens) \in Nat /\ Len(users) \in Nat /\ Len(tokens') \in Nat /\ Len(users') \in Nat
  BY TokenTypes DEF TypeOK
<1>2. \A t \in 1..Len(tokens') : tokens'[t].user \in 1..Len(users')
  BY <1>1 DEF RowInv, TokensKept
<1>3. QED
  BY <1>1, <1>2 DEF RowInv

LEMMA RowsAppended ==
  ASSUME TypeOK, TypeOK', RowInv, NEW r \in TokenRow, tokens' = Append(tokens, r),
         r.user \in 1..Len(users'), Len(users') >= Len(users), UNCHANGED <<swept, reset>>
  PROVE  RowInv'
<1>1. Len(tokens) \in Nat /\ Len(users) \in Nat /\ Len(users') \in Nat
  BY TokenTypes DEF TypeOK
<1>2. /\ Len(tokens') = Len(tokens) + 1 /\ tokens'[Len(tokens) + 1] = r
      /\ \A t \in 1..Len(tokens) : tokens'[t] = tokens[t]
  BY KeptByAppend
<1>3. \A u \in User : swept[u] \in Nat /\ reset[u] \in Nat
  BY BoundAssumption DEF TypeOK
<1>4. QED
  BY <1>1, <1>2, <1>3 DEF RowInv

-----------------------------------------------------------------------------
(* KnowInv and RowInv, action by action.                                     *)

Others(h) == \A g \in Handler \ {h} : ctx'[g] = ctx[g]

LEMMA EveryoneKnows ==
  ASSUME TypeOK, TypeOK', KnowInv, TokensKept, Len(users') >= Len(users),
         NEW h \in Handler, Others(h), Busy(h)' => Agrees(ctx'[h], held', users', tokens'),
         \A g \in Handler \ {h} : Busy(g) /\ ctx[g].at \in Making => ctx[g].slug \in held'
  PROVE  KnowInv'
<1> SUFFICES ASSUME NEW g \in Handler, Busy(g)'
             PROVE  Agrees(ctx'[g], held', users', tokens')
  BY DEF KnowInv, Knows
<1>1. CASE g = h
  BY <1>1
<1>2. CASE g # h
  <2>1. ctx'[g] = ctx[g] /\ Busy(g) /\ Knows(ctx[g])
    BY <1>2 DEF Others, Busy, KnowInv
  <2>2. Len(users') \in Nat /\ Len(tokens') \in Nat
    BY DEF TypeOK
  <2>3. ctx[g].at \in Making => ctx[g].slug \in held'
    BY <1>2, <2>1
  <2>4. QED
    BY <2>1, <2>2, <2>3, KnowsOn
<1>3. QED
  BY <1>1, <1>2

Steady == TokensKept /\ Len(users') >= Len(users) /\ KnowInv' /\ RowInv'

\* A request that starts or ends while the rows stay as they are.
LEMMA SteadyRows ==
  ASSUME TypeOK, TypeOK', KnowInv, RowInv, UNCHANGED <<users, tokens, swept, reset>>,
         NEW h \in Handler, Others(h), Busy(h)' => Agrees(ctx'[h], held', users', tokens'),
         \A g \in Handler \ {h} : Busy(g) /\ ctx[g].at \in Making => ctx[g].slug \in held'
  PROVE  Steady
<1>1. TokensKept /\ Len(users') >= Len(users)
  BY KeptBySame, TokenTypes
<1>2. KnowInv'
  BY <1>1, EveryoneKnows
<1>3. RowInv'
  BY DEF RowInv
<1>4. QED
  BY <1>1, <1>2, <1>3 DEF Steady

LEMMA StartedAlone ==
  ASSUME TypeOK, NEW h \in Handler, NEW c, Start(h, c)
  PROVE  Others(h) /\ ctx'[h] = c
BY DEF TypeOK, Start, Others

LEMMA LeftAlone ==
  ASSUME TypeOK, NEW h \in Handler, Leave(h)
  PROVE  Others(h) /\ ~Busy(h)'
BY DEF TypeOK, Leave, Others, Busy

LEMMA WentAlone ==
  ASSUME TypeOK, NEW h \in Handler, Busy(h), NEW step, Goto(h, step)
  PROVE  /\ Others(h) /\ ctx'[h] = [ctx[h] EXCEPT !.at = step]
         /\ ctx'[h].at = step
         /\ ctx'[h].tok = ctx[h].tok /\ ctx'[h].user = ctx[h].user /\ ctx'[h].slug = ctx[h].slug
         /\ ctx'[h].role = ctx[h].role /\ ctx'[h].demoted = ctx[h].demoted
         /\ ctx'[h].late = ctx[h].late
<1>1. ctx[h] \in Context
  BY Contexts
<1>2. Others(h) /\ ctx'[h] = [ctx[h] EXCEPT !.at = step]
  BY DEF TypeOK, Goto, Others
<1>3. QED
  BY <1>1, <1>2 DEF Context

LEMMA HeldOn ==
  ASSUME KnowInv, held \subseteq held', NEW h
  PROVE  \A g \in Handler \ {h} : Busy(g) /\ ctx[g].at \in Making => ctx[g].slug \in held'
BY DEF KnowInv, Knows, Agrees

LEMMA InsertTenantSteady ==
  ASSUME TypeOK, TypeOK', KnowInv, RowInv, NEW h \in Handler, NEW s \in Slug, InsertTenant(h, s)
  PROVE  Steady
<1> DEFINE c == [Idle EXCEPT !.at = "insert user", !.slug = s]
<1>1. Others(h) /\ ctx'[h] = c
  BY StartedAlone DEF InsertTenant
<1>2. c.at = "insert user" /\ c.slug = s /\ c.tok = None
  BY DEF Idle
<1>3. Agrees(ctx'[h], held', users', tokens')
  <2> HIDE DEF c
  <2>1. QED
    BY <1>1, <1>2 DEF Agrees, InsertTenant, Personal, Exchange, Resetting, Making
<1>4. held \subseteq held' /\ UNCHANGED <<users, tokens, swept, reset>>
  BY DEF InsertTenant, history
<1>5. QED
  BY <1>1, <1>3, <1>4, HeldOn, SteadyRows

LEMMA DeleteTenantSteady ==
  ASSUME TypeOK, TypeOK', KnowInv, RowInv, HeldInv, NEW h \in Handler, DeleteTenant(h)
  PROVE  Steady
<1>1. Others(h) /\ ~Busy(h)' /\ UNCHANGED <<users, tokens, swept, reset>>
  BY LeftAlone DEF DeleteTenant
<1>2. \A g \in Handler \ {h} : Busy(g) /\ ctx[g].at \in Making => ctx[g].slug \in held'
  BY DEF DeleteTenant, HeldInv, Registering, Alone, Maker, KnowInv, Knows, Agrees
<1>3. QED
  BY <1>1, <1>2, SteadyRows

LEMMA BeginCreateSteady ==
  ASSUME TypeOK, TypeOK', KnowInv, RowInv, NEW h \in Handler, NEW s \in Slug, NEW role \in Role,
         BeginCreate(h, s, role)
  PROVE  Steady
<1> DEFINE c == [Idle EXCEPT !.at = "commit", !.slug = s, !.role = role, !.demoted = Demoted(s, role)]
<1>1. Others(h) /\ ctx'[h] = c
  BY StartedAlone DEF BeginCreate
<1>2. c.at = "commit" /\ c.slug = s /\ c.tok = None /\ c.role = role
  BY DEF Idle
<1>3. Agrees(ctx'[h], held', users', tokens')
  <2> HIDE DEF c
  <2>1. QED
    BY <1>1, <1>2 DEF Agrees, BeginCreate, rows, Personal, Exchange, Resetting, Making
<1>4. held \subseteq held' /\ UNCHANGED <<users, tokens, swept, reset>>
  BY DEF BeginCreate, rows
<1>5. QED
  BY <1>1, <1>3, <1>4, HeldOn, SteadyRows

LEMMA LoginSteady ==
  ASSUME TypeOK, TypeOK', KnowInv, RowInv, NEW h \in Handler, NEW u \in User,
         Login(h, u) \/ ForgotPassword(h, u)
  PROVE  Steady
<1>1. PICK step \in {"issue", "link"} : Start(h, [Idle EXCEPT !.at = step, !.user = u])
  BY DEF Login, ForgotPassword
<1> DEFINE c == [Idle EXCEPT !.at = step, !.user = u]
<1>2. Others(h) /\ ctx'[h] = c
  BY <1>1, StartedAlone
<1>3. c.at = step /\ c.user = u /\ c.tok = None
  BY DEF Idle
<1>4. UNCHANGED <<held, users, tokens, swept, reset>> /\ u \in 1..Len(users)
  BY TokenTypes DEF Login, ForgotPassword, rows, history, User
<1>5. Agrees(ctx'[h], held', users', tokens')
  <2> HIDE DEF c
  <2>1. QED
    BY <1>2, <1>3, <1>4 DEF Agrees, Making, Resetting
<1>6. QED
  BY <1>2, <1>4, <1>5, HeldOn, SteadyRows

LEMMA SelectSteady ==
  ASSUME TypeOK, TypeOK', KnowInv, RowInv, NEW h \in Handler, NEW t \in Token,
         Select(h, t) \/ SelectUsed(h, t)
  PROVE  Steady
<1>1. t \in 1..Len(tokens) /\ tokens[t].user \in 1..Len(users) /\ tokens[t].kind \in Kind
  BY TokenTypes DEF Select, SelectUsed, Token, RowInv, TokenRow
<1>2. UNCHANGED <<held, users, tokens, swept, reset>>
  BY DEF Select, SelectUsed, rows, history
<1>3. Others(h) /\ Agrees(ctx'[h], held', users', tokens')
  <2>1. CASE Select(h, t)
    <3> DEFINE step == IF tokens[t].kind = "reset" THEN "password" ELSE "mark"
               c == [Idle EXCEPT !.at = step, !.tok = t, !.user = tokens[t].user]
    <3>1. Others(h) /\ ctx'[h] = c
      BY <2>1, StartedAlone DEF Select
    <3>2. c.at = step /\ c.tok = t /\ c.user = tokens[t].user
      BY DEF Idle
    <3>3. tokens[t].kind # "key" /\ t # None
      BY <2>1, NoneAssumption DEF Select
    <3> HIDE DEF c
    <3>4. QED
      BY <1>1, <1>2, <3>1, <3>2, <3>3 DEF Agrees, Making, Resetting, Exchange, Kind
  <2>2. CASE SelectUsed(h, t)
    <3> DEFINE c == [Idle EXCEPT !.at = "sweep", !.user = tokens[t].user]
    <3>1. Others(h) /\ ctx'[h] = c
      BY <2>2, StartedAlone DEF SelectUsed
    <3>2. c.at = "sweep" /\ c.user = tokens[t].user /\ c.tok = None
      BY DEF Idle
    <3> HIDE DEF c
    <3>3. QED
      BY <1>1, <1>2, <3>1, <3>2 DEF Agrees, Making, Resetting
  <2>3. QED
    BY <2>1, <2>2
<1>4. QED
  BY <1>2, <1>3, HeldOn, SteadyRows

LEMMA SetPasswordSteady ==
  ASSUME TypeOK, TypeOK', KnowInv, RowInv, NEW h \in Handler, SetPassword(h)
  PROVE  Steady
<1>1. Busy(h) /\ ctx[h].at = "password" /\ Knows(ctx[h])
  BY DEF SetPassword, At, KnowInv
<1>2. UNCHANGED <<held, users, tokens, swept>>
  BY DEF SetPassword, rows
<1>3. Others(h) /\ (Busy(h)' => Agrees(ctx'[h], held', users', tokens'))
  <2>1. CASE Goto(h, "links")
    BY <1>1, <1>2, <2>1, WentAlone DEF Knows, Agrees, Making, Personal, Resetting, Exchange
  <2>2. CASE Leave(h)
    BY <2>2, LeftAlone
  <2>3. QED
    BY <2>1, <2>2 DEF SetPassword
<1>4. TokensKept /\ Len(users') >= Len(users)
  BY <1>2, KeptBySame, TokenTypes
<1>5. KnowInv'
  BY <1>2, <1>3, <1>4, HeldOn, EveryoneKnows
<1>6. \A u \in User : reset'[u] \in {reset[u], Len(tokens)}
  BY DEF SetPassword, TypeOK
<1>7. RowInv'
  BY <1>2, <1>4, <1>6, RowsOn
<1>8. QED
  BY <1>4, <1>5, <1>7 DEF Steady

\* A request that ends, or goes on with what it has, while rows are marked.
LEMMA SteadyMarks ==
  ASSUME TypeOK, TypeOK', KnowInv, RowInv, TokensKept, Len(tokens') = Len(tokens),
         UNCHANGED <<held, users>>,
         NEW h \in Handler, Others(h), Busy(h)' => Agrees(ctx'[h], held', users', tokens'),
         \A u \in User : swept'[u] \in {swept[u], Len(tokens)} /\ reset'[u] \in {reset[u], Len(tokens)}
  PROVE  Steady
<1>1. Len(users') >= Len(users)
  BY TokenTypes
<1>2. KnowInv'
  BY <1>1, HeldOn, EveryoneKnows
<1>3. RowInv'
  BY <1>1, RowsOn
<1>4. QED
  BY <1>1, <1>2, <1>3 DEF Steady

\* A request that ends when its row is in.
LEMMA SteadyInsert ==
  ASSUME TypeOK, TypeOK', KnowInv, RowInv, NEW h \in Handler, Leave(h),
         UNCHANGED <<swept, reset>>, held \subseteq held', Len(users') >= Len(users),
         NEW r \in TokenRow, tokens' = Append(tokens, r), r.user \in 1..Len(users')
  PROVE  Steady
<1>1. TokensKept
  BY KeptByAppend
<1>2. Others(h) /\ ~Busy(h)'
  BY LeftAlone
<1>3. KnowInv'
  BY <1>1, <1>2, HeldOn, EveryoneKnows
<1>4. RowInv'
  BY RowsAppended
<1>5. QED
  BY <1>1, <1>3, <1>4 DEF Steady

LEMMA InsertUserSteady ==
  ASSUME TypeOK, TypeOK', KnowInv, RowInv, NEW h \in Handler, InsertUser(h)
  PROVE  Steady
<1>1. /\ Busy(h) /\ ctx[h].at = "insert user" /\ Knows(ctx[h]) /\ ctx[h] \in Context
  BY Contexts DEF InsertUser, At, KnowInv
<1>2. UNCHANGED <<held, tokens, swept, reset>> /\ ctx[h].tok = None
  BY <1>1 DEF InsertUser, history, Knows, Agrees, Exchange, Resetting
<1>3. Len(users') >= Len(users) /\ (users' # users => Len(users') = Len(users) + 1)
  <2>1. CASE users' = Append(users, NewUser(ctx[h].slug, "owner"))
    <3>1. ctx[h].slug \in Slug
      BY <1>1 DEF Knows, Agrees, Making, TypeOK
    <3>2. NewUser(ctx[h].slug, "owner") \in UserRow
      BY <3>1 DEF NewUser, UserRow, Role
    <3>3. QED
      BY <2>1, <3>2, Appended, TokenTypes DEF TypeOK
  <2>2. CASE users' = users
    BY <2>2, TokenTypes
  <2>3. QED
    BY <2>1, <2>2 DEF InsertUser
<1>4. Others(h) /\ (Busy(h)' => Agrees(ctx'[h], held', users', tokens'))
  <2>1. CASE /\ ctx' = [ctx EXCEPT ![h].at = "issue", ![h].user = Len(users) + 1]
             /\ users' # users
    <3>1. Others(h) /\ ctx'[h] = [ctx[h] EXCEPT !.at = "issue", !.user = Len(users) + 1]
      BY <2>1 DEF TypeOK, Others
    <3>2. ctx'[h].at = "issue" /\ ctx'[h].user = Len(users) + 1 /\ ctx'[h].tok = None
      BY <1>1, <1>2, <3>1 DEF Context
    <3>3. Len(users) + 1 \in 1..Len(users')
      BY <1>3, <2>1, TokenTypes
    <3>4. QED
      BY <3>1, <3>2, <3>3 DEF Agrees, Making, Resetting
  <2>2. CASE Leave(h)
    BY <2>2, LeftAlone
  <2>3. CASE Goto(h, "undo")
    <3>1. /\ Others(h) /\ ctx'[h].at = "undo" /\ ctx'[h].tok = None
          /\ ctx'[h].slug = ctx[h].slug /\ ctx[h].slug \in held'
      BY <1>1, <1>2, <2>3, WentAlone DEF Knows, Agrees, Making
    <3>2. QED
      BY <3>1 DEF Agrees, Making, Personal, Resetting, Exchange
  <2>4. users' = Append(users, NewUser(ctx[h].slug, "owner")) => users' # users
    <3>1. ctx[h].slug \in Slug
      BY <1>1 DEF Knows, Agrees, Making, TypeOK
    <3>2. NewUser(ctx[h].slug, "owner") \in UserRow
      BY <3>1 DEF NewUser, UserRow, Role
    <3>3. QED
      BY <3>2, Appended, TokenTypes DEF TypeOK
  <2>5. QED
    BY <2>1, <2>2, <2>3, <2>4 DEF InsertUser
<1>5. TokensKept
  BY <1>2, KeptBySame
<1>6. KnowInv'
  BY <1>2, <1>3, <1>4, <1>5, HeldOn, EveryoneKnows
<1>7. RowInv'
  BY <1>2, <1>3, <1>5, RowsOn
<1>8. QED
  BY <1>3, <1>5, <1>6, <1>7 DEF Steady

LEMMA CreatedUsers ==
  ASSUME TypeOK, KnowInv, NEW h \in Handler, CommitCreate(h), Fine
  PROVE  LET c == ctx[h] IN
         /\ c.slug \in Slug /\ c.role \in Role
         /\ Len(users') = Len(users) + 1
         /\ users'[Len(users) + 1] = NewUser(c.slug, c.role)
         /\ \A u \in 1..Len(users) :
              users'[u] = IF u \in c.demoted THEN [users[u] EXCEPT !.role = "admin"] ELSE users[u]
         /\ tokens' = Append(tokens, Row("reset", Len(users) + 1))
         \/ UNCHANGED <<users, tokens>>
<1> DEFINE c == ctx[h]
           old == [u \in 1..Len(users) |->
                     IF u \in c.demoted THEN [users[u] EXCEPT !.role = "admin"] ELSE users[u]]
<1>1. c.slug \in Slug /\ c.role \in Role
  BY DEF KnowInv, Knows, Agrees, Making, CommitCreate, At, TypeOK
<1>2. NewUser(c.slug, c.role) \in UserRow
  BY <1>1 DEF NewUser, UserRow
<1>3. old \in Seq(UserRow) /\ Len(old) = Len(users)
  <2>1. old \in [1..Len(users) -> UserRow]
    BY TokenTypes DEF UserRow, Role
  <2>2. QED
    BY <2>1, Listed, TokenTypes
<1>4. \A u \in 1..Len(users) :
        old[u] = IF u \in c.demoted THEN [users[u] EXCEPT !.role = "admin"] ELSE users[u]
  OBVIOUS
<1>5. \/ users' = Append(old, NewUser(c.slug, c.role))
         /\ tokens' = Append(tokens, Row("reset", Len(users) + 1))
      \/ UNCHANGED <<users, tokens>>
  BY DEF CommitCreate
<1> HIDE DEF old
<1>6. CASE /\ users' = Append(old, NewUser(c.slug, c.role))
           /\ tokens' = Append(tokens, Row("reset", Len(users) + 1))
  <2>1. /\ Len(users') = Len(old) + 1 /\ users'[Len(old) + 1] = NewUser(c.slug, c.role)
        /\ \A u \in 1..Len(old) : users'[u] = old[u]
    BY <1>2, <1>3, <1>6, Appended
  <2>2. QED
    BY <1>1, <1>3, <1>4, <1>6, <2>1
<1>7. QED
  BY <1>5, <1>6

LEMMA CommitCreateSteady ==
  ASSUME TypeOK, TypeOK', KnowInv, RowInv, NEW h \in Handler, CommitCreate(h)
  PROVE  Steady
<1>1. Others(h) /\ ~Busy(h)' /\ Leave(h)
  BY LeftAlone DEF CommitCreate
<1>2. UNCHANGED <<held, swept, reset>>
  BY DEF CommitCreate, history
<1>3. CASE UNCHANGED <<users, tokens>>
  BY <1>1, <1>2, <1>3, HeldOn, SteadyRows
<1>4. CASE Fine /\ ~UNCHANGED <<users, tokens>>
  <2>1. Len(users') = Len(users) + 1 /\ tokens' = Append(tokens, Row("reset", Len(users) + 1))
    BY <1>4, CreatedUsers
  <2>2. Len(users) + 1 \in 1..Len(users') /\ Len(users') >= Len(users) /\ Len(users) + 1 \in User
    BY <2>1, TokenTypes, BoundAssumption DEF TypeOK, User
  <2>3. Row("reset", Len(users) + 1) \in TokenRow /\ Row("reset", Len(users) + 1).user = Len(users) + 1
    BY <2>2, NewRow DEF Kind, Row
  <2>4. QED
    BY <1>1, <1>2, <2>1, <2>2, <2>3, SteadyInsert
<1>5. QED
  BY <1>3, <1>4 DEF CommitCreate

LEMMA InsertLinkSteady ==
  ASSUME TypeOK, TypeOK', KnowInv, RowInv, NEW h \in Handler, InsertLink(h)
  PROVE  Steady
<1>1. Others(h) /\ ~Busy(h)' /\ Leave(h)
  BY LeftAlone DEF InsertLink
<1>2. UNCHANGED <<held, users, swept, reset>> /\ Len(users') >= Len(users)
  BY TokenTypes DEF InsertLink, history
<1>3. CASE tokens' = tokens
  BY <1>1, <1>2, <1>3, HeldOn, SteadyRows
<1>4. CASE tokens' = Append(tokens, Row("reset", ctx[h].user))
  <2>1. ctx[h].user \in 1..Len(users) /\ ctx[h].user \in User
    BY TokenTypes DEF InsertLink, At, KnowInv, Knows, Agrees, Personal
  <2>2. Row("reset", ctx[h].user) \in TokenRow /\ Row("reset", ctx[h].user).user = ctx[h].user
    BY <2>1, NewRow DEF Kind, Row
  <2>3. QED
    BY <1>1, <1>2, <1>4, <2>1, <2>2, SteadyInsert
<1>5. QED
  BY <1>3, <1>4 DEF InsertLink

LEMMA IssueSteady ==
  ASSUME TypeOK, TypeOK', KnowInv, RowInv, NEW h \in Handler, Issue(h)
  PROVE  Steady
<1>1. Others(h) /\ ~Busy(h)' /\ Leave(h)
  BY LeftAlone DEF Issue
<1>2. UNCHANGED <<held, users, swept, reset>> /\ Len(users') >= Len(users)
  BY TokenTypes DEF Issue
<1>3. CASE tokens' = tokens
  BY <1>1, <1>2, <1>3, HeldOn, SteadyRows
<1>4. CASE tokens' = Append(tokens, NewToken(ctx[h]))
  <2>1. At(h, "issue") /\ ctx[h].user \in 1..Len(users)
    BY DEF Issue, At, KnowInv, Knows, Agrees, Personal, Exchange
  <2>2. NewToken(ctx[h]) \in TokenRow /\ NewToken(ctx[h]).user = ctx[h].user
    BY <2>1, IssuedRow
  <2>3. QED
    BY <1>1, <1>2, <1>4, <2>1, <2>2, SteadyInsert
<1>5. QED
  BY <1>3, <1>4 DEF Issue

LEMMA ChooseSteady ==
  ASSUME TypeOK, TypeOK', KnowInv, RowInv, NEW h \in Handler, NEW u \in User,
         NEW kind \in {"code", "key"}, NEW role \in Role, NEW chosen \in Requests,
         Choose(h, u, kind, role, chosen)
  PROVE  Steady
<1>1. PICK r \in TokenRow : tokens' = Append(tokens, r) /\ r.user = u
  BY ChosenRow
<1>2. UNCHANGED <<held, users, ctx, swept, reset>> /\ Len(users') >= Len(users) /\ u \in 1..Len(users')
  BY TokenTypes DEF Choose, history, User
<1>3. TokensKept
  BY <1>1, KeptByAppend
<1>4. KnowInv'
  <2>1. Others(h)
    BY <1>2 DEF Others
  <2>2. Busy(h)' => Agrees(ctx'[h], held', users', tokens')
    <3> SUFFICES ASSUME Busy(h)' PROVE Agrees(ctx'[h], held', users', tokens')
      OBVIOUS
    <3>1. ctx'[h] = ctx[h] /\ Knows(ctx[h])
      BY <1>2 DEF Busy, KnowInv
    <3>2. Len(users') \in Nat /\ Len(tokens') \in Nat
      BY DEF TypeOK
    <3>3. ctx[h].at \in Making => ctx[h].slug \in held'
      BY <1>2, <3>1 DEF Knows, Agrees
    <3>4. QED
      BY <1>2, <1>3, <3>1, <3>2, <3>3, KnowsOn
  <2>3. QED
    BY <1>2, <1>3, <2>1, <2>2, HeldOn, EveryoneKnows
<1>5. RowInv'
  BY <1>1, <1>2, RowsAppended
<1>6. QED
  BY <1>2, <1>3, <1>4, <1>5 DEF Steady

LEMMA MarkSteady ==
  ASSUME TypeOK, TypeOK', KnowInv, RowInv, NEW h \in Handler, Mark(h)
  PROVE  Steady
<1>1. Busy(h) /\ ctx[h].at = "mark" /\ Knows(ctx[h])
  BY DEF Mark, At, KnowInv
<1>2. UNCHANGED <<held, users, swept, reset>>
  BY DEF Mark
<1>3. TokensKept /\ Len(tokens') = Len(tokens)
  <2>1. CASE tokens' = Revoke({ctx[h].tok})
    BY <2>1, KeptByRevoke
  <2>2. CASE tokens' = tokens
    BY <2>2, KeptBySame
  <2>3. QED
    BY <2>1, <2>2 DEF Mark
<1>4. Others(h) /\ Agrees(ctx'[h], held', users', tokens')
  <2>1. /\ Others(h) /\ ctx'[h].at = "issue" /\ ctx'[h].tok = ctx[h].tok
        /\ ctx'[h].user = ctx[h].user
    BY <1>1, WentAlone DEF Mark
  <2>2. /\ ctx[h].tok \in 1..Len(tokens) /\ tokens'[ctx[h].tok].user = ctx[h].user
        /\ tokens'[ctx[h].tok].kind \in {"session", "code", "grant"}
        /\ ctx[h].user \in 1..Len(users)
    BY <1>1, <1>3 DEF Knows, Agrees, Personal, Exchange, Resetting, TokensKept
  <2>3. QED
    BY <1>2, <1>3, <2>1, <2>2 DEF Agrees, Making, Resetting, Exchange
<1>5. QED
  BY <1>2, <1>3, <1>4, SteadyMarks

LEMMA LogoutSteady ==
  ASSUME TypeOK, TypeOK', KnowInv, RowInv, NEW h \in Handler, NEW t \in Token, Logout(h, t)
  PROVE  Steady
<1>1. UNCHANGED <<held, users, swept, reset, ctx>> /\ ~Busy(h)
  BY DEF Logout, history
<1>2. TokensKept /\ Len(tokens') = Len(tokens)
  BY KeptByRevoke DEF Logout
<1>3. Others(h) /\ ~Busy(h)'
  BY <1>1 DEF Others, Busy
<1>4. QED
  BY <1>1, <1>2, <1>3, SteadyMarks

LEMMA MarkLinksSteady ==
  ASSUME TypeOK, TypeOK', KnowInv, RowInv, NEW h \in Handler, MarkLinks(h)
  PROVE  Steady
<1>1. UNCHANGED <<held, users, swept, reset>> /\ Others(h) /\ ~Busy(h)'
  BY LeftAlone DEF MarkLinks
<1>2. TokensKept /\ Len(tokens') = Len(tokens)
  <2>1. CASE tokens' = Revoke(Siblings(ctx[h].tok))
    BY <2>1, KeptByRevoke
  <2>2. CASE tokens' = tokens
    BY <2>2, KeptBySame
  <2>3. QED
    BY <2>1, <2>2 DEF MarkLinks
<1>3. QED
  BY <1>1, <1>2, SteadyMarks

\* The contexts a sweep leaves: its own ends, some are late.
LEMMA SweptContexts ==
  ASSUME TypeOK, NEW h \in Handler, Sweep(h)
  PROVE  /\ ~Busy(h)'
         /\ \A g \in Handler \ {h} :
              /\ ctx'[g] \in {ctx[g], [ctx[g] EXCEPT !.late = TRUE]}
              /\ Busy(g)' <=> Busy(g)
              /\ Busy(g) =>
                   /\ ctx'[g].at = ctx[g].at /\ ctx'[g].tok = ctx[g].tok
                   /\ ctx'[g].user = ctx[g].user /\ ctx'[g].slug = ctx[g].slug
                   /\ ctx'[g].role = ctx[g].role /\ ctx'[g].demoted = ctx[g].demoted
                   /\ ctx[g].late => ctx'[g].late
                   /\ tokens' # tokens /\ ctx[g].user = ctx[h].user /\ ctx[g].at \in Exchange =>
                        ctx'[g].late
<1>1. CASE Leave(h) /\ tokens' = tokens
  <2>1. ~Busy(h)' /\ \A g \in Handler \ {h} : ctx'[g] = ctx[g]
    BY <1>1, LeftAlone DEF Others
  <2>2. QED
    BY <1>1, <2>1 DEF Busy
<1>2. CASE ~(Leave(h) /\ tokens' = tokens)
  <2> DEFINE late(g) == Busy(g) /\ g # h /\ ctx[g].user = ctx[h].user /\ ctx[g].at \in {"mark", "issue"}
  <2>1. ctx' = [g \in Handler |->
           IF g = h THEN None ELSE IF late(g) THEN [ctx[g] EXCEPT !.late = TRUE] ELSE ctx[g]]
    BY <1>2 DEF Sweep
  <2>2. ~Busy(h)'
    BY <2>1 DEF Busy
  <2>3. ASSUME NEW g \in Handler \ {h}
        PROVE  /\ ctx'[g] \in {ctx[g], [ctx[g] EXCEPT !.late = TRUE]}
               /\ Busy(g)' <=> Busy(g)
               /\ Busy(g) =>
                   /\ ctx'[g].at = ctx[g].at /\ ctx'[g].tok = ctx[g].tok
                   /\ ctx'[g].user = ctx[g].user /\ ctx'[g].slug = ctx[g].slug
                   /\ ctx'[g].role = ctx[g].role /\ ctx'[g].demoted = ctx[g].demoted
                   /\ ctx[g].late => ctx'[g].late
                   /\ ctx[g].user = ctx[h].user /\ ctx[g].at \in Exchange => ctx'[g].late
    <3>1. ctx'[g] = IF late(g) THEN [ctx[g] EXCEPT !.late = TRUE] ELSE ctx[g]
      BY <2>1
    <3>2. CASE late(g)
      <4>1. ctx[g] \in Context /\ Busy(g)
        BY <3>2, Contexts
      <4>2. ctx'[g] = [ctx[g] EXCEPT !.late = TRUE] /\ ctx'[g] \in Context
        BY <3>1, <3>2, <4>1 DEF Context
      <4>3. Busy(g)'
        BY <4>2, NoneAssumption DEF Busy
      <4>4. QED
        BY <4>1, <4>2, <4>3 DEF Context
    <3>3. CASE ~late(g)
      BY <3>1, <3>3 DEF Busy, Exchange
    <3>4. QED
      BY <3>2, <3>3
  <2>4. QED
    BY <2>2, <2>3
<1>3. QED
  BY <1>1, <1>2

LEMMA SweepSteady ==
  ASSUME TypeOK, TypeOK', KnowInv, RowInv, NEW h \in Handler, Sweep(h)
  PROVE  Steady
<1>1. UNCHANGED <<held, users, reset>> /\ Len(users') >= Len(users)
  BY TokenTypes DEF Sweep
<1>2. TokensKept /\ Len(tokens') = Len(tokens)
  <2>1. CASE tokens' = Revoke(Sessions(ctx[h].user))
    BY <2>1, KeptByRevoke
  <2>2. CASE tokens' = tokens
    BY <2>2, KeptBySame
  <2>3. QED
    BY <2>1, <2>2 DEF Sweep
<1>3. KnowInv'
  <2> SUFFICES ASSUME NEW g \in Handler, Busy(g)'
               PROVE  Agrees(ctx'[g], held', users', tokens')
    BY DEF KnowInv, Knows
  <2>1. /\ Busy(g) /\ ctx'[g].at = ctx[g].at /\ ctx'[g].tok = ctx[g].tok
        /\ ctx'[g].user = ctx[g].user /\ ctx'[g].slug = ctx[g].slug /\ ctx'[g].role = ctx[g].role
    BY SweptContexts
  <2>2. Knows(ctx[g])
    BY <2>1 DEF KnowInv
  <2>3. Len(users') \in Nat /\ Len(tokens') \in Nat
    BY DEF TypeOK
  <2>4. ctx[g].at \in Making => ctx[g].slug \in held'
    BY <1>1, <2>2 DEF Knows, Agrees
  <2>5. Agrees(ctx[g], held', users', tokens')
    BY <1>1, <1>2, <2>2, <2>3, <2>4, KnowsOn
  <2>6. QED
    BY <2>1, <2>5 DEF Agrees
<1>4. \A u \in User : swept'[u] \in {swept[u], Len(tokens)}
  BY DEF Sweep, TypeOK
<1>5. RowInv'
  BY <1>1, <1>2, <1>4, RowsOn
<1>6. QED
  BY <1>1, <1>2, <1>3, <1>5 DEF Steady

LEMMA CutContexts ==
  ASSUME TypeOK, NEW hs \in SUBSET Handler, Cut(hs)
  PROVE  \A g \in Handler : IF g \in hs THEN ~Busy(g)' ELSE ctx'[g] = ctx[g]
BY DEF Cut, TypeOK, Busy

LEMMA CutSteady ==
  ASSUME TypeOK, TypeOK', KnowInv, RowInv, NEW hs \in SUBSET Handler, Cut(hs)
  PROVE  Steady
<1>0. UNCHANGED <<rows, begun, uses, swept, reset, crowned>>
  BY DEF Cut
<1>1. UNCHANGED <<held, users, tokens, swept, reset>> /\ Len(users') >= Len(users)
  BY <1>0, TokenTypes DEF rows
<1>2. TokensKept
  BY <1>1, KeptBySame
<1>3. KnowInv'
  BY <1>1, CutContexts DEF KnowInv, Knows, Busy
<1>4. RowInv'
  BY <1>1 DEF RowInv
<1>5. QED
  BY <1>1, <1>2, <1>3, <1>4 DEF Steady

-----------------------------------------------------------------------------
(* RoomInv, action by action.                                                *)

LEMMA Counted ==
  ASSUME NEW A, IsFiniteSet(A), NEW B, NEW h, B \subseteq A \cup {h}
  PROVE  /\ Cardinality(A) \in Nat /\ Cardinality(B) \in Nat
         /\ Cardinality(B) <= Cardinality(A) + 1
         /\ h \in A \/ h \notin B => Cardinality(B) <= Cardinality(A)
         /\ h \in A /\ h \notin B => Cardinality(B) + 1 <= Cardinality(A)
<1>1. /\ IsFiniteSet(A \cup {h}) /\ Cardinality(A) \in Nat
      /\ Cardinality(A \cup {h}) <= Cardinality(A) + 1
  BY FS_AddElement, FS_CardinalityType
<1>2. Cardinality(B) \in Nat /\ Cardinality(B) <= Cardinality(A \cup {h})
  BY <1>1, FS_Subset, FS_CardinalityType
<1>3. ASSUME h \in A \/ h \notin B PROVE Cardinality(B) <= Cardinality(A)
  BY <1>3, FS_Subset
<1>4. ASSUME h \in A, h \notin B PROVE Cardinality(B) + 1 <= Cardinality(A)
  <2>1. IsFiniteSet(A \ {h}) /\ Cardinality(A \ {h}) = Cardinality(A) - 1
    BY <1>4, FS_RemoveElement
  <2>2. Cardinality(B) <= Cardinality(A \ {h})
    BY <1>4, <2>1, FS_Subset
  <2>3. QED
    BY <1>1, <1>2, <2>1, <2>2
<1>5. Cardinality(A \cup {h}) \in Nat
  BY <1>1, FS_CardinalityType
<1>6. QED
  BY <1>1, <1>2, <1>3, <1>4, <1>5

LEMMA RoomOfOne ==
  ASSUME TypeOK, NEW h \in Handler, Others(h)
  PROVE  /\ Cardinality(Coming) \in Nat /\ Cardinality(Coming') \in Nat
         /\ Cardinality(Coming') <= Cardinality(Coming) + 1
         /\ h \in Coming \/ h \notin Coming' => Cardinality(Coming') <= Cardinality(Coming)
         /\ h \in Coming /\ h \notin Coming' => Cardinality(Coming') + 1 <= Cardinality(Coming)
         /\ Cardinality(Newcomers) \in Nat /\ Cardinality(Newcomers') \in Nat
         /\ Cardinality(Newcomers') <= Cardinality(Newcomers) + 1
         /\ h \in Newcomers \/ h \notin Newcomers' => Cardinality(Newcomers') <= Cardinality(Newcomers)
         /\ h \in Newcomers /\ h \notin Newcomers' => Cardinality(Newcomers') + 1 <= Cardinality(Newcomers)
<1>1. Coming' \subseteq Coming \cup {h} /\ Newcomers' \subseteq Newcomers \cup {h}
  BY DEF Others, Coming, Newcomers, Busy
<1>2. IsFiniteSet(Coming) /\ IsFiniteSet(Newcomers)
  BY Rooms
<1>3. QED
  BY <1>1, <1>2, Counted

\* What a request inserts is what it was counted for.
LEMMA RoomKept ==
  ASSUME TypeOK, RoomInv, NEW h \in Handler, Others(h),
         \/ Len(tokens') = Len(tokens) /\ (h \in Coming \/ h \notin Coming')
         \/ Len(tokens') = Len(tokens) + 1 /\ h \in Coming /\ h \notin Coming',
         \/ Len(users') = Len(users) /\ (h \in Newcomers \/ h \notin Newcomers')
         \/ Len(users') = Len(users) + 1 /\ h \in Newcomers /\ h \notin Newcomers'
  PROVE  RoomInv'
<1>1. /\ Cardinality(Coming) \in Nat /\ Cardinality(Coming') \in Nat
      /\ Cardinality(Newcomers) \in Nat /\ Cardinality(Newcomers') \in Nat
  BY RoomOfOne
<1>2. /\ Len(tokens) \in Nat /\ Len(users) \in Nat
      /\ Len(tokens') \in Nat /\ Len(users') \in Nat
  BY TokenTypes
<1>3. /\ Len(tokens) + Cardinality(Coming) <= MaxTokens
      /\ Len(users) + Cardinality(Newcomers) <= MaxUsers
  BY DEF RoomInv
<1>4. Len(tokens') + Cardinality(Coming') <= MaxTokens
  <2>1. CASE Len(tokens') = Len(tokens) /\ Cardinality(Coming') <= Cardinality(Coming)
    BY <1>1, <1>2, <1>3, <2>1, BoundAssumption
  <2>2. CASE Len(tokens') = Len(tokens) + 1 /\ Cardinality(Coming') + 1 <= Cardinality(Coming)
    BY <1>1, <1>2, <1>3, <2>2, BoundAssumption
  <2>3. QED
    BY <2>1, <2>2, RoomOfOne
<1>5. Len(users') + Cardinality(Newcomers') <= MaxUsers
  <2>1. CASE Len(users') = Len(users) /\ Cardinality(Newcomers') <= Cardinality(Newcomers)
    BY <1>1, <1>2, <1>3, <2>1, BoundAssumption
  <2>2. CASE Len(users') = Len(users) + 1 /\ Cardinality(Newcomers') + 1 <= Cardinality(Newcomers)
    BY <1>1, <1>2, <1>3, <2>2, BoundAssumption
  <2>3. QED
    BY <2>1, <2>2, RoomOfOne
<1>6. QED
  BY <1>4, <1>5 DEF RoomInv

\* Requests only end, or go on with no more to insert.
LEMMA RoomOfAll ==
  ASSUME TypeOK, TypeOK', RoomInv, Coming' \subseteq Coming, Newcomers' \subseteq Newcomers,
         Len(tokens') = Len(tokens), Len(users') = Len(users)
  PROVE  RoomInv'
<1>1. Cardinality(Coming') <= Cardinality(Coming) /\ Cardinality(Newcomers') <= Cardinality(Newcomers)
  BY Rooms, FS_Subset
<1>2. /\ Cardinality(Coming') \in Nat /\ Cardinality(Newcomers') \in Nat
  BY Rooms, FS_Subset, FS_CardinalityType
<1>3. QED
  BY <1>1, <1>2, Rooms, TokenTypes, BoundAssumption DEF RoomInv

\* A request starts that will insert a token, or a user and a token, or neither.
LEMMA RoomToStart ==
  ASSUME TypeOK, RoomInv, NEW h \in Handler, NEW c \in Context, Start(h, c), UNCHANGED <<users, tokens>>
  PROVE  /\ \/ Len(tokens) + Cardinality(Coming) < MaxTokens
            \/ c.at \notin {"mark", "issue", "link", "insert user", "commit"}
         /\ \/ Len(users) + Cardinality(Newcomers) < MaxUsers
            \/ c.at \notin {"insert user", "commit"}
         => RoomInv'
<1>1. Others(h) /\ ctx'[h] = c
  BY StartedAlone
<1>2. c.at \notin {"mark", "issue", "link", "insert user", "commit"} => h \notin Coming'
  BY <1>1 DEF Coming
<1>3. c.at \notin {"insert user", "commit"} => h \notin Newcomers'
  BY <1>1 DEF Newcomers
<1>4. Len(tokens) \in Nat /\ Len(users) \in Nat
  BY TokenTypes
<1>5. /\ Cardinality(Coming) \in Nat /\ Cardinality(Coming') \in Nat
      /\ Cardinality(Coming') <= Cardinality(Coming) + 1
      /\ h \notin Coming' => Cardinality(Coming') <= Cardinality(Coming)
      /\ Cardinality(Newcomers) \in Nat /\ Cardinality(Newcomers') \in Nat
      /\ Cardinality(Newcomers') <= Cardinality(Newcomers) + 1
      /\ h \notin Newcomers' => Cardinality(Newcomers') <= Cardinality(Newcomers)
  BY <1>1, RoomOfOne
<1>6. \/ Len(tokens) + Cardinality(Coming) < MaxTokens
      \/ h \notin Coming'
      => Len(tokens) + Cardinality(Coming') <= MaxTokens
  BY <1>4, <1>5, BoundAssumption DEF RoomInv
<1>7. \/ Len(users) + Cardinality(Newcomers) < MaxUsers
      \/ h \notin Newcomers'
      => Len(users) + Cardinality(Newcomers') <= MaxUsers
  BY <1>4, <1>5, BoundAssumption DEF RoomInv
<1>8. QED
  BY <1>2, <1>3, <1>6, <1>7, Zenon DEF RoomInv

LEMMA InsertTenantRoom ==
  ASSUME TypeOK, RoomInv, NEW h \in Handler, NEW s \in Slug, InsertTenant(h, s)
  PROVE  RoomInv'
<1> DEFINE c == [Idle EXCEPT !.at = "insert user", !.slug = s]
<1>1. c \in Context
  BY FreshMaker
<1>2. /\ Start(h, c) /\ UNCHANGED <<users, tokens>>
      /\ Len(tokens) + Cardinality(Coming) < MaxTokens
      /\ Len(users) + Cardinality(Newcomers) < MaxUsers
  BY DEF InsertTenant, Room
<1> HIDE DEF c
<1>3. QED
  BY <1>1, <1>2, RoomToStart

LEMMA BeginCreateRoom ==
  ASSUME TypeOK, RoomInv, NEW h \in Handler, NEW s \in Slug, NEW role \in Role,
         BeginCreate(h, s, role)
  PROVE  RoomInv'
<1> DEFINE c == [Idle EXCEPT !.at = "commit", !.slug = s, !.role = role, !.demoted = Demoted(s, role)]
<1>1. Demoted(s, role) \in SUBSET User
  BY TokenTypes DEF Demoted, Owners
<1>2. c \in Context
  BY <1>1, FreshMaker
<1>3. /\ Start(h, c) /\ UNCHANGED <<users, tokens>>
      /\ Len(tokens) + Cardinality(Coming) < MaxTokens
      /\ Len(users) + Cardinality(Newcomers) < MaxUsers
  BY DEF BeginCreate, Room, rows
<1> HIDE DEF c
<1>4. QED
  BY <1>2, <1>3, RoomToStart

LEMMA LoginRoom ==
  ASSUME TypeOK, RoomInv, NEW h \in Handler, NEW u \in User, Login(h, u) \/ ForgotPassword(h, u)
  PROVE  RoomInv'
<1>1. PICK step \in {"issue", "link"} : Start(h, [Idle EXCEPT !.at = step, !.user = u])
  BY DEF Login, ForgotPassword
<1> DEFINE c == [Idle EXCEPT !.at = step, !.user = u]
<1>2. u \in 0..MaxUsers
  BY BoundAssumption DEF User
<1>3. c \in Context
  BY <1>2, FreshHolder
<1>4. Start(h, c) /\ UNCHANGED <<users, tokens>> /\ Len(tokens) + Cardinality(Coming) < MaxTokens
  BY <1>1 DEF Login, ForgotPassword, rows, Room
<1>5. c.at = step
  BY DEF Idle
<1> HIDE DEF c
<1>6. QED
  BY <1>3, <1>4, <1>5, RoomToStart

LEMMA SelectRoom ==
  ASSUME TypeOK, RoomInv, NEW h \in Handler, NEW t \in Token, Select(h, t) \/ SelectUsed(h, t)
  PROVE  RoomInv'
<1>1. t \in 1..Len(tokens)
  BY TokenTypes DEF Select, SelectUsed, Token
<1>2. tokens[t].user \in 0..MaxUsers
  BY <1>1, TokenTypes, BoundAssumption DEF TokenRow, User
<1>3. CASE Select(h, t)
  <2> DEFINE step == IF tokens[t].kind = "reset" THEN "password" ELSE "mark"
             c == [Idle EXCEPT !.at = step, !.tok = t, !.user = tokens[t].user]
  <2>1. c \in Context
    BY <1>2, FreshHolder
  <2>2. c.at \in {"password", "mark"}
    BY DEF Idle
  <2>3. Start(h, c) /\ UNCHANGED <<users, tokens>> /\ Len(tokens) + Cardinality(Coming) < MaxTokens
    BY <1>3 DEF Select, rows, Room
  <2> HIDE DEF c
  <2>4. QED
    BY <2>1, <2>2, <2>3, RoomToStart
<1>4. CASE SelectUsed(h, t)
  <2> DEFINE c == [Idle EXCEPT !.at = "sweep", !.user = tokens[t].user]
  <2>1. c \in Context
    BY <1>2, FreshHolder
  <2>2. c.at = "sweep"
    BY DEF Idle
  <2>3. Start(h, c) /\ UNCHANGED <<users, tokens>>
    BY <1>4 DEF SelectUsed, rows
  <2> HIDE DEF c
  <2>4. QED
    BY <2>1, <2>2, <2>3, RoomToStart
<1>5. QED
  BY <1>3, <1>4

LEMMA StepRoom ==
  ASSUME TypeOK, TypeOK', KnowInv, RoomInv, NEW h \in Handler, Step(h)
  PROVE  RoomInv'
<1>1. CASE InsertUser(h)
  <2>1. h \in Coming /\ h \in Newcomers /\ ctx[h] \in Context /\ Busy(h)
    BY <1>1, Contexts DEF InsertUser, At, Coming, Newcomers
  <2>2. /\ Others(h) /\ tokens' = tokens
        /\ \/ users' = users
           \/ Len(users') = Len(users) + 1 /\ h \notin Newcomers'
    <3>1. CASE users' = Append(users, NewUser(ctx[h].slug, "owner")) /\ Leave(h)
      <4>1. Others(h) /\ h \notin Newcomers'
        BY <3>1, LeftAlone DEF Newcomers
      <4>2. Len(users') = Len(users) + 1
        BY <3>1 DEF TypeOK
      <4>3. QED
        BY <1>1, <4>1, <4>2 DEF InsertUser
    <3>2. CASE /\ users' = Append(users, NewUser(ctx[h].slug, "owner"))
               /\ ctx' = [ctx EXCEPT ![h].at = "issue", ![h].user = Len(users) + 1]
      <4>1. ctx'[h] = [ctx[h] EXCEPT !.at = "issue", !.user = Len(users) + 1] /\ Others(h)
        BY <3>2 DEF TypeOK, Others
      <4>2. ctx'[h].at = "issue"
        BY <2>1, <4>1 DEF Context
      <4>3. h \notin Newcomers'
        BY <4>2 DEF Newcomers
      <4>4. Len(users') = Len(users) + 1
        BY <3>2, TokenTypes DEF TypeOK
      <4>5. QED
        BY <1>1, <4>1, <4>3, <4>4 DEF InsertUser
    <3>3. CASE Goto(h, "undo") /\ users' = users
      BY <1>1, <2>1, <3>3, WentAlone DEF InsertUser
    <3>4. QED
      BY <1>1, <3>1, <3>2, <3>3 DEF InsertUser
  <2>3. QED
    BY <2>1, <2>2, RoomKept
<1>2. CASE CommitCreate(h)
  <2>1. h \in Coming /\ h \in Newcomers
    BY <1>2 DEF CommitCreate, At, Coming, Newcomers
  <2>2. Others(h) /\ h \notin Coming' /\ h \notin Newcomers'
    BY <1>2, LeftAlone DEF CommitCreate, Coming, Newcomers
  <2>3. \/ UNCHANGED <<users, tokens>>
        \/ Len(users') = Len(users) + 1 /\ Len(tokens') = Len(tokens) + 1
    <3>1. \/ UNCHANGED <<users, tokens>>
          \/ /\ Len(users') = Len(users) + 1
             /\ tokens' = Append(tokens, Row("reset", Len(users) + 1))
      BY <1>2, CreatedUsers DEF CommitCreate
    <3>2. QED
      BY <3>1 DEF TypeOK
  <2>4. QED
    BY <2>1, <2>2, <2>3, RoomKept
<1>3. CASE InsertLink(h) \/ Issue(h)
  <2>1. h \in Coming
    BY <1>3 DEF InsertLink, Issue, At, Coming
  <2>2. Others(h) /\ h \notin Coming' /\ h \notin Newcomers'
    BY <1>3, LeftAlone DEF InsertLink, Issue, Coming, Newcomers
  <2>3. users' = users /\ (Len(tokens') = Len(tokens) \/ Len(tokens') = Len(tokens) + 1)
    <3>1. users' = users /\ (tokens' = tokens \/ \E e : tokens' = Append(tokens, e))
      BY <1>3 DEF InsertLink, Issue
    <3>2. QED
      BY <3>1 DEF TypeOK
  <2>4. QED
    BY <2>1, <2>2, <2>3, RoomKept
<1>4. CASE Mark(h) \/ SetPassword(h)
  <2>1. /\ Busy(h) /\ Len(tokens') = Len(tokens) /\ users' = users
        /\ Others(h) /\ (h \in Coming' => h \in Coming) /\ h \notin Newcomers'
    <3>1. CASE Mark(h)
      <4>1. Busy(h) /\ h \in Coming /\ Others(h) /\ ctx'[h].at = "issue"
        BY <3>1, WentAlone DEF Mark, At, Coming
      <4>2. Len(tokens') = Len(tokens) /\ users' = users
        BY <3>1, Revoked DEF Mark
      <4>3. QED
        BY <4>1, <4>2 DEF Newcomers
    <3>2. CASE SetPassword(h)
      <4>1. Busy(h) /\ Others(h) /\ h \notin Coming' /\ h \notin Newcomers'
        <5>1. Busy(h)
          BY <3>2 DEF SetPassword, At
        <5>2. CASE Goto(h, "links")
          <6>1. Others(h) /\ ctx'[h].at = "links"
            BY <5>1, <5>2, WentAlone
          <6>2. QED
            BY <5>1, <6>1 DEF Coming, Newcomers
        <5>3. CASE Leave(h)
          BY <5>1, <5>3, LeftAlone DEF Coming, Newcomers
        <5>4. QED
          BY <3>2, <5>2, <5>3 DEF SetPassword
      <4>2. QED
        BY <3>2, <4>1 DEF SetPassword, rows
    <3>3. QED
      BY <1>4, <3>1, <3>2
  <2>2. QED
    BY <2>1, RoomKept
<1>5. CASE Sweep(h)
  <2>1. Coming' \subseteq Coming /\ Newcomers' \subseteq Newcomers
    BY <1>5, SweptContexts DEF Coming, Newcomers
  <2>2. Len(tokens') = Len(tokens) /\ users' = users
    BY <1>5, Revoked DEF Sweep
  <2>3. QED
    BY <2>1, <2>2, RoomOfAll
<1>6. CASE DeleteTenant(h) \/ MarkLinks(h)
  <2>1. Others(h) /\ h \notin Coming' /\ h \notin Newcomers'
    BY <1>6, LeftAlone DEF DeleteTenant, MarkLinks, Coming, Newcomers
  <2>2. Len(tokens') = Len(tokens) /\ users' = users
    BY <1>6, Revoked DEF DeleteTenant, MarkLinks
  <2>3. QED
    BY <2>1, <2>2, RoomKept
<1>7. QED
  BY <1>1, <1>2, <1>3, <1>4, <1>5, <1>6 DEF Step

LEMMA ChooseRoom ==
  ASSUME TypeOK, TypeOK', RoomInv, NEW h \in Handler, NEW u \in User,
         NEW kind \in {"code", "key"}, NEW role \in Role, NEW chosen \in Requests,
         Choose(h, u, kind, role, chosen)
  PROVE  RoomInv'
<1>1. UNCHANGED <<users, Coming, Newcomers>>
  BY DEF Choose, Coming, Newcomers, Busy
<1>2. Len(tokens') = Len(tokens) + 1
  <2>1. PICK r \in TokenRow : tokens' = Append(tokens, r)
    BY ChosenRow
  <2>2. QED
    BY <2>1, KeptByAppend
<1>3. QED
  BY <1>1, <1>2, Rooms, TokenTypes, BoundAssumption DEF RoomInv, Choose, Room

LEMMA LogoutRoom ==
  ASSUME TypeOK, RoomInv, NEW h \in Handler, NEW t \in Token, Logout(h, t)
  PROVE  RoomInv'
<1>1. UNCHANGED <<users, Coming, Newcomers>>
  BY DEF Logout, Coming, Newcomers, Busy
<1>2. Len(tokens') = Len(tokens)
  BY Revoked DEF Logout
<1>3. QED
  BY <1>1, <1>2 DEF RoomInv

LEMMA CutRoom ==
  ASSUME TypeOK, TypeOK', RoomInv, NEW hs \in SUBSET Handler, Cut(hs)
  PROVE  RoomInv'
<1>1. Coming' \subseteq Coming /\ Newcomers' \subseteq Newcomers
  BY CutContexts DEF Coming, Newcomers, Busy
<1>2. UNCHANGED <<rows, begun, uses, swept, reset, crowned>>
  BY DEF Cut
<1>3. QED
  BY <1>1, <1>2, RoomOfAll DEF rows

-----------------------------------------------------------------------------
(* ScopeInv, by what a step does to the tokens.                              *)

LEMMA ScopeKept ==
  ASSUME ScopeInv, TokensKept, Len(tokens') = Len(tokens)
  PROVE  ScopeInv'
BY DEF ScopeInv, TokensKept

LEMMA ScopeAppended ==
  ASSUME TypeOK, ScopeInv, NEW r \in TokenRow, tokens' = Append(tokens, r),
         r.kind \in {"code", "grant", "key"} => r.scopes # {} /\ r.scopes \subseteq r.asked \cup DefaultScopes
  PROVE  ScopeInv'
<1>1. /\ Len(tokens') = Len(tokens) + 1 /\ tokens'[Len(tokens) + 1] = r
      /\ \A t \in 1..Len(tokens) : tokens'[t] = tokens[t]
  BY KeptByAppend
<1>2. Len(tokens) \in Nat
  BY TokenTypes
<1>3. ASSUME NEW t \in 1..Len(tokens')
      PROVE  t \in 1..Len(tokens) \/ t = Len(tokens) + 1
  BY <1>1, <1>2
<1>4. QED
  BY <1>1, <1>3 DEF ScopeInv

\* A step of a request that touches tokens either marks some or adds one.
LEMMA ScopeStep ==
  ASSUME TypeOK, TypeOK', KnowInv, ScopeInv, NEW h \in Handler, Step(h)
  PROVE  ScopeInv'
<1>1. CASE tokens' = tokens
  BY <1>1, KeptBySame, ScopeKept
<1>2. CASE Mark(h) \/ Sweep(h) \/ MarkLinks(h)
  <2>1. CASE tokens' # tokens
    <3>1. PICK hit : tokens' = Revoke(hit)
      BY <1>2, <2>1 DEF Mark, Sweep, MarkLinks
    <3>2. QED
      BY <3>1, KeptByRevoke, ScopeKept
  <2>2. QED
    BY <1>1, <2>1
<1>3. CASE InsertLink(h)
  <2>1. ctx[h].user \in User
    BY <1>3, TokenTypes DEF InsertLink, At, KnowInv, Knows, Agrees, Personal
  <2>2. Row("reset", ctx[h].user) \in TokenRow /\ Row("reset", ctx[h].user).kind = "reset"
    BY <2>1, NewRow DEF Kind, Row
  <2>3. tokens' = tokens \/ tokens' = Append(tokens, Row("reset", ctx[h].user))
    BY <1>3 DEF InsertLink
  <2>4. QED
    BY <1>1, <2>2, <2>3, ScopeAppended
<1>4. CASE CommitCreate(h)
  <2>1. \/ tokens' = tokens
        \/ Len(users') = Len(users) + 1 /\ tokens' = Append(tokens, Row("reset", Len(users) + 1))
    BY <1>4, CreatedUsers DEF CommitCreate
  <2>2. CASE /\ Len(users') = Len(users) + 1
             /\ tokens' = Append(tokens, Row("reset", Len(users) + 1))
    <3>1. Len(users) + 1 \in User
      BY <2>2, TokenTypes, BoundAssumption DEF TypeOK, User
    <3>2. Row("reset", Len(users) + 1) \in TokenRow /\ Row("reset", Len(users) + 1).kind = "reset"
      BY <3>1, NewRow DEF Kind, Row
    <3>3. QED
      BY <2>2, <3>2, ScopeAppended
  <2>3. QED
    BY <1>1, <2>1, <2>2
<1>5. CASE Issue(h)
  <2>1. At(h, "issue") /\ Busy(h) /\ Knows(ctx[h])
    BY <1>5 DEF Issue, At, KnowInv
  <2>2. /\ NewToken(ctx[h]) \in TokenRow
        /\ NewToken(ctx[h]).kind \in {"code", "grant", "key"} =>
             /\ ctx[h].tok # None /\ tokens[ctx[h].tok].kind \in {"code", "grant"}
             /\ NewToken(ctx[h]).scopes = tokens[ctx[h].tok].scopes
             /\ NewToken(ctx[h]).asked = tokens[ctx[h].tok].asked
    BY <2>1, IssuedRow
  <2>3. ctx[h].tok # None => ctx[h].tok \in 1..Len(tokens)
    BY <2>1 DEF Knows, Agrees
  <2>4. NewToken(ctx[h]).kind \in {"code", "grant", "key"} =>
          /\ NewToken(ctx[h]).scopes # {}
          /\ NewToken(ctx[h]).scopes \subseteq NewToken(ctx[h]).asked \cup DefaultScopes
    BY <2>2, <2>3 DEF ScopeInv
  <2>5. tokens' = tokens \/ tokens' = Append(tokens, NewToken(ctx[h]))
    BY <1>5 DEF Issue
  <2>6. QED
    BY <1>1, <2>2, <2>4, <2>5, ScopeAppended
<1>6. CASE InsertUser(h) \/ DeleteTenant(h) \/ SetPassword(h)
  BY <1>1, <1>6 DEF InsertUser, DeleteTenant, SetPassword, rows
<1>7. QED
  BY <1>2, <1>3, <1>4, <1>5, <1>6 DEF Step

LEMMA ScopeChosen ==
  ASSUME TypeOK, ScopeInv, NEW h \in Handler, NEW u \in User, NEW kind \in {"code", "key"},
         NEW role \in Role, NEW chosen \in Requests, Choose(h, u, kind, role, chosen)
  PROVE  ScopeInv'
<1>1. PICK r \in TokenRow : /\ tokens' = Append(tokens, r)
                            /\ r.scopes = CapScopes(chosen, role) /\ r.asked = chosen
  BY ChosenRow
<1>2. r.scopes # {} /\ r.scopes \subseteq r.asked \cup DefaultScopes
  BY <1>1, Capped
<1>3. QED
  BY <1>1, <1>2, ScopeAppended

-----------------------------------------------------------------------------
(* HeldInv and OwnerInv.                                                     *)

\* What concerns tenants and their users is as it was.
MakersSame ==
  /\ UNCHANGED <<held, users, crowned, lost>>
  /\ \A g \in Handler :
       /\ Maker(g)' <=> Maker(g)
       /\ Registering(g)' <=> Registering(g)
       /\ Maker(g) => /\ ctx'[g].slug = ctx[g].slug
                      /\ ctx'[g].role = ctx[g].role /\ ctx'[g].demoted = ctx[g].demoted

LEMMA MakersAside ==
  ASSUME MakersSame
  PROVE  \A g \in Handler :
           /\ Registering(g)' <=> Registering(g)
           /\ At(g, "commit")' <=> At(g, "commit")
           /\ Maker(g)' <=> Maker(g)
           /\ Registering(g) \/ At(g, "commit") => Maker(g)
           /\ Maker(g) => /\ ctx'[g].slug = ctx[g].slug
                          /\ ctx'[g].role = ctx[g].role /\ ctx'[g].demoted = ctx[g].demoted
BY DEF MakersSame, Maker, Registering, At, Making

LEMMA HeldAside ==
  ASSUME HeldInv, MakersSame
  PROVE  HeldInv'
<1>1. \A s : Owners(s)' = Owners(s)
  BY DEF Owners, MakersSame
<1>2. UNCHANGED <<held, users, lost>>
  BY DEF MakersSame
<1>3. ASSUME NEW h \in Handler, Registering(h)' PROVE Alone(h)'
  <2>1. Registering(h) /\ Maker(h) /\ ctx'[h].slug = ctx[h].slug /\ Alone(h)
    BY <1>3, MakersAside DEF HeldInv
  <2>2. QED
    BY <1>2, <2>1, MakersAside DEF Alone
<1>4. ASSUME NEW s \in held' \ lost', ~(Owners(s) # {})'
      PROVE  \E h \in Handler : Registering(h)' /\ ctx'[h].slug = s
  BY <1>1, <1>2, <1>4, MakersAside DEF HeldInv
<1>5. \A u \in 1..Len(users') : users'[u].slug \in held'
  BY <1>2 DEF HeldInv
<1>6. QED
  BY <1>3, <1>4, <1>5 DEF HeldInv

LEMMA OwnerAside ==
  ASSUME OwnerInv, MakersSame
  PROVE  OwnerInv'
<1>1. \A s : Owners(s)' = Owners(s)
  BY DEF Owners, MakersSame
<1>2. UNCHANGED <<users, crowned>>
  BY DEF MakersSame
<1>3. ASSUME NEW h \in Handler, At(h, "commit")' PROVE SeesOwners(h)'
  <2>1. /\ At(h, "commit") /\ Maker(h) /\ SeesOwners(h)
        /\ ctx'[h].slug = ctx[h].slug /\ ctx'[h].role = ctx[h].role
        /\ ctx'[h].demoted = ctx[h].demoted
    BY <1>3, MakersAside DEF OwnerInv
  <2>2. \A g \in Handler : At(g, "commit")' /\ ctx'[g].slug = ctx[h].slug /\ ctx'[g].role = "owner"
                           => At(g, "commit") /\ ctx[g].slug = ctx[h].slug /\ ctx[g].role = "owner"
    BY MakersAside
  <2>3. Owners(ctx[h].slug)' = Owners(ctx'[h].slug)
    BY <1>2 DEF Owners
  <2>4. Owners(ctx'[h].slug) = Owners(ctx[h].slug)
    BY <2>1
  <2>5. QED
    BY <1>2, <2>1, <2>2, <2>3, <2>4 DEF SeesOwners
<1>4. QED
  BY <1>1, <1>2, <1>3 DEF OwnerInv

LEMMA AsideOfOne ==
  ASSUME NEW h \in Handler, Others(h), ~Maker(h), ~Maker(h)',
         UNCHANGED <<held, users, crowned, lost>>
  PROVE  MakersSame
BY DEF Others, Maker, Registering, At, Making, MakersSame, Busy

LEMMA StartAside ==
  ASSUME TypeOK, NEW h \in Handler, NEW u, NEW t,
         Login(h, u) \/ ForgotPassword(h, u) \/ Select(h, t) \/ SelectUsed(h, t)
  PROVE  MakersSame
<1>1. PICK c : Start(h, c) /\ c.at \in {"issue", "link", "sweep", "mark", "password"}
  <2>1. CASE Login(h, u) \/ ForgotPassword(h, u)
    <3>1. [Idle EXCEPT !.at = "issue", !.user = u].at = "issue"
      BY DEF Idle
    <3>2. [Idle EXCEPT !.at = "link", !.user = u].at = "link"
      BY DEF Idle
    <3>3. QED
      BY <2>1, <3>1, <3>2 DEF Login, ForgotPassword
  <2>2. CASE Select(h, t)
    <3> DEFINE c == [Idle EXCEPT !.at = IF tokens[t].kind = "reset" THEN "password" ELSE "mark",
                                 !.tok = t, !.user = tokens[t].user]
    <3>1. c.at \in {"password", "mark"}
      BY DEF Idle
    <3>2. Start(h, c)
      BY <2>2 DEF Select
    <3> HIDE DEF c
    <3>3. QED
      BY <3>1, <3>2
  <2>3. CASE SelectUsed(h, t)
    <3> DEFINE c == [Idle EXCEPT !.at = "sweep", !.user = tokens[t].user]
    <3>1. c.at = "sweep"
      BY DEF Idle
    <3>2. Start(h, c)
      BY <2>3 DEF SelectUsed
    <3> HIDE DEF c
    <3>3. QED
      BY <3>1, <3>2
  <2>4. QED
    BY <2>1, <2>2, <2>3
<1>2. Others(h) /\ ctx'[h] = c
  BY <1>1, StartedAlone
<1>3. ~Maker(h) /\ ~Maker(h)'
  BY <1>1, <1>2 DEF Maker, Making, Start
<1>4. UNCHANGED <<held, users, crowned, lost>>
  BY DEF Login, ForgotPassword, Select, SelectUsed, rows, history
<1>5. QED
  BY <1>2, <1>3, <1>4, AsideOfOne

LEMMA ChooseAside ==
  ASSUME NEW h \in Handler, NEW u, NEW kind, NEW role, NEW chosen, Choose(h, u, kind, role, chosen)
  PROVE  MakersSame
BY DEF Choose, history, MakersSame, Maker, Registering, At, Busy

LEMMA LogoutAside ==
  ASSUME NEW h \in Handler, NEW t, Logout(h, t)
  PROVE  MakersSame
BY DEF Logout, history, MakersSame, Maker, Registering, At, Busy

LEMMA StepAside ==
  ASSUME TypeOK, NEW h \in Handler,
         InsertLink(h) \/ Mark(h) \/ Issue(h) \/ Sweep(h) \/ SetPassword(h) \/ MarkLinks(h)
  PROVE  MakersSame
<1>1. UNCHANGED <<held, users, crowned, lost>>
  BY DEF InsertLink, Mark, Issue, Sweep, SetPassword, MarkLinks, rows, history
<1>2. Busy(h) /\ ~Maker(h)
  BY DEF InsertLink, Mark, Issue, Sweep, SetPassword, MarkLinks, At, Maker, Making
<1>3. CASE Leave(h)
  <2>1. Others(h) /\ ~Maker(h)'
    BY <1>3, LeftAlone DEF Maker
  <2>2. QED
    BY <1>1, <1>2, <2>1, AsideOfOne
<1>4. CASE Mark(h) \/ (SetPassword(h) /\ ~Leave(h))
  <2>1. PICK step \in {"issue", "links"} : Goto(h, step)
    BY <1>4 DEF Mark, SetPassword
  <2>2. Others(h) /\ ctx'[h].at = step
    BY <1>2, <2>1, WentAlone
  <2>3. ~Maker(h)'
    BY <2>2 DEF Maker, Making
  <2>4. QED
    BY <1>1, <1>2, <2>2, <2>3, AsideOfOne
<1>5. CASE Sweep(h)
  <2>1. ~Maker(h)'
    BY <1>5, SweptContexts DEF Maker
  <2>2. ASSUME NEW g \in Handler
        PROVE  /\ Maker(g)' <=> Maker(g)
               /\ Registering(g)' <=> Registering(g)
               /\ Maker(g) => /\ ctx'[g].slug = ctx[g].slug
                              /\ ctx'[g].role = ctx[g].role /\ ctx'[g].demoted = ctx[g].demoted
    BY <1>2, <1>5, <2>1, SweptContexts DEF Maker, Registering, At, Making
  <2>3. QED
    BY <1>1, <2>2 DEF MakersSame
<1>6. QED
  BY <1>3, <1>4, <1>5 DEF InsertLink, Issue, MarkLinks

LEMMA MakersAre ==
  ASSUME NEW g \in Handler
  PROVE  /\ Registering(g) <=> Maker(g) /\ ctx[g].at \in {"insert user", "undo"}
         /\ At(g, "commit") <=> Maker(g) /\ ctx[g].at = "commit"
         /\ Maker(g) => Busy(g)
         /\ Registering(g)' <=> Maker(g)' /\ ctx'[g].at \in {"insert user", "undo"}
         /\ At(g, "commit")' <=> Maker(g)' /\ ctx'[g].at = "commit"
BY DEF Registering, At, Maker, Making

LEMMA MakersOf ==
  ASSUME NEW h \in Handler, Others(h)
  PROVE  \A g \in Handler \ {h} :
           /\ Maker(g)' <=> Maker(g)
           /\ Registering(g)' <=> Registering(g)
           /\ At(g, "commit")' <=> At(g, "commit")
           /\ ctx'[g] = ctx[g]
BY DEF Others, Maker, Registering, At, Busy

LEMMA MakersHold ==
  ASSUME KnowInv
  PROVE  \A g \in Handler : Maker(g) => ctx[g].slug \in held
BY DEF KnowInv, Knows, Agrees, Maker

LEMMA InsertTenantHeld ==
  ASSUME TypeOK, KnowInv, HeldInv, OwnerInv, NEW h \in Handler, NEW s \in Slug, InsertTenant(h, s)
  PROVE  HeldInv' /\ OwnerInv'
<1> DEFINE c == [Idle EXCEPT !.at = "insert user", !.slug = s]
<1>1. Others(h) /\ ctx'[h] = c
  BY StartedAlone DEF InsertTenant
<1>2. c.at = "insert user" /\ c.slug = s
  BY DEF Idle
<1> HIDE DEF c
<1>3. Maker(h)' /\ Registering(h)' /\ ~At(h, "commit")' /\ ~Maker(h)
  <2>1. c # None
    BY <1>1, FreshMaker, NoneAssumption DEF c
  <2>2. Busy(h)' /\ ~Busy(h)
    BY <1>1, <2>1 DEF Busy, InsertTenant, Start
  <2>3. QED
    BY <1>1, <1>2, <2>2 DEF Maker, Registering, At, Making
<1>4. /\ s \notin held /\ held' = held \cup {s}
      /\ UNCHANGED <<users, crowned, lost>>
  BY DEF InsertTenant, history
<1>5. \A r : Owners(r)' = Owners(r)
  BY <1>4 DEF Owners
<1>6. HeldInv'
  <2>1. ASSUME NEW g \in Handler, Registering(g)' PROVE Alone(g)'
    <3>1. CASE g = h
      <4>1. \A u \in 1..Len(users) : users[u].slug # s
        BY <1>4 DEF HeldInv
      <4>2. \A f \in Handler \ {h} : Maker(f)' => ctx'[f].slug # s
        BY <1>1, <1>4, MakersOf, MakersHold
      <4>3. ctx'[h].slug = s
        BY <1>1, <1>2
      <4>4. QED
        BY <1>4, <3>1, <4>1, <4>2, <4>3 DEF Alone
    <3>2. CASE g # h
      <4>1. Registering(g) /\ Alone(g) /\ ctx'[g] = ctx[g] /\ ctx[g].slug # s
        <5>1. Registering(g) /\ ctx'[g] = ctx[g]
          BY <1>1, <2>1, <3>2, MakersOf
        <5>2. ctx[g].slug \in held
          BY <5>1, MakersAre, MakersHold
        <5>3. QED
          BY <1>4, <5>1, <5>2 DEF HeldInv
      <4>2. \A f \in Handler \ {g} : Maker(f)' => ctx'[f].slug # ctx[g].slug
        <5> SUFFICES ASSUME NEW f \in Handler \ {g}, Maker(f)' PROVE ctx'[f].slug # ctx[g].slug
          OBVIOUS
        <5>1. CASE f = h
          BY <1>1, <1>2, <4>1, <5>1
        <5>2. CASE f # h
          BY <1>1, <4>1, <5>2, MakersOf DEF Alone
        <5>3. QED
          BY <5>1, <5>2
      <4>3. QED
        BY <1>4, <4>1, <4>2 DEF Alone
    <3>3. QED
      BY <3>1, <3>2
  <2>2. ASSUME NEW r \in held' \ lost', ~(Owners(r) # {})'
        PROVE  \E g \in Handler : Registering(g)' /\ ctx'[g].slug = r
    <3>1. CASE r = s
      BY <1>1, <1>2, <1>3, <3>1
    <3>2. CASE r # s
      <4>1. PICK g \in Handler : Registering(g) /\ ctx[g].slug = r
        BY <1>4, <1>5, <2>2, <3>2 DEF HeldInv
      <4>2. g # h
        BY <1>3, <4>1, MakersAre
      <4>3. QED
        BY <1>1, <4>1, <4>2, MakersOf
    <3>3. QED
      BY <3>1, <3>2
  <2>3. \A u \in 1..Len(users') : users'[u].slug \in held'
    BY <1>4 DEF HeldInv
  <2>4. QED
    BY <2>1, <2>2, <2>3 DEF HeldInv
<1>7. OwnerInv'
  <2>1. ASSUME NEW g \in Handler, At(g, "commit")' PROVE SeesOwners(g)'
    <3>1. g # h
      BY <1>3, <2>1
    <3>2. At(g, "commit") /\ ctx'[g] = ctx[g] /\ SeesOwners(g)
      BY <1>1, <2>1, <3>1, MakersOf DEF OwnerInv
    <3>3. \A f \in Handler \ {g} : At(f, "commit")' => At(f, "commit") /\ ctx'[f] = ctx[f]
      BY <1>1, <1>3, MakersOf
    <3>4. \A u \in Owners(ctx[g].slug)' : u \in Owners(ctx[g].slug)
      BY <1>4, <3>2 DEF Owners
    <3>5. QED
      BY <1>4, <3>2, <3>3, <3>4 DEF SeesOwners
  <2>2. QED
    BY <1>4, <1>5, <2>1 DEF OwnerInv
<1>8. QED
  BY <1>6, <1>7

LEMMA InsertUserHeld ==
  ASSUME TypeOK, KnowInv, HeldInv, OwnerInv, NEW h \in Handler, InsertUser(h)
  PROVE  HeldInv' /\ OwnerInv'
<1>0. /\ Busy(h) /\ Registering(h) /\ Maker(h) /\ Alone(h) /\ ctx[h].at = "insert user"
      /\ ctx[h].slug \in held /\ ctx[h].slug \in Slug
  BY MakersHold DEF InsertUser, At, Registering, Maker, Making, HeldInv, TypeOK
<1> PICK s \in Slug : s = ctx[h].slug
  BY <1>0
<1>1. /\ Busy(h) /\ Registering(h) /\ Maker(h) /\ Alone(h) /\ ctx[h].at = "insert user"
      /\ ctx[h].slug = s /\ s \in held
  BY <1>0
<1>2. UNCHANGED <<held, crowned, lost>>
  BY DEF InsertUser, history
<1>3. CASE Goto(h, "undo") /\ users' = users
  <2>1. /\ Others(h) /\ ctx'[h].at = "undo" /\ ctx'[h].slug = s
        /\ ctx'[h].role = ctx[h].role /\ ctx'[h].demoted = ctx[h].demoted
    BY <1>1, <1>3, WentAlone
  <2>2. Busy(h)'
    <3>1. ctx[h] \in Context
      BY <1>1, Contexts
    <3>2. ctx'[h] = [ctx[h] EXCEPT !.at = "undo"]
      BY <1>1, <1>3, WentAlone
    <3>3. ctx'[h] \in Context
      BY <3>1, <3>2 DEF Context
    <3>4. QED
      BY <3>3, NoneAssumption DEF Busy
  <2>3. Maker(h)' /\ Registering(h)'
    BY <2>1, <2>2 DEF Maker, Making, Registering, At
  <2>4. MakersSame
    BY <1>1, <1>2, <1>3, <2>1, <2>3, MakersOf DEF MakersSame
  <2>5. QED
    BY <2>4, HeldAside, OwnerAside
<1>4. CASE ~(Goto(h, "undo") /\ users' = users)
  <2>1. users' = Append(users, NewUser(s, "owner")) /\ Others(h) /\ ~Maker(h)'
    <3>1. users' = Append(users, NewUser(s, "owner"))
      BY <1>1, <1>4 DEF InsertUser
    <3>2. CASE Leave(h)
      BY <3>1, <3>2, LeftAlone DEF Maker
    <3>3. CASE ctx' = [ctx EXCEPT ![h].at = "issue", ![h].user = Len(users) + 1]
      <4>1. Others(h) /\ ctx'[h] = [ctx[h] EXCEPT !.at = "issue", !.user = Len(users) + 1]
        BY <3>3 DEF TypeOK, Others
      <4>2. ctx[h] \in Context
        BY <1>1, Contexts
      <4>3. ctx'[h].at = "issue"
        BY <4>1, <4>2 DEF Context
      <4>4. QED
        BY <3>1, <4>1, <4>3 DEF Maker, Making
    <3>4. QED
      BY <1>4, <3>2, <3>3 DEF InsertUser
  <2>2. /\ Len(users) \in Nat /\ Len(users') = Len(users) + 1
        /\ users'[Len(users) + 1] = NewUser(s, "owner")
        /\ \A u \in 1..Len(users) : users'[u] = users[u]
    <3>1. NewUser(s, "owner") \in UserRow
      BY <1>1 DEF NewUser, UserRow, Role
    <3>2. QED
      BY <2>1, <3>1, Appended, TokenTypes DEF TypeOK
  <2>3. NewUser(s, "owner").slug = s /\ NewUser(s, "owner").role = "owner"
    BY DEF NewUser
  <2> DEFINE n == Len(users) + 1
  <2>4. \A u \in 1..Len(users') : u \in 1..Len(users) \/ u = n
    BY <2>2
  <2>5. \A r : r # s => \A u : u \in Owners(r)' <=> u \in Owners(r)
    BY <2>2, <2>3, <2>4 DEF Owners
  <2>6. (\A u : u \in Owners(s)' <=> u = n) /\ Owners(s)' # {}
    <3>1. \A u \in 1..Len(users) : users'[u].slug # s
      BY <1>1, <2>2 DEF Alone
    <3>2. n \in 1..Len(users') /\ users'[n].slug = s /\ users'[n].role = "owner"
      BY <2>2, <2>3
    <3>3. QED
      BY <2>4, <3>1, <3>2 DEF Owners
  <2>7. \A g \in Handler : Maker(g)' => /\ g # h /\ Maker(g) /\ ctx'[g] = ctx[g] /\ ctx[g].slug # s
                                        /\ Registering(g)' => Registering(g)
                                        /\ At(g, "commit")' => At(g, "commit")
    BY <1>1, <2>1, MakersOf DEF Alone
  <2>8. HeldInv'
    <3>1. ASSUME NEW g \in Handler, Registering(g)' PROVE Alone(g)'
      <4>1. Maker(g)'
        BY <3>1, MakersAre
      <4>2. Registering(g) /\ Alone(g) /\ ctx'[g] = ctx[g] /\ ctx[g].slug # s
        BY <2>7, <3>1, <4>1 DEF HeldInv
      <4>3. \A u \in 1..Len(users') : users'[u].slug # ctx[g].slug
        BY <2>2, <2>3, <2>4, <4>2 DEF Alone
      <4>4. QED
        BY <2>7, <4>2, <4>3 DEF Alone
    <3>2. ASSUME NEW r \in held' \ lost', ~(Owners(r) # {})'
          PROVE  \E g \in Handler : Registering(g)' /\ ctx'[g].slug = r
      <4>1. r # s /\ Owners(r) = {}
        BY <2>5, <2>6, <3>2
      <4>2. PICK g \in Handler : Registering(g) /\ ctx[g].slug = r
        BY <1>2, <3>2, <4>1 DEF HeldInv
      <4>3. QED
        BY <2>1, <4>1, <4>2, MakersOf
    <3>3. \A u \in 1..Len(users') : users'[u].slug \in held'
      BY <1>1, <1>2, <2>2, <2>3, <2>4 DEF HeldInv
    <3>4. QED
      BY <3>1, <3>2, <3>3 DEF HeldInv
  <2>9. OwnerInv'
    <3>1. ASSUME NEW g \in Handler, At(g, "commit")' PROVE SeesOwners(g)'
      <4>1. Maker(g)'
        BY <3>1, MakersAre
      <4>2. At(g, "commit") /\ SeesOwners(g) /\ ctx'[g] = ctx[g] /\ ctx[g].slug # s
        BY <2>7, <3>1, <4>1 DEF OwnerInv
      <4>3. \A u \in ctx[g].demoted : u \in 1..Len(users') /\ users'[u].slug = ctx[g].slug
        BY <2>2, <4>2 DEF SeesOwners
      <4>4. \A u \in Owners(ctx[g].slug)' : u \in Owners(ctx[g].slug)
        <5>1. \A u \in 1..Len(users') : users'[u].slug = ctx[g].slug => u \in 1..Len(users) /\ users'[u] = users[u]
          BY <2>2, <2>3, <2>4, <4>2
        <5>2. QED
          BY <4>2, <5>1 DEF Owners
      <4>5. \A f \in Handler : At(f, "commit")' => At(f, "commit") /\ ctx'[f] = ctx[f]
        BY <2>7, MakersAre
      <4>6. QED
        BY <1>2, <4>2, <4>3, <4>4, <4>5 DEF SeesOwners
    <3>2. ASSUME NEW r \in Slug \ crowned', NEW u \in Owners(r)', NEW v \in Owners(r)'
          PROVE  u = v
      <4>1. CASE r = s
        BY <2>6, <4>1
      <4>2. CASE r # s
        <5>1. u \in Owners(r) /\ v \in Owners(r) /\ r \in Slug \ crowned
          BY <1>2, <2>5, <3>2, <4>2
        <5>2. QED
          BY <5>1 DEF OwnerInv
      <4>3. QED
        BY <4>1, <4>2
    <3>3. QED
      BY <3>1, <3>2 DEF OwnerInv
  <2>10. QED
    BY <2>8, <2>9
<1>5. QED
  BY <1>3, <1>4

LEMMA DeleteTenantHeld ==
  ASSUME TypeOK, KnowInv, HeldInv, OwnerInv, NEW h \in Handler, DeleteTenant(h)
  PROVE  HeldInv' /\ OwnerInv'
<1> DEFINE s == ctx[h].slug
<1>1. Registering(h) /\ Maker(h) /\ Alone(h)
  BY DEF DeleteTenant, At, Registering, Maker, Making, HeldInv
<1>2. /\ Others(h) /\ ~Maker(h)' /\ UNCHANGED <<users, crowned>>
      /\ held' \ lost' = (held \ lost) \ {s} /\ held \ {s} \subseteq held'
  BY LeftAlone DEF DeleteTenant, Maker
<1>3. \A r : Owners(r)' = Owners(r)
  BY <1>2 DEF Owners
<1>4. \A g \in Handler : Maker(g)' => /\ g # h /\ Maker(g) /\ ctx'[g] = ctx[g]
                                      /\ Registering(g)' => Registering(g)
                                      /\ At(g, "commit")' => At(g, "commit")
  BY <1>2, MakersOf
<1>5. HeldInv'
  <2>1. ASSUME NEW g \in Handler, Registering(g)' PROVE Alone(g)'
    <3>1. Maker(g)'
      BY <2>1, MakersAre
    <3>2. Registering(g) /\ Alone(g) /\ ctx'[g] = ctx[g]
      BY <1>4, <2>1, <3>1 DEF HeldInv
    <3>3. QED
      BY <1>2, <1>4, <3>2 DEF Alone
  <2>2. ASSUME NEW r \in held' \ lost', ~(Owners(r) # {})'
        PROVE  \E g \in Handler : Registering(g)' /\ ctx'[g].slug = r
    <3>1. r \in held \ lost /\ r # s /\ Owners(r) = {}
      BY <1>2, <1>3, <2>2
    <3>2. PICK g \in Handler : Registering(g) /\ ctx[g].slug = r
      BY <3>1 DEF HeldInv
    <3>3. QED
      BY <1>2, <3>1, <3>2, MakersOf
  <2>3. \A u \in 1..Len(users') : users'[u].slug \in held'
    BY <1>1, <1>2 DEF HeldInv, Alone
  <2>4. QED
    BY <2>1, <2>2, <2>3 DEF HeldInv
<1>6. OwnerInv'
  <2>1. ASSUME NEW g \in Handler, At(g, "commit")' PROVE SeesOwners(g)'
    <3>1. Maker(g)'
      BY <2>1, MakersAre
    <3>2. At(g, "commit") /\ SeesOwners(g) /\ ctx'[g] = ctx[g]
      BY <1>4, <2>1, <3>1 DEF OwnerInv
    <3>3. \A f \in Handler : At(f, "commit")' => At(f, "commit") /\ ctx'[f] = ctx[f]
      BY <1>4, MakersAre
    <3>4. \A u \in Owners(ctx[g].slug)' : u \in Owners(ctx[g].slug)
      BY <1>2, <3>2 DEF Owners
    <3>5. QED
      BY <1>2, <3>2, <3>3, <3>4 DEF SeesOwners
  <2>2. QED
    BY <1>2, <1>3, <2>1 DEF OwnerInv
<1>7. QED
  BY <1>5, <1>6

LEMMA BeginCreateHeld ==
  ASSUME TypeOK, KnowInv, HeldInv, OwnerInv, NEW h \in Handler, NEW s \in Slug, NEW role \in Role,
         BeginCreate(h, s, role)
  PROVE  HeldInv' /\ OwnerInv'
<1> DEFINE c == [Idle EXCEPT !.at = "commit", !.slug = s, !.role = role, !.demoted = Demoted(s, role)]
<1>1. Others(h) /\ ctx'[h] = c
  BY StartedAlone DEF BeginCreate
<1>2. c.at = "commit" /\ c.slug = s /\ c.role = role /\ c.demoted = Demoted(s, role)
  BY DEF Idle
<1> HIDE DEF c
<1>3. ~Registering(h)' /\ ~Maker(h)
  BY <1>1, <1>2 DEF Registering, At, Maker, BeginCreate, Start
<1>4. UNCHANGED <<held, users, lost>> /\ crowned \subseteq crowned'
  BY DEF BeginCreate, rows
<1>5. \A r : Owners(r)' = Owners(r)
  BY <1>4 DEF Owners
<1>6. \A g \in Handler : Registering(g) => ctx[g].slug # s
  BY DEF BeginCreate, Registering, At
<1>7. HeldInv'
  <2>1. ASSUME NEW g \in Handler, Registering(g)' PROVE Alone(g)'
    <3>1. g # h
      BY <1>3, <2>1
    <3>2. Registering(g) /\ Alone(g) /\ ctx'[g] = ctx[g] /\ ctx[g].slug # s
      BY <1>1, <1>6, <2>1, <3>1, MakersOf DEF HeldInv
    <3>3. \A f \in Handler \ {g} : Maker(f)' => ctx'[f].slug # ctx[g].slug
      <4> SUFFICES ASSUME NEW f \in Handler \ {g}, Maker(f)' PROVE ctx'[f].slug # ctx[g].slug
        OBVIOUS
      <4>1. CASE f = h
        BY <1>1, <1>2, <3>2, <4>1
      <4>2. CASE f # h
        BY <1>1, <3>2, <4>2, MakersOf DEF Alone
      <4>3. QED
        BY <4>1, <4>2
    <3>4. QED
      BY <1>4, <3>2, <3>3 DEF Alone
  <2>2. ASSUME NEW r \in held' \ lost', ~(Owners(r) # {})'
        PROVE  \E g \in Handler : Registering(g)' /\ ctx'[g].slug = r
    <3>1. PICK g \in Handler : Registering(g) /\ ctx[g].slug = r
      BY <1>4, <1>5, <2>2 DEF HeldInv
    <3>2. g # h
      BY <1>3, <3>1, MakersAre
    <3>3. QED
      BY <1>1, <3>1, <3>2, MakersOf
  <2>3. \A u \in 1..Len(users') : users'[u].slug \in held'
    BY <1>4 DEF HeldInv
  <2>4. QED
    BY <2>1, <2>2, <2>3 DEF HeldInv
<1>8. OwnerInv'
  <2>1. SeesOwners(h)'
    <3>1. ctx'[h].slug = s /\ ctx'[h].role = role /\ ctx'[h].demoted = Demoted(s, role)
      BY <1>1, <1>2
    <3>2. \A u \in Demoted(s, role) : u \in 1..Len(users') /\ users'[u].slug = s
      BY <1>4 DEF Demoted, Owners
    <3>3. role # "owner" => Demoted(s, role) = {}
      BY DEF Demoted
    <3>4. role = "owner" => \A u \in Owners(s)' : u \in Demoted(s, role)
      BY <1>5 DEF Demoted
    <3>5. role = "owner" /\ s \notin crowned' => \A g \in Handler \ {h} :
            ~(At(g, "commit")' /\ ctx'[g].slug = s /\ ctx'[g].role = "owner")
      <4>1. role = "owner" /\ s \notin crowned' =>
              {g \in Handler : At(g, "commit") /\ ctx[g].slug = s /\ ctx[g].role = "owner"} = {}
        BY DEF BeginCreate
      <4>2. \A g \in Handler \ {h} : At(g, "commit")' => At(g, "commit") /\ ctx'[g] = ctx[g]
        BY <1>1, MakersOf
      <4>3. QED
        BY <4>1, <4>2
    <3>6. Owners(ctx[h].slug)' = Owners(s)'
      BY <3>1 DEF Owners
    <3>7. QED
      BY <3>1, <3>2, <3>3, <3>4, <3>5, <3>6 DEF SeesOwners
  <2>2. ASSUME NEW g \in Handler, At(g, "commit")', g # h PROVE SeesOwners(g)'
    <3>1. At(g, "commit") /\ ctx'[g] = ctx[g] /\ SeesOwners(g)
      BY <1>1, <2>2, MakersOf DEF OwnerInv
    <3>2. \A u \in Owners(ctx[g].slug)' : u \in Owners(ctx[g].slug)
      BY <1>4, <3>1 DEF Owners
    <3>3. ASSUME ctx[g].role = "owner", ctx[g].slug \notin crowned', NEW f \in Handler \ {g}, At(f, "commit")',
                 ctx'[f].slug = ctx[g].slug, ctx'[f].role = "owner"
          PROVE  FALSE
      <4>1. CASE f = h
        <5>1. ctx[g].slug = s /\ role = "owner"
          BY <1>1, <1>2, <3>3, <4>1
        <5>2. crowned' = crowned \cup {s}
          BY <3>1, <3>3, <5>1 DEF BeginCreate
        <5>3. QED
          BY <3>3, <5>1, <5>2
      <4>2. CASE f # h
        BY <1>1, <1>4, <3>1, <3>3, <4>2, MakersOf DEF SeesOwners
      <4>3. QED
        BY <4>1, <4>2
    <3>4. QED
      BY <1>4, <3>1, <3>2, <3>3 DEF SeesOwners
  <2>3. \A r \in Slug \ crowned' : \A u, v \in Owners(r)' : u = v
    BY <1>4, <1>5 DEF OwnerInv
  <2>4. QED
    BY <2>1, <2>2, <2>3 DEF OwnerInv
<1>9. QED
  BY <1>7, <1>8

LEMMA CutHeld ==
  ASSUME TypeOK, KnowInv, HeldInv, OwnerInv, NEW hs \in SUBSET Handler, Cut(hs)
  PROVE  HeldInv' /\ OwnerInv'
<1>1. UNCHANGED <<held, users, crowned>>
  <2>1. UNCHANGED <<rows, crowned>>
    BY DEF Cut
  <2>2. QED
    BY <2>1 DEF rows
<1>2. \A g \in Handler : IF g \in hs THEN ~Busy(g)' ELSE ctx'[g] = ctx[g]
  BY CutContexts
<1>3. \A g \in Handler :
        /\ Maker(g)' => Maker(g) /\ ctx'[g] = ctx[g]
        /\ Registering(g)' => Registering(g) /\ Maker(g)' /\ ctx'[g] = ctx[g]
        /\ At(g, "commit")' => At(g, "commit") /\ ctx'[g] = ctx[g]
        /\ g \notin hs => (Registering(g)' <=> Registering(g))
  BY <1>2 DEF Maker, Registering, At, Busy, Making
<1>4. lost \subseteq lost' /\ \A g \in hs : Registering(g) => ctx[g].slug \in lost'
  BY DEF Cut, Registering
<1>5. \A r : Owners(r)' = Owners(r)
  BY <1>1 DEF Owners
<1>6. HeldInv'
  <2>1. ASSUME NEW g \in Handler, Registering(g)' PROVE Alone(g)'
    BY <1>1, <1>3, <2>1 DEF HeldInv, Alone
  <2>2. ASSUME NEW r \in held' \ lost', ~(Owners(r) # {})'
        PROVE  \E g \in Handler : Registering(g)' /\ ctx'[g].slug = r
    <3>1. r \in held \ lost /\ Owners(r) = {}
      BY <1>1, <1>4, <1>5, <2>2
    <3>2. PICK g \in Handler : Registering(g) /\ ctx[g].slug = r
      BY <3>1 DEF HeldInv
    <3>3. g \notin hs
      BY <1>4, <2>2, <3>2
    <3>4. QED
      BY <1>2, <1>3, <3>2, <3>3
  <2>3. \A u \in 1..Len(users') : users'[u].slug \in held'
    BY <1>1 DEF HeldInv
  <2>4. QED
    BY <2>1, <2>2, <2>3 DEF HeldInv
<1>7. OwnerInv'
  <2>1. ASSUME NEW g \in Handler, At(g, "commit")' PROVE SeesOwners(g)'
    <3>1. At(g, "commit") /\ ctx'[g] = ctx[g] /\ SeesOwners(g)
      BY <1>3, <2>1 DEF OwnerInv
    <3>2. \A u \in Owners(ctx[g].slug)' : u \in Owners(ctx[g].slug)
      BY <1>1, <3>1 DEF Owners
    <3>3. QED
      BY <1>1, <1>3, <3>1, <3>2 DEF SeesOwners
  <2>2. QED
    BY <1>1, <1>5, <2>1 DEF OwnerInv
<1>8. QED
  BY <1>6, <1>7

LEMMA CommitCreateHeld ==
  ASSUME TypeOK, KnowInv, HeldInv, OwnerInv, NEW h \in Handler, CommitCreate(h)
  PROVE  HeldInv' /\ OwnerInv'
<1>1. /\ At(h, "commit") /\ Maker(h) /\ SeesOwners(h) /\ ~Registering(h)
      /\ ctx[h].slug \in held /\ ctx[h].slug \in Slug
  BY MakersHold DEF CommitCreate, OwnerInv, At, Maker, Making, Registering, TypeOK
<1> PICK s \in Slug : s = ctx[h].slug
  BY <1>1
<1>2. Others(h) /\ ~Maker(h)' /\ UNCHANGED <<held, crowned, lost>>
  BY LeftAlone DEF CommitCreate, Maker, history
<1>3. \A g \in Handler : Maker(g)' => /\ g # h /\ Maker(g) /\ ctx'[g] = ctx[g]
                                      /\ Registering(g)' => Registering(g)
                                      /\ At(g, "commit")' => At(g, "commit")
  BY <1>2, MakersOf
<1> DEFINE n == Len(users) + 1
           Rolled == users' = users
           Committed ==
             /\ Len(users') = n
             /\ users'[n].slug = s /\ users'[n].role = ctx[h].role
             /\ \A u \in 1..Len(users) :
                  users'[u] = IF u \in ctx[h].demoted THEN [users[u] EXCEPT !.role = "admin"]
                                                      ELSE users[u]
<1>4. Rolled \/ Committed
  <2>1. NewUser(ctx[h].slug, ctx[h].role).slug = ctx[h].slug
        /\ NewUser(ctx[h].slug, ctx[h].role).role = ctx[h].role
    BY DEF NewUser
  <2>2. CASE Fine
    BY <2>1, <2>2, CreatedUsers
  <2>3. CASE Fault /\ UNCHANGED users
    BY <2>3
  <2>4. QED
    BY <2>2, <2>3 DEF CommitCreate
\* A user of another tenant is as it was; one of this tenant keeps its tenant.
<1>5. ASSUME Committed
      PROVE  /\ \A u \in 1..Len(users') : u \in 1..Len(users) \/ u = n
             /\ n \in 1..Len(users') /\ 1..Len(users) \subseteq 1..Len(users') /\ n \notin 1..Len(users)
             /\ \A u \in 1..Len(users) :
                  /\ users'[u].slug = users[u].slug
                  /\ u \notin ctx[h].demoted => users'[u] = users[u]
                  /\ u \in ctx[h].demoted => users'[u].role = "admin" /\ users[u].slug = s
  <2>1. Len(users) \in Nat /\ \A u \in 1..Len(users) : users[u] \in UserRow
    BY TokenTypes
  <2>2. \A u \in ctx[h].demoted : users[u].slug = s
    BY <1>1 DEF SeesOwners
  <2>3. ASSUME NEW u \in 1..Len(users)
        PROVE  /\ users'[u].slug = users[u].slug
               /\ u \notin ctx[h].demoted => users'[u] = users[u]
               /\ u \in ctx[h].demoted => users'[u].role = "admin"
    BY <1>5, <2>1 DEF UserRow
  <2>4. QED
    BY <1>5, <2>1, <2>2, <2>3
<1>6. \A r : r # s => \A u : u \in Owners(r)' <=> u \in Owners(r)
  <2>1. CASE Rolled
    BY <2>1 DEF Owners
  <2>2. CASE Committed
    BY <1>5, <2>2 DEF Owners
  <2>3. QED
    BY <1>4, <2>1, <2>2
\* An owner there was is an owner still, or the new one is.
<1>7. ASSUME Owners(s) # {} PROVE Owners(s)' # {}
  <2>1. CASE Rolled
    BY <1>7, <2>1 DEF Owners
  <2>2. CASE Committed
    <3>1. PICK u \in 1..Len(users) : users[u].slug = s /\ users[u].role = "owner"
      BY <1>7 DEF Owners
    <3>2. CASE u \in ctx[h].demoted
      <4>1. ctx[h].role = "owner"
        BY <1>1, <3>2 DEF SeesOwners
      <4>2. n \in 1..Len(users') /\ users'[n].slug = s /\ users'[n].role = "owner"
        BY <1>5, <2>2, <4>1
      <4>3. n \in Owners(s)'
        BY <4>2 DEF Owners
      <4>4. QED
        BY <4>3
    <3>3. CASE u \notin ctx[h].demoted
      <4>1. u \in Owners(s)'
        BY <1>5, <2>2, <3>1, <3>3 DEF Owners
      <4>2. QED
        BY <4>1
    <3>4. QED
      BY <3>2, <3>3
  <2>3. QED
    BY <1>4, <2>1, <2>2
<1>8. ASSUME ctx[h].role # "owner" PROVE \A u : u \in Owners(s)' <=> u \in Owners(s)
  <2>1. CASE Rolled
    BY <2>1 DEF Owners
  <2>2. CASE Committed
    <3>1. ctx[h].demoted = {}
      BY <1>1, <1>8 DEF SeesOwners
    <3>2. QED
      BY <1>5, <1>8, <2>2, <3>1 DEF Owners
  <2>3. QED
    BY <1>4, <2>1, <2>2
<1>9. ASSUME ctx[h].role = "owner", s \notin crowned, Committed
      PROVE  \A u : u \in Owners(s)' => u = n
  <2>1. \A u \in 1..Len(users) : users[u].slug = s /\ users[u].role = "owner" => u \in ctx[h].demoted
    BY <1>1, <1>9 DEF SeesOwners, Owners
  <2>2. \A u \in 1..Len(users) : users'[u].slug = s => users'[u].role # "owner"
    BY <1>5, <1>9, <2>1
  <2>3. QED
    BY <1>5, <1>9, <2>2 DEF Owners
<1>10. /\ \A u \in 1..Len(users) : u \in 1..Len(users') /\ users'[u].slug = users[u].slug
       /\ \A u \in 1..Len(users') : u \in 1..Len(users) \/ users'[u].slug = s
  <2>1. CASE Rolled
    BY <2>1
  <2>2. CASE Committed
    BY <1>5, <2>2
  <2>3. QED
    BY <1>4, <2>1, <2>2
<1> HIDE DEF Rolled, Committed, n
<1>11. HeldInv'
  <2>1. ASSUME NEW g \in Handler, Registering(g)' PROVE Alone(g)'
    <3>1. Maker(g)'
      BY <2>1, MakersAre
    <3>2. Registering(g) /\ Alone(g) /\ ctx'[g] = ctx[g] /\ g # h
      BY <1>3, <2>1, <3>1 DEF HeldInv
    <3>3. ctx[g].slug # s
      BY <1>1, <3>2 DEF Alone
    <3>4. \A u \in 1..Len(users') : users'[u].slug # ctx[g].slug
      BY <1>10, <3>2, <3>3 DEF Alone
    <3>5. QED
      BY <1>3, <3>2, <3>4 DEF Alone
  <2>2. ASSUME NEW r \in held' \ lost', ~(Owners(r) # {})'
        PROVE  \E g \in Handler : Registering(g)' /\ ctx'[g].slug = r
    <3>1. Owners(r) = {}
      BY <1>6, <1>7, <2>2
    <3>2. PICK g \in Handler : Registering(g) /\ ctx[g].slug = r
      BY <1>2, <2>2, <3>1 DEF HeldInv
    <3>3. g # h
      BY <1>1, <3>2
    <3>4. QED
      BY <1>2, <3>2, <3>3, MakersOf
  <2>3. \A u \in 1..Len(users') : users'[u].slug \in held'
    BY <1>1, <1>2, <1>10 DEF HeldInv
  <2>4. QED
    BY <2>1, <2>2, <2>3 DEF HeldInv
<1>12. OwnerInv'
  <2>1. ASSUME NEW g \in Handler, At(g, "commit")' PROVE SeesOwners(g)'
    <3>1. Maker(g)'
      BY <2>1, MakersAre
    <3>2. At(g, "commit") /\ SeesOwners(g) /\ ctx'[g] = ctx[g] /\ g # h
      BY <1>3, <2>1, <3>1 DEF OwnerInv
    <3>3. \A u \in ctx[g].demoted : u \in 1..Len(users') /\ users'[u].slug = ctx[g].slug
      BY <1>10, <3>2 DEF SeesOwners
    <3>4. \A f \in Handler : At(f, "commit")' => At(f, "commit") /\ ctx'[f] = ctx[f]
      BY <1>3, MakersAre
    <3>5. ASSUME ctx[g].role = "owner", ctx[g].slug \notin crowned
          PROVE  \A u \in Owners(ctx[g].slug)' : u \in ctx[g].demoted
      <4> PICK r : r = ctx[g].slug
        OBVIOUS
      <4>1. Owners(ctx[g].slug)' = Owners(r)' /\ Owners(ctx[g].slug) = Owners(r)
        BY <3>2 DEF Owners
      <4>2. \A u \in Owners(r) : u \in ctx[g].demoted
        BY <3>2, <3>5, <4>1 DEF SeesOwners
      <4>3. r = s => ctx[h].role # "owner"
        BY <1>1, <3>2, <3>5 DEF SeesOwners
      <4>4. \A u : u \in Owners(r)' <=> u \in Owners(r)
        BY <1>6, <1>8, <4>3
      <4>5. QED
        BY <4>1, <4>2, <4>4
    <3>6. QED
      BY <1>2, <3>2, <3>3, <3>4, <3>5 DEF SeesOwners
  <2>2. ASSUME NEW r \in Slug \ crowned', NEW u \in Owners(r)', NEW v \in Owners(r)'
        PROVE  u = v
    <3>1. r \in Slug \ crowned
      BY <1>2
    <3>2. CASE u \in Owners(r) /\ v \in Owners(r)
      BY <3>1, <3>2 DEF OwnerInv
    <3>3. CASE r = s /\ ctx[h].role = "owner" /\ Committed
      BY <1>9, <3>1, <3>3
    <3>4. Rolled => \A w : w \in Owners(r)' => w \in Owners(r)
      BY DEF Rolled, Owners
    <3>5. QED
      BY <1>4, <1>6, <1>8, <3>2, <3>3, <3>4
  <2>3. QED
    BY <2>1, <2>2 DEF OwnerInv
<1>13. QED
  BY <1>11, <1>12

-----------------------------------------------------------------------------
(* UseInv, SweepInv and ResetInv: steps that leave each of them alone.       *)

\* Who holds a token still does, where it was, or the token is raced for or
\* marked; a link whose holder is gone is raced for or marked.
LEMMA UseOn ==
  ASSUME TypeOK, TypeOK', KnowInv, UseInv, TokensKept, uses' = uses, raced \subseteq raced',
         \A g \in Handler : Busy(g)' /\ ctx'[g].tok # None =>
           /\ Busy(g) /\ ctx'[g].tok = ctx[g].tok
           /\ \/ ctx'[g].at = ctx[g].at
              \/ ctx[g].tok \in raced'
              \/ ctx[g].at = "mark" /\ ctx'[g].at = "issue" /\ tokens'[ctx[g].tok].used,
         \A g \in Handler : At(g, "links") =>
           \/ At(g, "links")' /\ ctx'[g].tok = ctx[g].tok
           \/ ctx[g].tok \in raced'
           \/ tokens'[ctx[g].tok].used
  PROVE  UseInv'
<1> SUFFICES ASSUME NEW t \in Token, t \notin raced'
             PROVE  /\ uses'[t] <= 1
                    /\ uses'[t] = 1 =>
                         /\ t \in 1..Len(tokens')
                         /\ tokens'[t].used \/ \E h \in Handler : At(h, "links")' /\ ctx'[h].tok = t
                    /\ \A h \in Handler : Busy(h)' /\ ctx'[h].tok = t =>
                         /\ Exchanging(h, t)' = {}
                         /\ ctx'[h].at \in Exchange \cup {"password"} => uses'[t] = 0
                         /\ ctx'[h].at = "issue" => tokens'[t].used
  BY DEF UseInv
<1>1. t \in Token \ raced /\ t # None
  BY NoneAssumption
<1>2. /\ uses[t] <= 1
      /\ uses[t] = 1 =>
           t \in 1..Len(tokens) /\ (tokens[t].used \/ \E h \in Handler : At(h, "links") /\ ctx[h].tok = t)
  BY <1>1 DEF UseInv
<1>3. Len(tokens) \in Nat /\ Len(tokens') \in Nat
  BY DEF TypeOK
<1>4. t \in 1..Len(tokens) => t \in 1..Len(tokens')
  BY <1>3 DEF TokensKept
<1>5. ASSUME uses[t] = 1
      PROVE  tokens'[t].used \/ \E h \in Handler : At(h, "links")' /\ ctx'[h].tok = t
  <2>1. CASE tokens[t].used
    BY <1>2, <1>5, <2>1 DEF TokensKept
  <2>2. CASE \E h \in Handler : At(h, "links") /\ ctx[h].tok = t
    <3>1. PICK h \in Handler : At(h, "links") /\ ctx[h].tok = t
      BY <2>2
    <3>2. QED
      BY <3>1
  <2>3. QED
    BY <1>2, <1>5, <2>1, <2>2
<1>6. ASSUME NEW h \in Handler, Busy(h)', ctx'[h].tok = t
      PROVE  /\ Exchanging(h, t)' = {}
             /\ ctx'[h].at \in Exchange \cup {"password"} => uses'[t] = 0
             /\ ctx'[h].at = "issue" => tokens'[t].used
  <2>1. /\ Busy(h) /\ ctx[h].tok = t
        /\ \/ ctx'[h].at = ctx[h].at
           \/ ctx[h].at = "mark" /\ ctx'[h].at = "issue" /\ tokens'[t].used
    BY <1>1, <1>6
  <2>2. /\ Exchanging(h, t) = {}
        /\ ctx[h].at \in Exchange \cup {"password"} => uses[t] = 0
        /\ ctx[h].at = "issue" => tokens[t].used
    BY <1>1, <2>1 DEF UseInv
  <2>3. t \in 1..Len(tokens)
    BY <1>1, <2>1 DEF KnowInv, Knows, Agrees
  <2>4. tokens[t].used => tokens'[t].used
    BY <2>3 DEF TokensKept
  <2>5. \A g \in Handler : Busy(g)' /\ ctx'[g].tok = t => Busy(g) /\ ctx[g].tok = t
    BY <1>1
  <2>6. Exchanging(h, t)' = {}
    BY <2>2, <2>5 DEF Exchanging
  <2>7. ctx'[h].at \in Exchange \cup {"password"} => uses'[t] = 0
    BY <2>1, <2>2 DEF Exchange
  <2>8. ctx'[h].at = "issue" => tokens'[t].used
    BY <2>1, <2>2, <2>4
  <2>9. QED
    BY <2>6, <2>7, <2>8
<1>7. QED
  BY <1>2, <1>4, <1>5, <1>6

\* A new session is younger than the sweep, and so is what a request trades.
LEMMA SweepOn ==
  ASSUME TypeOK, TypeOK', SweepInv, TokensKept, swept' = swept, raced \subseteq raced',
         \A t \in 1..Len(tokens') : t \notin 1..Len(tokens) /\ tokens'[t].kind = "session" =>
           /\ t > swept[tokens'[t].user]
           /\ t \notin raced' /\ tokens'[t].parent # None => tokens'[t].parent > swept[tokens'[t].user],
         \A g \in Handler : Trading(g)' =>
           \/ Trading(g) /\ ctx'[g].tok = ctx[g].tok /\ ctx'[g].user = ctx[g].user
           \/ ctx'[g].tok > swept[ctx'[g].user]
  PROVE  SweepInv'
<1>1. ASSUME NEW t \in 1..Len(tokens'), tokens'[t].kind = "session", ~tokens'[t].used
      PROVE  /\ t > swept'[tokens'[t].user]
             /\ t \notin raced' /\ tokens'[t].parent # None => tokens'[t].parent > swept'[tokens'[t].user]
  <2>1. CASE t \in 1..Len(tokens)
    <3>1. /\ tokens[t].kind = "session" /\ ~tokens[t].used
          /\ tokens'[t].user = tokens[t].user /\ tokens'[t].parent = tokens[t].parent
      BY <1>1, <2>1 DEF TokensKept
    <3>2. QED
      BY <2>1, <3>1 DEF SweepInv
  <2>2. CASE t \notin 1..Len(tokens)
    BY <1>1, <2>2
  <2>3. QED
    BY <2>1, <2>2
<1>2. ASSUME NEW g \in Handler, Trading(g)' PROVE ctx'[g].tok > swept'[ctx'[g].user]
  BY <1>2 DEF SweepInv
<1>3. QED
  BY <1>1, <1>2 DEF SweepInv

\* A link that no longer is about to be marked is raced for or marked.
LEMMA ResetOn ==
  ASSUME TypeOK, TypeOK', RowInv, ResetInv, TokensKept, reset' = reset, raced \subseteq raced',
         RowInv',
         \A g \in Handler : At(g, "links") =>
           \/ At(g, "links")' /\ ctx'[g].user = ctx[g].user
           \/ \A t \in 1..Len(tokens) : tokens[t].kind = "reset" /\ tokens[t].user = ctx[g].user =>
                t \in raced' \/ tokens'[t].used
  PROVE  ResetInv'
<1> SUFFICES ASSUME NEW t \in 1..Len(tokens'), t \notin raced', tokens'[t].kind = "reset", ~tokens'[t].used
             PROVE  \/ t > reset'[tokens'[t].user]
                    \/ \E h \in Handler : At(h, "links")' /\ ctx'[h].user = tokens'[t].user
  BY DEF ResetInv
<1>1. CASE t \in 1..Len(tokens)
  <2>1. tokens[t].kind = "reset" /\ ~tokens[t].used /\ tokens'[t].user = tokens[t].user
    BY <1>1 DEF TokensKept
  <2>2. CASE \E h \in Handler : At(h, "links") /\ ctx[h].user = tokens[t].user
    <3>1. PICK h \in Handler : At(h, "links") /\ ctx[h].user = tokens[t].user
      BY <2>2
    <3>2. At(h, "links")' /\ ctx'[h].user = ctx[h].user
      BY <1>1, <2>1, <3>1
    <3>3. QED
      BY <2>1, <3>1, <3>2
  <2>3. QED
    BY <1>1, <2>1, <2>2 DEF ResetInv
<1>2. CASE t \notin 1..Len(tokens)
  <2>1. tokens'[t] \in TokenRow
    BY DEF TypeOK
  <2>2. tokens'[t].user \in User
    BY <2>1 DEF TokenRow
  <2>3. reset[tokens'[t].user] <= Len(tokens) /\ reset[tokens'[t].user] \in Nat
    BY <2>2, BoundAssumption DEF RowInv, TypeOK
  <2>4. Len(tokens) \in Nat /\ Len(tokens') \in Nat
    BY DEF TypeOK
  <2>5. QED
    BY <1>2, <2>3, <2>4
<1>3. QED
  BY <1>1, <1>2

\* Every token in an exchange and every link about to be marked is as it was.
HoldersSame ==
  \A g \in Handler :
    /\ Busy(g)' /\ ctx'[g].tok # None =>
         /\ Busy(g) /\ ctx'[g].tok = ctx[g].tok /\ ctx'[g].at = ctx[g].at
         /\ ctx'[g].user = ctx[g].user /\ (ctx[g].late => ctx'[g].late)
    /\ At(g, "links") => At(g, "links")' /\ ctx'[g].tok = ctx[g].tok /\ ctx'[g].user = ctx[g].user

History == UseInv /\ SweepInv /\ ResetInv

LEMMA TradesOn ==
  ASSUME TypeOK, KnowInv, TokensKept, NEW g \in Handler, Trading(g)',
         Busy(g), ctx'[g].tok = ctx[g].tok, ctx'[g].at = ctx[g].at, ctx[g].late => ctx'[g].late
  PROVE  Trading(g)
<1>1. ctx[g].tok \in 1..Len(tokens)
  BY DEF Trading, KnowInv, Knows, Agrees
<1>2. tokens'[ctx[g].tok].kind = tokens[ctx[g].tok].kind
  BY <1>1 DEF TokensKept
<1>3. QED
  BY <1>1, <1>2 DEF Trading

LEMMA QuietHistory ==
  ASSUME TypeOK, TypeOK', KnowInv, RowInv, RowInv', History, TokensKept, HoldersSame,
         UNCHANGED <<uses, swept, reset>>, raced \subseteq raced',
         \A t \in 1..Len(tokens') : t \notin 1..Len(tokens) => tokens'[t].kind # "session"
  PROVE  History'
<1>1. UseInv'
  BY UseOn DEF History, HoldersSame
<1>2. \A g \in Handler : Trading(g)' =>
        Trading(g) /\ ctx'[g].tok = ctx[g].tok /\ ctx'[g].user = ctx[g].user
  <2> SUFFICES ASSUME NEW g \in Handler, Trading(g)'
               PROVE  Trading(g) /\ ctx'[g].tok = ctx[g].tok /\ ctx'[g].user = ctx[g].user
    OBVIOUS
  <2>1. Busy(g)' /\ ctx'[g].tok # None
    BY DEF Trading
  <2>2. /\ Busy(g) /\ ctx'[g].tok = ctx[g].tok /\ ctx'[g].at = ctx[g].at
        /\ ctx'[g].user = ctx[g].user /\ (ctx[g].late => ctx'[g].late)
    BY <2>1 DEF HoldersSame
  <2>3. QED
    BY <2>2, TradesOn
<1>3. SweepInv'
  BY <1>2, SweepOn DEF History
<1>4. ResetInv'
  BY ResetOn DEF History, HoldersSame
<1>5. QED
  BY <1>1, <1>3, <1>4 DEF History

LEMMA HoldersOfOne ==
  ASSUME NEW h \in Handler, Others(h), Busy(h)' => ctx'[h].tok = None, ~At(h, "links")
  PROVE  HoldersSame
BY DEF Others, At, Busy, HoldersSame

\* Requests that start without a token.
LEMMA StartHistory ==
  ASSUME TypeOK, TypeOK', KnowInv, RowInv, RowInv', History, NEW h \in Handler,
         NEW s, NEW role, NEW u, NEW t,
         \/ InsertTenant(h, s) \/ BeginCreate(h, s, role) \/ Login(h, u) \/ ForgotPassword(h, u)
         \/ SelectUsed(h, t)
  PROVE  History'
<1>1. ~Busy(h) /\ Others(h) /\ ctx'[h].tok = None
  <2>1. CASE InsertTenant(h, s)
    BY <2>1, StartedAlone DEF InsertTenant, Start, Idle
  <2>2. CASE BeginCreate(h, s, role)
    BY <2>2, StartedAlone DEF BeginCreate, Start, Idle
  <2>3. CASE Login(h, u)
    BY <2>3, StartedAlone DEF Login, Start, Idle
  <2>4. CASE ForgotPassword(h, u)
    BY <2>4, StartedAlone DEF ForgotPassword, Start, Idle
  <2>5. CASE SelectUsed(h, t)
    <3> DEFINE c == [Idle EXCEPT !.at = "sweep", !.user = tokens[t].user]
    <3>1. Start(h, c)
      BY <2>5 DEF SelectUsed
    <3>2. c.tok = None
      BY DEF Idle
    <3> HIDE DEF c
    <3>3. QED
      BY <3>1, <3>2, StartedAlone DEF Start
  <2>6. QED
    BY <2>1, <2>2, <2>3, <2>4, <2>5
<1>2. UNCHANGED <<tokens, uses, raced, swept, reset>>
  <2>1. CASE InsertTenant(h, s)
    BY <2>1 DEF InsertTenant, history
  <2>2. CASE BeginCreate(h, s, role)
    BY <2>2 DEF BeginCreate, rows
  <2>3. CASE Login(h, u) \/ ForgotPassword(h, u) \/ SelectUsed(h, t)
    BY <2>3 DEF Login, ForgotPassword, SelectUsed, rows, history
  <2>4. QED
    BY <2>1, <2>2, <2>3
<1>3. HoldersSame
  BY <1>1, HoldersOfOne DEF At
<1>4. QED
  BY <1>2, <1>3, KeptBySame, QuietHistory

LEMMA ChooseHistory ==
  ASSUME TypeOK, TypeOK', KnowInv, RowInv, RowInv', History, NEW h \in Handler, NEW u \in User,
         NEW kind \in {"code", "key"}, NEW role \in Role, NEW chosen \in Requests,
         Choose(h, u, kind, role, chosen)
  PROVE  History'
<1>1. PICK r \in TokenRow : tokens' = Append(tokens, r) /\ r.kind = kind
  BY ChosenRow
<1>2. /\ TokensKept
      /\ \A t \in 1..Len(tokens') : t \notin 1..Len(tokens) => tokens'[t].kind # "session"
  BY <1>1, KeptByAppend, TokenTypes
<1>3. UNCHANGED <<uses, raced, swept, reset, ctx>>
  BY DEF Choose, history
<1>4. HoldersSame
  BY <1>3 DEF HoldersSame, At, Busy
<1>5. QED
  BY <1>2, <1>3, <1>4, QuietHistory

LEMMA LogoutHistory ==
  ASSUME TypeOK, TypeOK', KnowInv, RowInv, RowInv', History, NEW h \in Handler, NEW t \in Token,
         Logout(h, t)
  PROVE  History'
<1>1. TokensKept /\ Len(tokens') = Len(tokens)
  BY KeptByRevoke DEF Logout
<1>2. UNCHANGED <<uses, raced, swept, reset, ctx>>
  BY DEF Logout, history
<1>3. HoldersSame
  BY <1>2 DEF HoldersSame, At, Busy
<1>4. QED
  BY <1>1, <1>2, <1>3, QuietHistory

LEMMA Tokenless ==
  ASSUME KnowInv, NEW h \in Handler, Busy(h), ctx[h].at \notin Exchange \cup Resetting
  PROVE  ctx[h].tok = None
BY DEF KnowInv, Knows, Agrees

LEMMA InsertUserHistory ==
  ASSUME TypeOK, TypeOK', KnowInv, RowInv, RowInv', History, NEW h \in Handler, InsertUser(h)
  PROVE  History'
<1>1. Busy(h) /\ ctx[h].at = "insert user" /\ ctx[h] \in Context
  BY Contexts DEF InsertUser, At
<1>2. ctx[h].tok = None
  BY <1>1, Tokenless DEF Exchange, Resetting
<1>3. Others(h) /\ (Busy(h)' => ctx'[h].tok = None)
  <2>1. CASE Leave(h)
    BY <2>1, LeftAlone
  <2>2. CASE Goto(h, "undo")
    BY <1>1, <1>2, <2>2, WentAlone
  <2>3. CASE ctx' = [ctx EXCEPT ![h].at = "issue", ![h].user = Len(users) + 1]
    <3>1. Others(h) /\ ctx'[h] = [ctx[h] EXCEPT !.at = "issue", !.user = Len(users) + 1]
      BY <2>3 DEF TypeOK, Others
    <3>2. QED
      BY <1>1, <1>2, <3>1 DEF Context
  <2>4. QED
    BY <2>1, <2>2, <2>3 DEF InsertUser
<1>4. UNCHANGED <<tokens, uses, raced, swept, reset>>
  BY DEF InsertUser, history
<1>5. HoldersSame
  BY <1>1, <1>3, HoldersOfOne DEF At
<1>6. QED
  BY <1>4, <1>5, KeptBySame, QuietHistory

LEMMA DeleteTenantHistory ==
  ASSUME TypeOK, TypeOK', KnowInv, RowInv, RowInv', History, NEW h \in Handler, DeleteTenant(h)
  PROVE  History'
<1>1. Others(h) /\ ~Busy(h)' /\ ~At(h, "links")
  BY LeftAlone DEF DeleteTenant, At
<1>2. UNCHANGED <<tokens, uses, raced, swept, reset>>
  BY DEF DeleteTenant
<1>3. QED
  BY <1>1, <1>2, HoldersOfOne, KeptBySame, QuietHistory

LEMMA CreateHistory ==
  ASSUME TypeOK, TypeOK', KnowInv, RowInv, RowInv', History, NEW h \in Handler,
         CommitCreate(h) \/ InsertLink(h)
  PROVE  History'
<1>1. Others(h) /\ ~Busy(h)' /\ ~At(h, "links")
  BY LeftAlone DEF CommitCreate, InsertLink, At
<1>2. UNCHANGED <<uses, raced, swept, reset>>
  BY DEF CommitCreate, InsertLink, history
<1>3. HoldersSame
  BY <1>1, HoldersOfOne
<1>4. CASE tokens' = tokens
  BY <1>2, <1>3, <1>4, KeptBySame, QuietHistory
<1>5. CASE tokens' # tokens
  <2>1. PICK u : tokens' = Append(tokens, Row("reset", u)) /\ Row("reset", u) \in TokenRow
    <3>1. CASE CommitCreate(h)
      <4>1. Len(users') = Len(users) + 1 /\ tokens' = Append(tokens, Row("reset", Len(users) + 1))
        BY <1>5, <3>1, CreatedUsers DEF CommitCreate
      <4>2. Len(users) + 1 \in User
        BY <4>1, TokenTypes, BoundAssumption DEF TypeOK, User
      <4>3. QED
        BY <4>1, <4>2, NewRow DEF Kind
    <3>2. CASE InsertLink(h)
      <4>1. ctx[h].user \in User /\ tokens' = Append(tokens, Row("reset", ctx[h].user))
        BY <1>5, <3>2, TokenTypes DEF InsertLink, At, KnowInv, Knows, Agrees, Personal
      <4>2. QED
        BY <4>1, NewRow DEF Kind
    <3>3. QED
      BY <3>1, <3>2
  <2>2. Row("reset", u).kind = "reset"
    BY DEF Row
  <2>3. /\ TokensKept
        /\ \A t \in 1..Len(tokens') : t \notin 1..Len(tokens) => tokens'[t].kind # "session"
    BY <2>1, <2>2, KeptByAppend, TokenTypes
  <2>4. QED
    BY <1>2, <1>3, <2>3, QuietHistory
<1>6. QED
  BY <1>4, <1>5

-----------------------------------------------------------------------------
(* UseInv, SweepInv and ResetInv: steps that exchange tokens.                *)

LEMMA SelectHistory ==
  ASSUME TypeOK, TypeOK', KnowInv, RowInv, RowInv', History, NEW h \in Handler, NEW t \in Token,
         Select(h, t)
  PROVE  History'
<1> DEFINE step == IF tokens[t].kind = "reset" THEN "password" ELSE "mark"
           c == [Idle EXCEPT !.at = step, !.tok = t, !.user = tokens[t].user]
<1>1. Others(h) /\ ctx'[h] = c /\ ~Busy(h)
  BY StartedAlone DEF Select, Start
<1>2. c.at = step /\ c.tok = t /\ c.user = tokens[t].user
  BY DEF Idle
<1> HIDE DEF c
<1>3. /\ UNCHANGED <<tokens, uses, swept, reset>> /\ raced \subseteq raced'
      /\ t \notin raced' => Exchanging(h, t) = {}
      /\ t \in 1..Len(tokens) /\ ~tokens[t].used /\ t # None
  BY NoneAssumption, TokenTypes DEF Select, rows, Token
<1>4. TokensKept
  BY <1>3, KeptBySame
<1>5. UseInv'
  <2> SUFFICES ASSUME NEW r \in Token, r \notin raced'
               PROVE  /\ uses[r] <= 1
                      /\ uses[r] = 1 =>
                           /\ r \in 1..Len(tokens)
                           /\ tokens[r].used \/ \E g \in Handler : At(g, "links")' /\ ctx'[g].tok = r
                      /\ \A g \in Handler : Busy(g)' /\ ctx'[g].tok = r =>
                           /\ Exchanging(g, r)' = {}
                           /\ ctx'[g].at \in Exchange \cup {"password"} => uses[r] = 0
                           /\ ctx'[g].at = "issue" => tokens[r].used
    BY <1>3 DEF UseInv
  <2>1. /\ uses[r] <= 1 /\ uses[r] \in Nat
        /\ uses[r] = 1 =>
             r \in 1..Len(tokens) /\ (tokens[r].used \/ \E g \in Handler : At(g, "links") /\ ctx[g].tok = r)
        /\ \A g \in Handler : Busy(g) /\ ctx[g].tok = r =>
             /\ Exchanging(g, r) = {}
             /\ ctx[g].at \in Exchange \cup {"password"} => uses[r] = 0
             /\ ctx[g].at = "issue" => tokens[r].used
    BY <1>3 DEF History, UseInv, TypeOK
  <2>2. \A g \in Handler \ {h} : /\ ctx'[g] = ctx[g] /\ (Busy(g)' <=> Busy(g))
                                 /\ At(g, "links")' <=> At(g, "links")
    BY <1>1 DEF Others, Busy, At
  <2>3. \A g \in Handler : At(g, "links") => g # h
    BY <1>1 DEF At
  <2>4. ASSUME NEW g \in Handler, Busy(g)', ctx'[g].tok = r
        PROVE  /\ Exchanging(g, r)' = {}
               /\ ctx'[g].at \in Exchange \cup {"password"} => uses[r] = 0
               /\ ctx'[g].at = "issue" => tokens[r].used
    <3>1. CASE r = t
      <4>1. \A f \in Handler \ {h} : ~(Busy(f) /\ ctx[f].tok = t)
        BY <1>3, <2>4, <3>1 DEF Exchanging
      <4>2. g = h
        BY <2>2, <2>4, <3>1, <4>1
      <4>3. Exchanging(g, r)' = {}
        BY <2>2, <3>1, <4>1, <4>2 DEF Exchanging
      <4>4. uses[r] # 1
        BY <1>1, <1>3, <2>1, <3>1, <4>1 DEF At
      <4>5. ctx'[g].at # "issue"
        BY <1>1, <1>2, <4>2
      <4>6. QED
        BY <2>1, <4>3, <4>4, <4>5
    <3>2. CASE r # t
      <4>1. g # h
        BY <1>1, <1>2, <2>4, <3>2
      <4>2. Busy(g) /\ ctx[g].tok = r /\ ctx'[g] = ctx[g]
        BY <2>2, <2>4, <4>1
      <4>3. \A f \in Handler : Busy(f)' /\ ctx'[f].tok = r => Busy(f) /\ ctx[f].tok = r
        BY <1>1, <1>2, <2>2, <3>2
      <4>4. Exchanging(g, r)' = {}
        BY <2>1, <4>2, <4>3 DEF Exchanging
      <4>5. QED
        BY <2>1, <4>2, <4>4
    <3>3. QED
      BY <3>1, <3>2
  <2>5. QED
    BY <2>1, <2>2, <2>3, <2>4
<1>6. SweepInv'
  <2>1. ASSUME NEW g \in Handler, Trading(g)'
        PROVE  \/ Trading(g) /\ ctx'[g].tok = ctx[g].tok /\ ctx'[g].user = ctx[g].user
               \/ ctx'[g].tok > swept[ctx'[g].user]
    <3>1. CASE g = h
      <4>1. tokens[t].kind = "session"
        BY <1>1, <1>2, <1>3, <2>1, <3>1 DEF Trading
      <4>2. t > swept[tokens[t].user]
        BY <1>3, <4>1 DEF History, SweepInv
      <4>3. QED
        BY <1>1, <1>2, <3>1, <4>2
    <3>2. CASE g # h
      BY <1>1, <1>3, <2>1, <3>2 DEF Others, Trading, Busy
    <3>3. QED
      BY <3>1, <3>2
  <2>2. \A r \in 1..Len(tokens') : r \in 1..Len(tokens)
    BY <1>3
  <2>3. QED
    BY <1>3, <1>4, <2>1, <2>2, SweepOn DEF History
<1>7. ResetInv'
  <2>1. \A g \in Handler : At(g, "links") => At(g, "links")' /\ ctx'[g].user = ctx[g].user
    BY <1>1 DEF Others, At, Busy
  <2>2. QED
    BY <1>3, <1>4, <2>1, ResetOn DEF History
<1>8. QED
  BY <1>5, <1>6, <1>7 DEF History

LEMMA MarkHistory ==
  ASSUME TypeOK, TypeOK', KnowInv, RowInv, RowInv', History, NEW h \in Handler, Mark(h)
  PROVE  History'
<1>1. Busy(h) /\ ctx[h].at = "mark" /\ ctx[h].tok \in 1..Len(tokens)
  BY DEF Mark, At, KnowInv, Knows, Agrees
<1>2. /\ Others(h) /\ ctx'[h].at = "issue" /\ ctx'[h].tok = ctx[h].tok
      /\ ctx'[h].user = ctx[h].user /\ ctx'[h].late = ctx[h].late
  BY <1>1, WentAlone DEF Mark
<1>3. /\ TokensKept /\ Len(tokens') = Len(tokens)
      /\ tokens'[ctx[h].tok].used \/ ctx[h].tok \in raced'
      /\ raced \subseteq raced'
  <2>1. CASE tokens' = Revoke({ctx[h].tok}) /\ UNCHANGED raced
    BY <1>1, <2>1, KeptByRevoke
  <2>2. CASE tokens' = tokens /\ raced' = raced \cup {ctx[h].tok}
    BY <2>2, KeptBySame
  <2>3. QED
    BY <2>1, <2>2 DEF Mark
<1>4. UNCHANGED <<uses, swept, reset>>
  BY DEF Mark
<1>5. \A g \in Handler \ {h} : ctx'[g] = ctx[g] /\ (Busy(g)' <=> Busy(g))
                               /\ (At(g, "links")' <=> At(g, "links"))
  BY <1>2 DEF Others, Busy, At
<1>6. \A g \in Handler : At(g, "links") => g # h
  BY <1>1 DEF At
<1>7. UseInv'
  <2>1. \A g \in Handler : Busy(g)' /\ ctx'[g].tok # None =>
           /\ Busy(g) /\ ctx'[g].tok = ctx[g].tok
           /\ \/ ctx'[g].at = ctx[g].at
              \/ ctx[g].tok \in raced'
              \/ ctx[g].at = "mark" /\ ctx'[g].at = "issue" /\ tokens'[ctx[g].tok].used
    BY <1>1, <1>2, <1>3, <1>5
  <2>2. \A g \in Handler : At(g, "links") => At(g, "links")' /\ ctx'[g].tok = ctx[g].tok
    BY <1>5, <1>6
  <2>3. QED
    BY <1>3, <1>4, <2>1, <2>2, UseOn DEF History
<1>8. SweepInv'
  <2>1. ASSUME NEW g \in Handler, Trading(g)'
        PROVE  Trading(g) /\ ctx'[g].tok = ctx[g].tok /\ ctx'[g].user = ctx[g].user
    <3>1. Busy(g) /\ ctx'[g].tok = ctx[g].tok /\ ctx'[g].user = ctx[g].user
          /\ ctx'[g].late = ctx[g].late /\ ctx[g].at \in Exchange
      BY <1>1, <1>2, <1>5, <2>1 DEF Trading, Exchange
    <3>2. ctx[g].tok \in 1..Len(tokens)
      BY <2>1, <3>1 DEF Trading, KnowInv, Knows, Agrees
    <3>3. tokens'[ctx[g].tok].kind = tokens[ctx[g].tok].kind
      BY <1>3, <3>2 DEF TokensKept
    <3>4. QED
      BY <2>1, <3>1, <3>3 DEF Trading
  <2>2. QED
    BY <1>3, <1>4, <2>1, SweepOn DEF History
<1>9. ResetInv'
  <2>1. \A g \in Handler : At(g, "links") => At(g, "links")' /\ ctx'[g].user = ctx[g].user
    BY <1>5, <1>6
  <2>2. QED
    BY <1>3, <1>4, <2>1, ResetOn DEF History
<1>10. QED
  BY <1>7, <1>8, <1>9 DEF History

LEMMA IssueHistory ==
  ASSUME TypeOK, TypeOK', KnowInv, RowInv, RowInv', History, NEW h \in Handler, Issue(h)
  PROVE  History'
<1> DEFINE c == ctx[h]
           n == Len(tokens) + 1
<1>1. /\ Busy(h) /\ At(h, "issue") /\ c.at = "issue" /\ c.user \in 1..Len(users) /\ c.user \in User
      /\ c.tok # None => c.tok \in 1..Len(tokens) /\ tokens[c.tok].user = c.user
      /\ ~At(h, "links")
  BY TokenTypes DEF Issue, At, KnowInv, Knows, Agrees, Personal, Exchange
<1>2. Others(h) /\ ~Busy(h)'
  BY LeftAlone DEF Issue
<1>3. HoldersSame
  BY <1>1, <1>2, HoldersOfOne
<1>4. UNCHANGED <<swept, reset>>
  BY DEF Issue
<1>5. CASE UNCHANGED <<tokens, uses, raced>>
  BY <1>3, <1>4, <1>5, KeptBySame, QuietHistory
<1>6. CASE /\ tokens' = Append(tokens, NewToken(c))
           /\ uses' = IF c.tok = None THEN uses ELSE [uses EXCEPT ![c.tok] = @ + 1]
           /\ raced' = IF c.late THEN raced \cup {Len(tokens) + 1} ELSE raced
  <2>1. /\ NewToken(c) \in TokenRow /\ NewToken(c).user = c.user /\ NewToken(c).parent = c.tok
        /\ NewToken(c).kind = "session" /\ c.tok # None => tokens[c.tok].kind = "session"
    BY <1>1, IssuedRow
  <2>2. /\ TokensKept /\ Len(tokens') = n /\ tokens'[n] = NewToken(c)
        /\ \A t \in 1..Len(tokens) : tokens'[t] = tokens[t]
    BY <1>6, <2>1, KeptByAppend
  <2>3. Len(tokens) \in Nat /\ raced \subseteq raced' /\ (c.late => n \in raced')
    BY <1>6, TokenTypes
  <2>4. UseInv'
    <3>1. CASE c.tok = None
      BY <1>3, <1>6, <2>2, <2>3, <3>1, UseOn DEF History, HoldersSame
    <3>2. CASE c.tok # None
      <4> SUFFICES ASSUME NEW t \in Token, t \notin raced'
                   PROVE  /\ uses'[t] <= 1
                          /\ uses'[t] = 1 =>
                               /\ t \in 1..Len(tokens')
                               /\ tokens'[t].used \/ \E g \in Handler : At(g, "links")' /\ ctx'[g].tok = t
                          /\ \A g \in Handler : Busy(g)' /\ ctx'[g].tok = t =>
                               /\ Exchanging(g, t)' = {}
                               /\ ctx'[g].at \in Exchange \cup {"password"} => uses'[t] = 0
                               /\ ctx'[g].at = "issue" => tokens'[t].used
        BY DEF UseInv
      <4>1. /\ uses[t] <= 1 /\ uses[t] \in Nat
            /\ uses[t] = 1 =>
                 t \in 1..Len(tokens) /\ (tokens[t].used \/ \E g \in Handler : At(g, "links") /\ ctx[g].tok = t)
            /\ \A g \in Handler : Busy(g) /\ ctx[g].tok = t =>
                 /\ Exchanging(g, t) = {}
                 /\ ctx[g].at \in Exchange \cup {"password"} => uses[t] = 0
                 /\ ctx[g].at = "issue" => tokens[t].used
        BY <2>3 DEF History, UseInv, TypeOK
      <4>2. 1..Len(tokens) \subseteq 1..Len(tokens') /\ t # None
        BY <2>2, <2>3, NoneAssumption
      <4>3. \A g \in Handler : Busy(g)' => Busy(g) /\ ctx'[g] = ctx[g] /\ g # h
        BY <1>2 DEF Others, Busy
      <4>4. CASE t = c.tok
        <5>1. uses[t] = 0 /\ tokens[t].used /\ Exchanging(h, t) = {}
          BY <1>1, <4>1, <4>4 DEF Exchange
        <5>2. uses'[t] = 1
          BY <1>6, <3>2, <4>4, <5>1 DEF TypeOK
        <5>3. t \in 1..Len(tokens') /\ tokens'[t].used
          BY <1>1, <2>2, <4>2, <4>4, <5>1
        <5>4. \A g \in Handler : ~(Busy(g)' /\ ctx'[g].tok = t)
          BY <4>3, <5>1 DEF Exchanging
        <5>5. QED
          BY <5>2, <5>3, <5>4
      <4>5. CASE t # c.tok
        <5>1. uses'[t] = uses[t]
          BY <1>6, <3>2, <4>5 DEF TypeOK
        <5>2. uses[t] = 1 => /\ t \in 1..Len(tokens')
                             /\ tokens'[t].used \/ \E g \in Handler : At(g, "links")' /\ ctx'[g].tok = t
          BY <1>3, <2>2, <4>1, <4>2 DEF HoldersSame
        <5>3. ASSUME NEW g \in Handler, Busy(g)', ctx'[g].tok = t
              PROVE  /\ Exchanging(g, t)' = {}
                     /\ ctx'[g].at \in Exchange \cup {"password"} => uses'[t] = 0
                     /\ ctx'[g].at = "issue" => tokens'[t].used
          <6>1. Busy(g) /\ ctx'[g] = ctx[g]
            BY <4>3, <5>3
          <6>2. Exchanging(g, t)' = {}
            BY <4>1, <4>3, <5>3, <6>1 DEF Exchanging
          <6>3. t \in 1..Len(tokens)
            BY <4>2, <5>3, <6>1 DEF KnowInv, Knows, Agrees
          <6>4. QED
            BY <2>2, <4>1, <5>1, <5>3, <6>1, <6>2, <6>3
        <5>4. QED
          BY <4>1, <5>1, <5>2, <5>3
      <4>6. QED
        BY <4>4, <4>5
    <3>3. QED
      BY <3>1, <3>2
  <2>5. SweepInv'
    <3>1. swept[c.user] <= Len(tokens) /\ swept[c.user] \in Nat
      BY <1>1, BoundAssumption DEF RowInv, TypeOK
    <3>2. ASSUME NewToken(c).kind = "session", n \notin raced', c.tok # None
          PROVE  c.tok > swept[c.user]
      <4>1. Trading(h)
        BY <1>1, <2>1, <2>3, <3>2 DEF Trading, Exchange
      <4>2. QED
        BY <4>1 DEF History, SweepInv
    <3>3. ASSUME NEW t \in 1..Len(tokens'), t \notin 1..Len(tokens), tokens'[t].kind = "session"
          PROVE  /\ t > swept[tokens'[t].user]
                 /\ t \notin raced' /\ tokens'[t].parent # None => tokens'[t].parent > swept[tokens'[t].user]
      <4>1. t = n
        BY <2>2, <2>3, <3>3
      <4>2. QED
        BY <2>1, <2>2, <2>3, <3>1, <3>2, <3>3, <4>1
    <3>4. ASSUME NEW g \in Handler, Trading(g)'
          PROVE  Trading(g) /\ ctx'[g].tok = ctx[g].tok /\ ctx'[g].user = ctx[g].user
      <4>1. Busy(g)' /\ ctx'[g].tok # None
        BY <3>4 DEF Trading
      <4>2. /\ Busy(g) /\ ctx'[g].tok = ctx[g].tok /\ ctx'[g].at = ctx[g].at
            /\ ctx'[g].user = ctx[g].user /\ (ctx[g].late => ctx'[g].late)
        BY <1>3, <4>1 DEF HoldersSame
      <4>3. QED
        BY <2>2, <3>4, <4>2, TradesOn
    <3>5. QED
      BY <1>4, <2>2, <2>3, <3>3, <3>4, SweepOn DEF History
  <2>6. ResetInv'
    BY <1>3, <1>4, <2>2, <2>3, ResetOn DEF History, HoldersSame
  <2>7. QED
    BY <2>4, <2>5, <2>6 DEF History
<1>7. QED
  BY <1>5, <1>6 DEF Issue

LEMMA SetPasswordHistory ==
  ASSUME TypeOK, TypeOK', KnowInv, RowInv, RowInv', History, NEW h \in Handler, SetPassword(h)
  PROVE  History'
<1> DEFINE c == ctx[h]
<1>1. /\ Busy(h) /\ c.at = "password" /\ c.user \in User
      /\ c.tok \in 1..Len(tokens) /\ tokens[c.tok].user = c.user /\ c.tok \in Token
  BY TokenTypes DEF SetPassword, At, KnowInv, Knows, Agrees, Personal, Resetting
<1>2. UNCHANGED <<tokens, raced, swept>> /\ TokensKept
  BY KeptBySame DEF SetPassword, rows
<1>3. ~At(h, "links")
  BY <1>1 DEF At
<1>4. CASE Leave(h) /\ UNCHANGED <<uses, reset>>
  <2>1. HoldersSame
    BY <1>3, <1>4, LeftAlone, HoldersOfOne
  <2>2. QED
    BY <1>2, <1>4, <2>1, QuietHistory
<1>5. CASE /\ Goto(h, "links")
           /\ uses' = [uses EXCEPT ![c.tok] = @ + 1]
           /\ reset' = [reset EXCEPT ![c.user] = Len(tokens)]
  <2>1. /\ Others(h) /\ ctx'[h] = [c EXCEPT !.at = "links"]
        /\ ctx'[h].at = "links" /\ ctx'[h].tok = c.tok /\ ctx'[h].user = c.user
    BY <1>1, <1>5, WentAlone
  <2>2. Busy(h)' /\ At(h, "links")'
    <3>1. c \in Context
      BY <1>1, Contexts
    <3>2. ctx'[h] \in Context
      BY <2>1, <3>1 DEF Context
    <3>3. QED
      BY <2>1, <3>2, NoneAssumption DEF Busy, At
  <2>3. \A g \in Handler \ {h} : ctx'[g] = ctx[g] /\ (Busy(g)' <=> Busy(g))
                                 /\ (At(g, "links")' <=> At(g, "links"))
    BY <2>1 DEF Others, Busy, At
  <2>4. UseInv'
    <3> SUFFICES ASSUME NEW t \in Token, t \notin raced
                 PROVE  /\ uses'[t] <= 1
                        /\ uses'[t] = 1 =>
                             /\ t \in 1..Len(tokens)
                             /\ tokens[t].used \/ \E g \in Handler : At(g, "links")' /\ ctx'[g].tok = t
                        /\ \A g \in Handler : Busy(g)' /\ ctx'[g].tok = t =>
                             /\ Exchanging(g, t)' = {}
                             /\ ctx'[g].at \in Exchange \cup {"password"} => uses'[t] = 0
                             /\ ctx'[g].at = "issue" => tokens[t].used
      BY <1>2 DEF UseInv
    <3>1. /\ uses[t] <= 1 /\ uses[t] \in Nat
          /\ uses[t] = 1 =>
               t \in 1..Len(tokens) /\ (tokens[t].used \/ \E g \in Handler : At(g, "links") /\ ctx[g].tok = t)
          /\ \A g \in Handler : Busy(g) /\ ctx[g].tok = t =>
               /\ Exchanging(g, t) = {}
               /\ ctx[g].at \in Exchange \cup {"password"} => uses[t] = 0
               /\ ctx[g].at = "issue" => tokens[t].used
      BY DEF History, UseInv, TypeOK
    <3>2. \A g \in Handler : Busy(g)' /\ ctx'[g].tok = t => Busy(g) /\ ctx[g].tok = t
      BY <1>1, <2>1, <2>3
    <3>3. \A g \in Handler : Busy(g)' /\ ctx'[g].tok = t => Exchanging(g, t)' = {}
      BY <3>1, <3>2 DEF Exchanging
    <3>4. CASE t = c.tok
      <4>1. uses[t] = 0 /\ Exchanging(h, t) = {}
        BY <1>1, <3>1, <3>4
      <4>2. uses'[t] = 1
        BY <1>5, <3>4, <4>1 DEF TypeOK
      <4>3. \A g \in Handler : Busy(g)' /\ ctx'[g].tok = t => g = h
        BY <3>2, <4>1 DEF Exchanging
      <4>4. t \in 1..Len(tokens) /\ At(h, "links")' /\ ctx'[h].tok = t
        BY <1>1, <2>1, <2>2, <3>4
      <4>5. \A g \in Handler : Busy(g)' /\ ctx'[g].tok = t =>
              ctx'[g].at \notin Exchange \cup {"password"} /\ ctx'[g].at # "issue"
        BY <2>1, <4>3 DEF Exchange
      <4>6. uses'[t] <= 1
        BY <4>2
      <4>7. QED
        BY <3>3, <4>4, <4>5, <4>6
    <3>5. CASE t # c.tok
      <4>1. uses'[t] = uses[t]
        BY <1>5, <3>5 DEF TypeOK
      <4>2. \A g \in Handler : Busy(g)' /\ ctx'[g].tok = t => g # h
        BY <2>1, <3>5
      <4>3. uses[t] = 1 => tokens[t].used \/ \E g \in Handler : At(g, "links")' /\ ctx'[g].tok = t
        <5>1. \A g \in Handler : At(g, "links") => g # h
          BY <1>3
        <5>2. QED
          BY <2>3, <3>1, <5>1
      <4>4. QED
        BY <2>3, <3>1, <3>3, <4>1, <4>2, <4>3
    <3>6. QED
      BY <3>4, <3>5
  <2>5. SweepInv'
    <3>1. \A g \in Handler : Trading(g)' =>
            Trading(g) /\ ctx'[g].tok = ctx[g].tok /\ ctx'[g].user = ctx[g].user
      BY <1>2, <2>1, <2>3 DEF Trading, Exchange
    <3>2. QED
      BY <1>2, <3>1, SweepOn DEF History
  <2>6. ResetInv'
    <3> SUFFICES ASSUME NEW t \in 1..Len(tokens), t \notin raced, tokens[t].kind = "reset", ~tokens[t].used
                 PROVE  \/ t > reset'[tokens[t].user]
                        \/ \E g \in Handler : At(g, "links")' /\ ctx'[g].user = tokens[t].user
      BY <1>2 DEF ResetInv
    <3>1. CASE tokens[t].user = c.user
      BY <2>1, <2>2, <3>1
    <3>2. CASE tokens[t].user # c.user
      <4>1. reset'[tokens[t].user] = reset[tokens[t].user]
        <5>1. tokens[t].user \in User
          BY TokenTypes DEF TokenRow
        <5>2. QED
          BY <1>5, <3>2, <5>1 DEF TypeOK
      <4>2. \/ t > reset[tokens[t].user]
            \/ \E g \in Handler : At(g, "links") /\ ctx[g].user = tokens[t].user
        BY DEF History, ResetInv
      <4>3. \A g \in Handler : At(g, "links") => At(g, "links")' /\ ctx'[g].user = ctx[g].user
        BY <1>3, <2>3
      <4>4. QED
        BY <4>1, <4>2, <4>3
    <3>3. QED
      BY <3>1, <3>2
  <2>7. QED
    BY <2>4, <2>5, <2>6 DEF History
<1>6. QED
  BY <1>4, <1>5 DEF SetPassword

LEMMA MarkLinksHistory ==
  ASSUME TypeOK, TypeOK', KnowInv, RowInv, RowInv', History, NEW h \in Handler, MarkLinks(h)
  PROVE  History'
<1> DEFINE c == ctx[h]
           hit == Siblings(c.tok)
<1>1. /\ Busy(h) /\ c.at = "links" /\ c.tok \in 1..Len(tokens)
      /\ tokens[c.tok].user = c.user /\ tokens[c.tok].kind = "reset"
  BY DEF MarkLinks, At, KnowInv, Knows, Agrees, Personal, Resetting, Exchange
<1>2. c.tok \in hit
  BY <1>1 DEF Siblings
<1>3. \A t \in 1..Len(tokens) : tokens[t].kind = "reset" /\ tokens[t].user = c.user => t \in hit
  BY <1>1 DEF Siblings
<1>4. Others(h) /\ ~Busy(h)' /\ UNCHANGED <<uses, swept, reset>>
  BY LeftAlone DEF MarkLinks
<1>5. /\ TokensKept /\ Len(tokens') = Len(tokens) /\ raced \subseteq raced'
      /\ \A t \in 1..Len(tokens) : t \in hit => t \in raced' \/ tokens'[t].used
  <2>1. CASE tokens' = Revoke(hit) /\ UNCHANGED raced
    <3> HIDE DEF hit
    <3>1. QED
      BY <2>1, KeptByRevoke
  <2>2. CASE tokens' = tokens /\ raced' = raced \cup hit
    BY <2>2, KeptBySame
  <2>3. QED
    BY <2>1, <2>2 DEF MarkLinks
<1> HIDE DEF hit
<1>6. \A g \in Handler \ {h} : ctx'[g] = ctx[g] /\ (Busy(g)' <=> Busy(g))
                               /\ (At(g, "links")' <=> At(g, "links"))
  BY <1>4 DEF Others, Busy, At
<1>7. UseInv'
  <2>1. \A g \in Handler : Busy(g)' /\ ctx'[g].tok # None =>
           Busy(g) /\ ctx'[g].tok = ctx[g].tok /\ ctx'[g].at = ctx[g].at
    BY <1>4, <1>6
  <2>2. \A g \in Handler : At(g, "links") =>
           \/ At(g, "links")' /\ ctx'[g].tok = ctx[g].tok
           \/ ctx[g].tok \in raced'
           \/ tokens'[ctx[g].tok].used
    BY <1>1, <1>2, <1>5, <1>6
  <2>3. QED
    BY <1>4, <1>5, <2>1, <2>2, UseOn DEF History
<1>8. SweepInv'
  <2>1. ASSUME NEW g \in Handler, Trading(g)'
        PROVE  Trading(g) /\ ctx'[g].tok = ctx[g].tok /\ ctx'[g].user = ctx[g].user
    <3>1. g # h /\ Busy(g) /\ ctx'[g] = ctx[g]
      BY <1>4, <1>6, <2>1 DEF Trading
    <3>2. QED
      BY <1>5, <2>1, <3>1, TradesOn
  <2>2. QED
    BY <1>4, <1>5, <2>1, SweepOn DEF History
<1>9. ResetInv'
  <2>1. \A g \in Handler : At(g, "links") =>
           \/ At(g, "links")' /\ ctx'[g].user = ctx[g].user
           \/ \A t \in 1..Len(tokens) : tokens[t].kind = "reset" /\ tokens[t].user = ctx[g].user =>
                t \in raced' \/ tokens'[t].used
    BY <1>3, <1>5, <1>6
  <2>2. QED
    BY <1>4, <1>5, <2>1, ResetOn DEF History
<1>10. QED
  BY <1>7, <1>8, <1>9 DEF History

LEMMA SweepHistory ==
  ASSUME TypeOK, TypeOK', KnowInv, RowInv, RowInv', History, NEW h \in Handler, Sweep(h)
  PROVE  History'
<1> DEFINE u == ctx[h].user
           hit == Sessions(u)
<1>1. /\ Busy(h) /\ ctx[h].at = "sweep" /\ ctx[h].tok = None /\ u \in User
  BY TokenTypes DEF Sweep, At, KnowInv, Knows, Agrees, Personal, Resetting, Exchange
<1>2. UNCHANGED <<uses, raced, reset>> /\ ~Busy(h)'
  BY SweptContexts DEF Sweep
<1>3. HoldersSame
  <2>1. \A g \in Handler \ {h} :
          /\ Busy(g)' <=> Busy(g)
          /\ Busy(g) => /\ ctx'[g].at = ctx[g].at /\ ctx'[g].tok = ctx[g].tok
                        /\ ctx'[g].user = ctx[g].user /\ (ctx[g].late => ctx'[g].late)
    BY SweptContexts
  <2>2. QED
    BY <1>1, <1>2, <2>1 DEF HoldersSame, At
<1>4. CASE tokens' = tokens /\ UNCHANGED swept
  BY <1>2, <1>3, <1>4, KeptBySame, QuietHistory
<1>5. CASE /\ tokens' = Revoke(hit) /\ swept' = [swept EXCEPT ![u] = Len(tokens)]
           /\ ctx' = [g \in Handler |->
                IF g = h THEN None
                ELSE IF Busy(g) /\ g # h /\ ctx[g].user = u /\ ctx[g].at \in {"mark", "issue"}
                     THEN [ctx[g] EXCEPT !.late = TRUE] ELSE ctx[g]]
  <2>1. /\ TokensKept /\ Len(tokens') = Len(tokens)
        /\ \A t \in 1..Len(tokens) : t \in hit => tokens'[t].used
    <3> HIDE DEF hit
    <3>1. QED
      BY <1>5, KeptByRevoke
  <2>2. \A t \in 1..Len(tokens) : tokens[t].kind = "session" /\ tokens[t].user = u => t \in hit
    BY DEF Sessions
  <2>3. \A v \in User : v # u => swept'[v] = swept[v]
    BY <1>5 DEF TypeOK
  <2>4. UseInv'
    BY <1>2, <1>3, <2>1, UseOn DEF History, HoldersSame
  <2>5. ResetInv'
    BY <1>2, <1>3, <2>1, ResetOn DEF History, HoldersSame
  <2>6. ASSUME NEW t \in 1..Len(tokens'), tokens'[t].kind = "session", ~tokens'[t].used
        PROVE  /\ t > swept'[tokens'[t].user]
               /\ t \notin raced' /\ tokens'[t].parent # None => tokens'[t].parent > swept'[tokens'[t].user]
    <3>1. /\ t \in 1..Len(tokens) /\ tokens[t].kind = "session" /\ ~tokens[t].used
          /\ tokens'[t].user = tokens[t].user /\ tokens'[t].parent = tokens[t].parent
      BY <2>1, <2>6 DEF TokensKept
    <3>2. tokens[t].user # u /\ tokens[t].user \in User
      BY <2>1, <2>2, <2>6, <3>1, TokenTypes DEF TokenRow
    <3>3. QED
      BY <1>2, <2>3, <3>1, <3>2 DEF History, SweepInv
  <2>7. ASSUME NEW g \in Handler, Trading(g)' PROVE ctx'[g].tok > swept'[ctx'[g].user]
    <3>1. Busy(g)' /\ ctx'[g].tok # None /\ g # h
      BY <1>2, <2>7 DEF Trading
    <3>2. /\ Busy(g) /\ ctx'[g].tok = ctx[g].tok /\ ctx'[g].at = ctx[g].at
          /\ ctx'[g].user = ctx[g].user /\ (ctx[g].late => ctx'[g].late)
      BY <1>3, <3>1 DEF HoldersSame
    <3>3. Trading(g)
      BY <2>1, <2>7, <3>2, TradesOn
    <3>4. ctx[g].user # u
      <4>1. ASSUME ctx[g].user = u PROVE FALSE
        <5>1. ctx[g].at \in {"mark", "issue"}
          BY <3>3 DEF Trading, Exchange
        <5>2. ctx'[g] = [ctx[g] EXCEPT !.late = TRUE]
          BY <1>5, <3>1, <3>2, <4>1, <5>1
        <5>3. ctx[g] \in Context
          BY <3>2, Contexts
        <5>4. ctx'[g].late
          BY <5>2, <5>3 DEF Context
        <5>5. QED
          BY <2>7, <5>4 DEF Trading
      <4>2. QED
        BY <4>1
    <3>5. ctx[g].user \in User
      BY <3>3, TokenTypes DEF Trading, KnowInv, Knows, Agrees, Personal
    <3>6. QED
      BY <2>3, <3>2, <3>3, <3>4, <3>5 DEF History, SweepInv
  <2>8. SweepInv'
    BY <2>6, <2>7 DEF SweepInv
  <2>9. QED
    BY <2>4, <2>5, <2>8 DEF History
<1>6. QED
  BY <1>4, <1>5 DEF Sweep

LEMMA CutHistory ==
  ASSUME TypeOK, TypeOK', KnowInv, RowInv, RowInv', History, NEW hs \in SUBSET Handler, Cut(hs)
  PROVE  History'
<1>1. UNCHANGED <<tokens, uses, swept, reset>>
  <2>1. UNCHANGED <<rows, uses, swept, reset>>
    BY DEF Cut
  <2>2. QED
    BY <2>1 DEF rows
<1>2. \A g \in Handler : IF g \in hs THEN ~Busy(g)' ELSE ctx'[g] = ctx[g]
  BY CutContexts
<1>3. \A g \in Handler : Busy(g)' => g \notin hs /\ Busy(g) /\ ctx'[g] = ctx[g]
  BY <1>2 DEF Busy
<1>4. \A g \in Handler : At(g, "links") /\ g \notin hs => At(g, "links")' /\ ctx'[g] = ctx[g]
  BY <1>2 DEF At, Busy
<1>5. /\ raced \subseteq raced'
      /\ \A g \in hs : At(g, "links") => ctx[g].tok \in raced' /\ Siblings(ctx[g].tok) \subseteq raced'
  BY DEF Cut
<1>6. TokensKept
  BY <1>1, KeptBySame
<1>7. UseInv'
  BY <1>1, <1>3, <1>4, <1>5, <1>6, UseOn DEF History
<1>8. SweepInv'
  <2>1. \A g \in Handler : Trading(g)' =>
          Trading(g) /\ ctx'[g].tok = ctx[g].tok /\ ctx'[g].user = ctx[g].user
    BY <1>1, <1>3 DEF Trading
  <2>2. QED
    BY <1>1, <1>5, <1>6, <2>1, SweepOn DEF History
<1>9. ResetInv'
  <2>1. ASSUME NEW g \in hs, At(g, "links"), NEW t \in 1..Len(tokens),
               tokens[t].kind = "reset", tokens[t].user = ctx[g].user
        PROVE  t \in raced'
    <3>1. tokens[ctx[g].tok].user = ctx[g].user
      BY <2>1 DEF At, KnowInv, Knows, Agrees, Resetting
    <3>2. t \in Siblings(ctx[g].tok)
      BY <2>1, <3>1 DEF Siblings
    <3>3. QED
      BY <1>5, <2>1, <3>2
  <2>2. \A g \in Handler : At(g, "links") =>
           \/ At(g, "links")' /\ ctx'[g].user = ctx[g].user
           \/ \A t \in 1..Len(tokens) : tokens[t].kind = "reset" /\ tokens[t].user = ctx[g].user =>
                t \in raced' \/ tokens'[t].used
    BY <1>4, <2>1
  <2>3. QED
    BY <1>1, <1>5, <1>6, <2>2, ResetOn DEF History
<1>10. QED
  BY <1>7, <1>8, <1>9 DEF History

-----------------------------------------------------------------------------
(* The invariant holds at first and in every step.                           *)

LEMMA Initially == Init => IInv
<1> SUFFICES ASSUME Init PROVE IInv
  OBVIOUS
<1>1. PICK s \in Slug : held = {s} /\ users = <<NewUser(s, "owner")>>
  BY DEF Init
<1>2. /\ tokens = <<>> /\ ctx = [h \in Handler |-> None] /\ begun = 0
      /\ uses = [t \in Token |-> 0] /\ raced = {}
      /\ swept = [u \in User |-> 0] /\ reset = [u \in User |-> 0]
      /\ crowned = {} /\ lost = {} /\ faults = 0
  BY DEF Init
<1>3. \A h \in Handler : ~Busy(h)
  BY <1>2 DEF Busy
<1>4. NewUser(s, "owner") \in UserRow /\ NewUser(s, "owner").slug = s /\ NewUser(s, "owner").role = "owner"
  BY DEF NewUser, UserRow, Role
<1>5. Len(users) = 1 /\ users[1] = NewUser(s, "owner") /\ users \in Seq(UserRow)
  BY <1>1, <1>4
<1>6. TypeOK
  <2>1. tokens \in Seq(TokenRow) /\ Len(tokens) = 0
    BY <1>2
  <2>2. Len(users) \in 1..MaxUsers /\ Len(tokens) <= MaxTokens
    BY <1>5, <2>1, BoundAssumption
  <2>3. swept \in [User -> 0..MaxTokens] /\ reset \in [User -> 0..MaxTokens] /\ uses \in [Token -> Nat]
    BY <1>2, BoundAssumption
  <2>4. begun \in 0..MaxOps /\ faults \in 0..FaultBudget
    BY <1>2, BoundAssumption
  <2>5. held \subseteq Slug /\ ctx \in [Handler -> Context \cup {None}]
    BY <1>1, <1>2
  <2>6. QED
    BY <1>2, <1>5, <2>1, <2>2, <2>3, <2>4, <2>5 DEF TypeOK
<1>7. KnowInv
  BY <1>3 DEF KnowInv
<1>8. RoomInv
  <2>1. Coming = {} /\ Newcomers = {}
    BY <1>3 DEF Coming, Newcomers
  <2>2. Cardinality(Coming) = 0 /\ Cardinality(Newcomers) = 0
    BY <2>1, FS_EmptySet
  <2>3. Len(tokens) = 0
    BY <1>2
  <2>4. QED
    BY <1>5, <2>2, <2>3, BoundAssumption DEF RoomInv
<1>9. 1..Len(tokens) = {}
  BY <1>2
<1>10. RowInv
  BY <1>2, <1>9 DEF RowInv
<1>11. History
  <2>1. UseInv
    BY <1>2, <1>3 DEF UseInv
  <2>2. SweepInv
    BY <1>3, <1>9 DEF SweepInv, Trading
  <2>3. ResetInv
    BY <1>9 DEF ResetInv
  <2>4. QED
    BY <2>1, <2>2, <2>3 DEF History
<1>12. ScopeInv
  BY <1>9 DEF ScopeInv
<1>13. HeldInv
  <2>1. Owners(s) # {} /\ \A u \in 1..Len(users) : users[u].slug = s
    BY <1>4, <1>5 DEF Owners
  <2>2. \A h \in Handler : ~Registering(h)
    BY <1>3 DEF Registering, At
  <2>3. QED
    BY <1>1, <2>1, <2>2 DEF HeldInv
<1>14. OwnerInv
  <2>1. \A r \in Slug : \A u \in Owners(r) : u = 1
    BY <1>5 DEF Owners
  <2>2. \A h \in Handler : ~At(h, "commit")
    BY <1>3 DEF At
  <2>3. QED
    BY <2>1, <2>2 DEF OwnerInv
<1>15. QED
  BY <1>6, <1>7, <1>8, <1>10, <1>11, <1>12, <1>13, <1>14 DEF IInv, History

\* What each lemma on an action establishes, put together.
LEMMA Together ==
  ASSUME TypeOK', Steady, RoomInv', History', ScopeInv', HeldInv', OwnerInv'
  PROVE  IInv'
BY DEF IInv, Steady, History

LEMMA BeginKeeps ==
  ASSUME IInv, NEW h \in Handler, Begin(h)
  PROVE  IInv'
<1>1. TypeOK /\ KnowInv /\ RoomInv /\ RowInv /\ ScopeInv /\ HeldInv /\ OwnerInv /\ History
  BY DEF IInv, History
<1>2. ASSUME tokens' = tokens PROVE ScopeInv'
  BY <1>1, <1>2, KeptBySame, ScopeKept
<1>3. ASSUME NEW s \in Slug, InsertTenant(h, s) PROVE IInv'
  <2>1. TypeOK' /\ RoomInv' /\ HeldInv' /\ OwnerInv'
    BY <1>1, <1>3, InsertTenantTypes, InsertTenantRoom, InsertTenantHeld
  <2>2. Steady
    BY <1>1, <1>3, <2>1, InsertTenantSteady
  <2>3. RowInv' /\ ScopeInv'
    BY <1>2, <1>3, <2>2 DEF Steady, InsertTenant
  <2>4. History'
    BY <1>1, <1>3, <2>1, <2>3, StartHistory
  <2>5. QED
    BY <2>1, <2>2, <2>3, <2>4, Together
<1>4. ASSUME NEW s \in Slug, NEW role \in Role, BeginCreate(h, s, role) PROVE IInv'
  <2>1. TypeOK' /\ RoomInv' /\ HeldInv' /\ OwnerInv'
    BY <1>1, <1>4, BeginCreateTypes, BeginCreateRoom, BeginCreateHeld
  <2>2. Steady
    BY <1>1, <1>4, <2>1, BeginCreateSteady
  <2>3. RowInv' /\ ScopeInv'
    BY <1>2, <1>4, <2>2 DEF Steady, BeginCreate, rows
  <2>4. History'
    BY <1>1, <1>4, <2>1, <2>3, StartHistory
  <2>5. QED
    BY <2>1, <2>2, <2>3, <2>4, Together
<1>5. ASSUME NEW u \in User, Login(h, u) \/ ForgotPassword(h, u) PROVE IInv'
  <2>1. TypeOK' /\ RoomInv'
    BY <1>1, <1>5, LoginTypes, LoginRoom
  <2>2. Steady /\ MakersSame
    BY <1>1, <1>5, <2>1, LoginSteady, StartAside
  <2>3. HeldInv' /\ OwnerInv'
    BY <1>1, <2>2, HeldAside, OwnerAside
  <2>4. RowInv' /\ ScopeInv'
    BY <1>2, <1>5, <2>2 DEF Steady, Login, ForgotPassword, rows
  <2>5. History'
    BY <1>1, <1>5, <2>1, <2>4, StartHistory
  <2>6. QED
    BY <2>1, <2>2, <2>3, <2>4, <2>5, Together
<1>6. ASSUME NEW u \in User, NEW kind \in {"code", "key"}, NEW role \in Role, NEW chosen \in Requests,
             Choose(h, u, kind, role, chosen)
      PROVE  IInv'
  <2>1. TypeOK'
    BY <1>1, <1>6, ChooseTypes
  <2>2. RoomInv' /\ Steady /\ MakersSame /\ ScopeInv'
    BY <1>1, <1>6, <2>1, ChooseRoom, ChooseSteady, ChooseAside, ScopeChosen
  <2>3. HeldInv' /\ OwnerInv'
    BY <1>1, <2>2, HeldAside, OwnerAside
  <2>4. RowInv'
    BY <2>2 DEF Steady
  <2>5. History'
    BY <1>1, <1>6, <2>1, <2>4, ChooseHistory
  <2>6. QED
    BY <2>1, <2>2, <2>3, <2>5, Together
<1>7. ASSUME NEW t \in Token, Select(h, t) PROVE IInv'
  <2>1. TypeOK' /\ RoomInv'
    BY <1>1, <1>7, SelectTypes, SelectRoom
  <2>2. Steady /\ MakersSame
    BY <1>1, <1>7, <2>1, SelectSteady, StartAside
  <2>3. HeldInv' /\ OwnerInv'
    BY <1>1, <2>2, HeldAside, OwnerAside
  <2>4. RowInv' /\ ScopeInv'
    BY <1>2, <1>7, <2>2 DEF Steady, Select, rows
  <2>5. History'
    BY <1>1, <1>7, <2>1, <2>4, SelectHistory
  <2>6. QED
    BY <2>1, <2>2, <2>3, <2>4, <2>5, Together
<1>8. ASSUME NEW t \in Token, SelectUsed(h, t) PROVE IInv'
  <2>1. TypeOK' /\ RoomInv'
    BY <1>1, <1>8, SelectUsedTypes, SelectRoom
  <2>2. Steady /\ MakersSame
    BY <1>1, <1>8, <2>1, SelectSteady, StartAside
  <2>3. HeldInv' /\ OwnerInv'
    BY <1>1, <2>2, HeldAside, OwnerAside
  <2>4. RowInv' /\ ScopeInv'
    BY <1>2, <1>8, <2>2 DEF Steady, SelectUsed, rows
  <2>5. History'
    BY <1>1, <1>8, <2>1, <2>4, StartHistory
  <2>6. QED
    BY <2>1, <2>2, <2>3, <2>4, <2>5, Together
<1>9. ASSUME NEW t \in Token, Logout(h, t) PROVE IInv'
  <2>1. TypeOK' /\ RoomInv'
    BY <1>1, <1>9, LogoutTypes, LogoutRoom
  <2>2. Steady /\ MakersSame
    BY <1>1, <1>9, <2>1, LogoutSteady, LogoutAside
  <2>3. HeldInv' /\ OwnerInv'
    BY <1>1, <2>2, HeldAside, OwnerAside
  <2>4. RowInv' /\ ScopeInv'
    BY <1>1, <1>9, <2>2, KeptByRevoke, ScopeKept DEF Steady, Logout
  <2>5. History'
    BY <1>1, <1>9, <2>1, <2>4, LogoutHistory
  <2>6. QED
    BY <2>1, <2>2, <2>3, <2>4, <2>5, Together
<1>10. QED
  BY <1>3, <1>4, <1>5, <1>6, <1>7, <1>8, <1>9 DEF Begin, AuthorizeConsent, CreateApiKey

LEMMA StepKeeps ==
  ASSUME IInv, NEW h \in Handler, Step(h)
  PROVE  IInv'
<1>1. TypeOK /\ KnowInv /\ RoomInv /\ RowInv /\ ScopeInv /\ HeldInv /\ OwnerInv /\ History
  BY DEF IInv, History
<1>2. TypeOK'
  BY <1>1, InsertUserTypes, DeleteTenantTypes, CommitCreateTypes, InsertLinkTypes, MarkTypes,
     IssueTypes, SweepTypes, SetPasswordTypes, MarkLinksTypes DEF Step
<1>3. RoomInv' /\ ScopeInv'
  BY <1>1, <1>2, StepRoom, ScopeStep
<1>4. Steady
  BY <1>1, <1>2, InsertUserSteady, DeleteTenantSteady, CommitCreateSteady, InsertLinkSteady, MarkSteady,
     IssueSteady, SweepSteady, SetPasswordSteady, MarkLinksSteady DEF Step
<1>5. RowInv'
  BY <1>4 DEF Steady
<1>6. HeldInv' /\ OwnerInv'
  <2>1. CASE InsertUser(h) \/ DeleteTenant(h) \/ CommitCreate(h)
    BY <1>1, <2>1, InsertUserHeld, DeleteTenantHeld, CommitCreateHeld
  <2>2. CASE ~(InsertUser(h) \/ DeleteTenant(h) \/ CommitCreate(h))
    <3>1. MakersSame
      BY <1>1, <2>2, StepAside DEF Step
    <3>2. QED
      BY <1>1, <3>1, HeldAside, OwnerAside
  <2>3. QED
    BY <2>1, <2>2
<1>7. History'
  BY <1>1, <1>2, <1>5, InsertUserHistory, DeleteTenantHistory, CreateHistory, MarkHistory,
     IssueHistory, SweepHistory, SetPasswordHistory, MarkLinksHistory DEF Step
<1>8. QED
  BY <1>2, <1>3, <1>4, <1>6, <1>7, Together

LEMMA CutKeeps ==
  ASSUME IInv, Fault, NEW hs \in SUBSET Handler, Cut(hs)
  PROVE  IInv'
<1>1. TypeOK /\ KnowInv /\ RoomInv /\ RowInv /\ ScopeInv /\ HeldInv /\ OwnerInv /\ History
  BY DEF IInv, History
<1>2. TypeOK'
  BY <1>1, CutTypes
<1>3. Steady /\ RoomInv' /\ HeldInv' /\ OwnerInv'
  BY <1>1, <1>2, CutSteady, CutRoom, CutHeld
<1>4. RowInv' /\ ScopeInv'
  <2>1. tokens' = tokens
    <3>1. UNCHANGED rows
      BY DEF Cut
    <3>2. QED
      BY <3>1 DEF rows
  <2>2. QED
    BY <1>1, <1>3, <2>1, KeptBySame, ScopeKept DEF Steady
<1>5. History'
  BY <1>1, <1>2, <1>4, CutHistory
<1>6. QED
  BY <1>2, <1>3, <1>4, <1>5, Together

LEMMA Inductive == IInv /\ [Next]_vars => IInv'
<1> SUFFICES ASSUME IInv, [Next]_vars PROVE IInv'
  OBVIOUS
<1>1. ASSUME NEW h \in Handler, Begin(h) PROVE IInv'
  BY <1>1, BeginKeeps
<1>2. ASSUME NEW h \in Handler, Step(h) PROVE IInv'
  BY <1>2, StepKeeps
<1>3. ASSUME NEW h \in Handler, Timeout(h) PROVE IInv'
  BY <1>3, CutKeeps DEF Timeout
<1>4. CASE Crash
  <2>1. {h \in Handler : Busy(h)} \in SUBSET Handler
    OBVIOUS
  <2>2. QED
    BY <1>4, <2>1, CutKeeps DEF Crash
<1>5. CASE UNCHANGED vars
  <2>1. UNCHANGED <<held, users, tokens, ctx, begun, uses, raced, swept, reset, crowned, lost, faults>>
    BY <1>5 DEF vars, rows, history
  <2>2. TypeOK'
    BY <2>1 DEF IInv, TypeOK
  <2>3. KnowInv' /\ RoomInv' /\ RowInv'
    BY <2>1 DEF IInv, KnowInv, Knows, RoomInv, RowInv, Busy, Coming, Newcomers
  <2>4. TypeOK /\ KnowInv /\ RowInv /\ History /\ ScopeInv /\ HeldInv /\ OwnerInv /\ TokensKept
    BY <2>1, KeptBySame DEF IInv, History
  <2>5. HoldersSame /\ MakersSame
    BY <2>1 DEF HoldersSame, MakersSame, Busy, At, Maker, Registering
  <2>6. History'
    BY <2>1, <2>2, <2>3, <2>4, <2>5, QuietHistory
  <2>7. ScopeInv' /\ HeldInv' /\ OwnerInv'
    BY <2>1, <2>4, <2>5, ScopeKept, HeldAside, OwnerAside
  <2>8. QED
    BY <2>2, <2>3, <2>6, <2>7 DEF IInv, History
<1>6. QED
  BY <1>1, <1>2, <1>3, <1>4, <1>5 DEF Next

LEMMA Invariant == Spec => []IInv
BY Initially, Inductive, PTL DEF Spec

-----------------------------------------------------------------------------
(* Theorems.                                                                 *)

(* Every variable has its type in every reachable state, whatever requests   *)
(* do side by side: rows are never more than the bounds.                     *)
THEOREM TypeCorrect == Spec => []TypeOK
<1>1. IInv => TypeOK
  BY DEF IInv
<1>2. QED
  BY <1>1, Invariant, PTL

(* A token is exchanged at most once, over any number of requests, unless    *)
(* two had it at once or the statement that marks it failed.                 *)
THEOREM TokensSpentOnce == Spec => []SpentOnce
<1>1. IInv => SpentOnce
  <2> SUFFICES ASSUME IInv, NEW t \in Token, uses[t] > 1, t \notin raced PROVE FALSE
    BY DEF SpentOnce
  <2>1. uses[t] <= 1 /\ uses[t] \in Nat
    BY DEF IInv, UseInv, TypeOK
  <2>2. QED
    BY <2>1
<1>2. QED
  BY <1>1, Invariant, PTL

(* After a reuse no session of the user from before lives, nor one exchanged *)
(* for such a session, unless its exchange was under way.                    *)
THEOREM SessionsEnd == Spec => []ReuseEndsAllSessions
<1>1. IInv => ReuseEndsAllSessions
  BY DEF IInv, SweepInv, ReuseEndsAllSessions
<1>2. QED
  BY <1>1, Invariant, PTL

(* A reset ends every older link of the user, unless the statement that      *)
(* marks them failed.                                                        *)
THEOREM LinksEnd == Spec => []ResetEndsOlderLinks
<1>1. IInv => ResetEndsOlderLinks
  BY DEF IInv, ResetInv, ResetEndsOlderLinks, At
<1>2. QED
  BY <1>1, Invariant, PTL

(* No exchange and no change of role lets a client do what its user did not  *)
(* choose, the read-only default apart.                                      *)
THEOREM ChoicesKept == Spec => []ChoiceIsKept
<1>1. IInv => ChoiceIsKept
  <2> SUFFICES ASSUME IInv, NEW t \in 1..Len(tokens), tokens[t].kind \in {"code", "grant", "key"}
               PROVE  EffectiveScopes(tokens[t]) \subseteq tokens[t].asked \cup DefaultScopes
    BY DEF ChoiceIsKept
  <2>1. tokens[t].scopes # {} /\ tokens[t].scopes \subseteq tokens[t].asked \cup DefaultScopes
    BY DEF IInv, ScopeInv
  <2>2. EffectiveScopes(tokens[t]) \subseteq tokens[t].scopes
    BY <2>1 DEF EffectiveScopes
  <2>3. QED
    BY <2>1, <2>2
<1>2. QED
  BY <1>1, Invariant, PTL

(* An organization with users has an owner, through any registrations and    *)
(* creations that fail, and one unless two were created side by side.        *)
THEOREM OwnerThereIs == Spec => []OneOwner
<1>1. IInv => OneOwner
  <2> SUFFICES ASSUME IInv, NEW s \in {users[u].slug : u \in 1..Len(users)} \ lost
               PROVE  Owners(s) # {} /\ (Cardinality(Owners(s)) > 1 => s \in crowned)
    BY DEF OneOwner
  <2>1. PICK u \in 1..Len(users) : users[u].slug = s
    OBVIOUS
  <2>2. s \in held /\ s \in Slug
    BY <2>1, TokenTypes DEF IInv, HeldInv, TypeOK, UserRow
  <2>3. Owners(s) # {}
    BY <2>1, <2>2 DEF IInv, HeldInv, Alone
  <2>4. s \notin crowned => Cardinality(Owners(s)) = 1
    <3> SUFFICES ASSUME s \notin crowned PROVE Cardinality(Owners(s)) = 1
      OBVIOUS
    <3>1. PICK v : v \in Owners(s)
      BY <2>3
    <3>2. Owners(s) = {v}
      BY <2>2, <3>1 DEF IInv, OwnerInv
    <3>3. QED
      BY <3>2, FS_Singleton
  <2>5. QED
    BY <2>3, <2>4
<1>2. QED
  BY <1>1, Invariant, PTL
=============================================================================
