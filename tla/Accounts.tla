------------------------------ MODULE Accounts ------------------------------
(* Tenants, users and the tokens that are good for one exchange: refresh     *)
(* tokens (routes/auth.rs), OAuth codes and token pairs (oauth/mod.rs) and   *)
(* password reset links (routes/ui.rs, routes/admin.rs); and API keys.  Each *)
(* request is the sequence of its awaits: it selects a token, marks it, and  *)
(* does what the token was good for, in statements of their own.             *)
EXTENDS Integers, Sequences, FiniteSets

CONSTANTS
  Handler,         \* concurrent requests
  None,            \* no request, no token
  Requests,        \* sets of scopes a user may choose for a client or a key
  Slug,            \* names of organizations; the first tenant has one
  MaxUsers,        \* bound on users
  MaxTokens,       \* bound on tokens
  MaxOps,          \* bound on requests begun
  FaultBudget      \* bound on failing statements, timeouts and crashes

ASSUME SlugAssumption == Slug # {}
ASSUME HandlerAssumption == IsFiniteSet(Handler)
ASSUME BoundAssumption ==
  MaxUsers \in Nat \ {0} /\ MaxTokens \in Nat /\ MaxOps \in Nat /\ FaultBudget \in Nat

VARIABLES
  held,            \* slugs of rows of tenants
  users,           \* rows of users: their tenant's slug, their role, their first role
  tokens,          \* rows of the token tables, in the order they are made
  ctx, begun,      \* each request: where it is and what it has read; count
  uses,            \* history: what each token was good for, how often done
  raced,           \* history: tokens with overlapping requests or a failed mark
  swept,           \* history: per user, tokens made when all sessions were ended
  reset,           \* history: per user, tokens made when a reset set the password
  crowned,         \* history: slugs with overlapping creations of an owner
  lost,            \* history: slugs whose registration was cut or not undone
  faults

rows == <<held, users, tokens>>
history == <<uses, raced, swept, reset, crowned, lost>>
vars == <<rows, ctx, begun, history, faults>>

Kind == {"session", "code", "grant", "reset", "key"}
Role == {"owner", "admin", "member"}
User == 1..MaxUsers
Token == 1..MaxTokens

UserRow == [slug : Slug, role : Role, first : Role]
TokenRow ==
  [kind : Kind, user : User, used : BOOLEAN, parent : Token \cup {None},
   scopes : SUBSET {"read", "operate", "own"}, asked : Requests \cup {{}}]

\* Where a request is and what it has read.
Context ==
  [at : {"insert user", "undo", "commit", "link", "mark", "issue", "sweep", "password", "links"},
   tok : Token \cup {None}, user : 0..MaxUsers, slug : Slug \cup {"none"},
   role : Role \cup {"none"}, demoted : SUBSET User, late : BOOLEAN]

ASSUME NoneAssumption == None \notin Token /\ None \notin Context

NewUser(s, role) == [slug |-> s, role |-> role, first |-> role]

\* One organization has registered.
Init ==
  /\ \E s \in Slug : held = {s} /\ users = <<NewUser(s, "owner")>>
  /\ tokens = <<>> /\ ctx = [h \in Handler |-> None] /\ begun = 0
  /\ uses = [t \in Token |-> 0] /\ raced = {}
  /\ swept = [u \in User |-> 0] /\ reset = [u \in User |-> 0]
  /\ crowned = {} /\ lost = {} /\ faults = 0

-----------------------------------------------------------------------------
(* Requests.                                                                 *)

Idle == [at |-> "none", tok |-> None, user |-> 0, slug |-> "none", role |-> "none",
         demoted |-> {}, late |-> FALSE]
Busy(h) == ctx[h] # None
At(h, step) == Busy(h) /\ ctx[h].at = step
Goto(h, step) == ctx' = [ctx EXCEPT ![h].at = step]
Leave(h) == ctx' = [ctx EXCEPT ![h] = None]

\* A request starts with what its first SELECT has read.
Start(h, c) ==
  /\ ~Busy(h) /\ begun < MaxOps /\ begun' = begun + 1
  /\ ctx' = [ctx EXCEPT ![h] = c]

Fine == UNCHANGED faults
Fault == faults < FaultBudget /\ faults' = faults + 1

Coming == {h \in Handler : Busy(h) /\ ctx[h].at \in {"mark", "issue", "link", "insert user", "commit"}}
Newcomers == {h \in Handler : Busy(h) /\ ctx[h].at \in {"insert user", "commit"}}
Room == Len(tokens) + Cardinality(Coming) < MaxTokens
Row(kind, u) == [kind |-> kind, user |-> u, used |-> FALSE, parent |-> None, scopes |-> {}, asked |-> {}]

\* Other requests that exchange t.
Exchanging(h, t) == {g \in Handler \ {h} : Busy(g) /\ ctx[g].tok = t}

-----------------------------------------------------------------------------
(* Registration: the tenant, its user, and for the JSON API a refresh token. *)

\* Both handlers insert the tenant first: register answers a conflict,
\* register_submit tries up to five other slugs.
InsertTenant(h, s) ==
  /\ s \notin held
  /\ Len(users) + Cardinality(Newcomers) < MaxUsers
  /\ Room
  /\ Start(h, [Idle EXCEPT !.at = "insert user", !.slug = s])
  /\ held' = held \cup {s}
  /\ UNCHANGED <<users, tokens, history, faults>>

InsertUser(h) ==
  LET s == ctx[h].slug
      u == Len(users) + 1
  IN
  /\ At(h, "insert user")
  /\ \/ /\ Fine /\ users' = Append(users, NewUser(s, "owner"))
        /\ \/ ctx' = [ctx EXCEPT ![h].at = "issue", ![h].user = u]
           \/ Leave(h)
     \/ Fault /\ Goto(h, "undo") /\ UNCHANGED users
  /\ UNCHANGED <<held, tokens, begun, history>>

\* The tenant goes when its user could not be made.
DeleteTenant(h) ==
  LET s == ctx[h].slug IN
  /\ At(h, "undo") /\ Leave(h)
  /\ \/ Fine /\ held' = held \ {s} /\ UNCHANGED lost
     \/ Fault /\ lost' = lost \cup {s} /\ UNCHANGED held
  /\ UNCHANGED <<users, tokens, begun, uses, raced, swept, reset, crowned>>

-----------------------------------------------------------------------------
(* create_tenant_user: one transaction, READ COMMITTED.  The demotion works  *)
(* on the owners its statement sees and waits for another one's row lock; it *)
(* does not see an owner committed while it waits.                           *)

Owners(s) == {u \in 1..Len(users) : users[u].slug = s /\ users[u].role = "owner"}

\* Mutant: an owner is added beside the one there is.
DemoteNobody(s, role) == {}

Demoted(s, role) == IF role = "owner" THEN Owners(s) ELSE {}

\* The administrator picks an organization whose registration has ended.
BeginCreate(h, s, role) ==
  LET others == {g \in Handler : At(g, "commit") /\ ctx[g].slug = s /\ ctx[g].role = "owner"} IN
  /\ s \in held /\ \A g \in Handler : Busy(g) /\ ctx[g].slug = s => At(g, "commit")
  /\ Len(users) + Cardinality(Newcomers) < MaxUsers
  /\ Room
  /\ Start(h, [Idle EXCEPT !.at = "commit", !.slug = s, !.role = role, !.demoted = Demoted(s, role)])
  /\ crowned' = IF role = "owner" /\ others # {} THEN crowned \cup {s} ELSE crowned
  /\ UNCHANGED <<rows, uses, raced, swept, reset, lost, faults>>

\* The user and the reset link, committed together or rolled back.
CommitCreate(h) ==
  LET c == ctx[h]
      old == [u \in 1..Len(users) |->
               IF u \in c.demoted THEN [users[u] EXCEPT !.role = "admin"] ELSE users[u]]
  IN
  /\ At(h, "commit") /\ Leave(h)
  /\ \/ /\ Fine
        /\ users' = Append(old, NewUser(c.slug, c.role))
        /\ tokens' = Append(tokens, Row("reset", Len(users) + 1))
     \/ Fault /\ UNCHANGED <<users, tokens>>
  /\ UNCHANGED <<held, begun, history>>

-----------------------------------------------------------------------------
(* Scopes, in three classes: what a viewer has, what a member has beside it, *)
(* what only an owner has.  A chosen scope may be unknown.                   *)

DefaultScopes == {"read"}

ScopesForRole(role) ==
  CASE role = "owner" -> {"read", "operate", "own"}
    [] role \in {"admin", "member"} -> {"read", "operate"}
    [] OTHER -> {}

\* Mutant: nothing to grant is an empty list.
CapToNothing(chosen, role) == chosen \cap ScopesForRole(role)

CapScopes(chosen, role) ==
  LET granted == chosen \cap ScopesForRole(role) IN
  IF granted = {} THEN DefaultScopes \cap ScopesForRole(role) ELSE granted

\* What a token allows now; an empty list allows all of the role.
EffectiveScopes(t) ==
  LET all == ScopesForRole(users[t.user].role) IN
  IF t.scopes = {} THEN all ELSE all \cap t.scopes

-----------------------------------------------------------------------------
(* Tokens are made.                                                          *)

\* login: the refresh token, which the answer names even if its INSERT fails.
Login(h, u) ==
  /\ u <= Len(users) /\ Room
  /\ Start(h, [Idle EXCEPT !.at = "issue", !.user = u])
  /\ UNCHANGED <<rows, history, faults>>

\* authorize_consent and the key form of the settings page cap what the user
\* chooses by the role in the session cookie, that of the login.  history:
\* what was chosen.
Choose(h, u, kind, role, chosen) ==
  /\ u <= Len(users) /\ Room /\ begun < MaxOps /\ begun' = begun + 1
  /\ ~Busy(h) /\ role \in {users[u].role, users[u].first}
  /\ tokens' = Append(tokens, [Row(kind, u) EXCEPT !.scopes = CapScopes(chosen, role),
                                                  !.asked = chosen])
  /\ UNCHANGED <<held, users, ctx, history, faults>>

AuthorizeConsent(h, u, role, chosen) == Choose(h, u, "code", role, chosen)
CreateApiKey(h, u, role, chosen) == role \in {"owner", "admin"} /\ Choose(h, u, "key", role, chosen)

\* forgot_password_submit and generate_reset_link.
ForgotPassword(h, u) ==
  /\ u <= Len(users) /\ Room
  /\ Start(h, [Idle EXCEPT !.at = "link", !.user = u])
  /\ UNCHANGED <<rows, history, faults>>

InsertLink(h) ==
  /\ At(h, "link") /\ Leave(h)
  /\ \/ Fine /\ tokens' = Append(tokens, Row("reset", ctx[h].user))
     \/ Fault /\ UNCHANGED tokens
  /\ UNCHANGED <<held, users, begun, history>>

-----------------------------------------------------------------------------
(* Tokens are exchanged.  Each SELECT finds them unexpired: an expired one   *)
(* is refused and changes nothing.                                           *)

\* refresh, token_from_code, token_from_refresh and reset_password_submit
\* select the token, and go on only if it was not used.
Select(h, t) ==
  /\ t <= Len(tokens) /\ ~tokens[t].used /\ tokens[t].kind # "key" /\ Room
  /\ Start(h, [Idle EXCEPT !.at = IF tokens[t].kind = "reset" THEN "password" ELSE "mark",
                           !.tok = t, !.user = tokens[t].user])
  /\ raced' = IF Exchanging(h, t) # {} THEN raced \cup {t} ELSE raced
  /\ UNCHANGED <<rows, uses, swept, reset, crowned, lost, faults>>

\* A refresh token that was used: its user's sessions are all ended.
SelectUsed(h, t) ==
  /\ t <= Len(tokens) /\ tokens[t].used /\ tokens[t].kind = "session"
  /\ Start(h, [Idle EXCEPT !.at = "sweep", !.user = tokens[t].user])
  /\ UNCHANGED <<rows, history, faults>>

\* Mutant: the token keeps its row as it is.
MarkNothing(hit) == tokens

Revoke(hit) ==
  [t \in 1..Len(tokens) |-> IF t \in hit THEN [tokens[t] EXCEPT !.used = TRUE] ELSE tokens[t]]

\* The token is marked by its id, whether or not another request just did; a
\* failure is ignored.
Mark(h) ==
  LET t == ctx[h].tok IN
  /\ At(h, "mark") /\ Goto(h, "issue")
  /\ \/ Fine /\ tokens' = Revoke({t}) /\ UNCHANGED raced
     \/ Fault /\ raced' = raced \cup {t} /\ UNCHANGED tokens
  /\ UNCHANGED <<held, users, begun, uses, swept, reset, crowned, lost>>

\* The kind of what a token is exchanged for.
Successor(kind) == IF kind = "session" THEN "session" ELSE "grant"

\* What a request issues: the first refresh token of a login or a new one, or
\* a pair for the user and the scopes of what it is exchanged for.
NewToken(c) ==
  IF c.tok = None THEN Row("session", c.user)
  ELSE [tokens[c.tok] EXCEPT !.kind = Successor(@), !.used = FALSE, !.parent = c.tok]

\* A refresh answers with a token that has no row when the INSERT fails.
Issue(h) ==
  LET c == ctx[h] IN
  /\ At(h, "issue") /\ Leave(h)
  /\ \/ /\ Fine /\ tokens' = Append(tokens, NewToken(c))
        /\ uses' = IF c.tok = None THEN uses ELSE [uses EXCEPT ![c.tok] = @ + 1]
        /\ raced' = IF c.late THEN raced \cup {Len(tokens) + 1} ELSE raced
     \/ Fault /\ UNCHANGED <<tokens, uses, raced>>
  /\ UNCHANGED <<held, users, begun, swept, reset, crowned, lost>>

\* Mutant: only the token that was reused is revoked, which it was.
SweepNothing(u) == {}

Sessions(u) == {t \in 1..Len(tokens) : tokens[t].kind = "session" /\ tokens[t].user = u}

\* Reuse detected: every session of the user.  Requests that are about to
\* issue one are not stopped.
Sweep(h) ==
  LET u == ctx[h].user
      hit == Sessions(u)
      late(g) == Busy(g) /\ g # h /\ ctx[g].user = u /\ ctx[g].at \in {"mark", "issue"}
  IN
  /\ At(h, "sweep")
  /\ \/ /\ Fine
        /\ tokens' = Revoke(hit)
        /\ swept' = [swept EXCEPT ![u] = Len(tokens)]
        /\ ctx' = [g \in Handler |->
             IF g = h THEN None ELSE IF late(g) THEN [ctx[g] EXCEPT !.late = TRUE] ELSE ctx[g]]
     \/ Fault /\ Leave(h) /\ UNCHANGED <<tokens, swept>>
  /\ UNCHANGED <<held, users, begun, uses, raced, reset, crowned, lost>>

\* logout, and revoke_api_key.
Logout(h, t) ==
  /\ t <= Len(tokens) /\ tokens[t].kind \in {"session", "key"} /\ ~tokens[t].used
  /\ ~Busy(h) /\ begun < MaxOps /\ begun' = begun + 1
  /\ tokens' = Revoke({t})
  /\ UNCHANGED <<held, users, ctx, history, faults>>

\* reset_password_submit sets the password before it marks the link ...
SetPassword(h) ==
  LET c == ctx[h] IN
  /\ At(h, "password")
  /\ \/ /\ Fine /\ Goto(h, "links")
        /\ uses' = [uses EXCEPT ![c.tok] = @ + 1]
        /\ reset' = [reset EXCEPT ![c.user] = Len(tokens)]
     \/ Fault /\ Leave(h) /\ UNCHANGED <<uses, reset>>
  /\ UNCHANGED <<rows, begun, raced, swept, crowned, lost>>

\* Mutant: only the link that was followed.
OwnLink(t) == {t}

Siblings(t) ==
  {r \in 1..Len(tokens) : tokens[r].kind = "reset" /\ tokens[r].user = tokens[t].user}

\* ... and every other link of the user with it.
MarkLinks(h) ==
  LET hit == Siblings(ctx[h].tok) IN
  /\ At(h, "links") /\ Leave(h)
  /\ \/ Fine /\ tokens' = Revoke(hit) /\ UNCHANGED raced
     \/ Fault /\ raced' = raced \cup hit /\ UNCHANGED tokens
  /\ UNCHANGED <<held, users, begun, uses, swept, reset, crowned, lost>>

-----------------------------------------------------------------------------
(* The timeout layer drops a request between two awaits; the platform's      *)
(* process goes down with all of them.  A transaction is rolled back.        *)

Cut(hs) ==
  /\ raced' = raced \cup {ctx[h].tok : h \in {g \in hs : At(g, "mark") \/ At(g, "links")}}
                    \cup UNION {Siblings(ctx[h].tok) : h \in {g \in hs : At(g, "links")}}
  /\ lost' = lost \cup {ctx[h].slug : h \in {g \in hs : At(g, "insert user") \/ At(g, "undo")}}
  /\ ctx' = [h \in Handler |-> IF h \in hs THEN None ELSE ctx[h]]
  /\ UNCHANGED <<rows, begun, uses, swept, reset, crowned>>

Timeout(h) == Busy(h) /\ Fault /\ Cut({h})
Crash ==
  LET hs == {h \in Handler : Busy(h)} IN Cardinality(hs) > 1 /\ Fault /\ Cut(hs)

Begin(h) ==
  \/ \E s \in Slug : InsertTenant(h, s) \/ \E role \in Role : BeginCreate(h, s, role)
  \/ \E u \in User : Login(h, u) \/ ForgotPassword(h, u)
                     \/ \E role \in Role, chosen \in Requests :
                          AuthorizeConsent(h, u, role, chosen) \/ CreateApiKey(h, u, role, chosen)
  \/ \E t \in Token : Select(h, t) \/ SelectUsed(h, t) \/ Logout(h, t)

Step(h) ==
  \/ InsertUser(h) \/ DeleteTenant(h) \/ CommitCreate(h) \/ InsertLink(h)
  \/ Mark(h) \/ Issue(h) \/ Sweep(h) \/ SetPassword(h) \/ MarkLinks(h)

Next == (\E h \in Handler : Begin(h) \/ Step(h) \/ Timeout(h)) \/ Crash

Spec == Init /\ [][Next]_vars

-----------------------------------------------------------------------------
(* Properties.                                                               *)

(* Every variable has its type. *)
TypeOK ==
  /\ held \subseteq Slug
  /\ users \in Seq(UserRow) /\ Len(users) \in 1..MaxUsers
  /\ tokens \in Seq(TokenRow) /\ Len(tokens) <= MaxTokens
  /\ ctx \in [Handler -> Context \cup {None}] /\ begun \in 0..MaxOps
  /\ uses \in [Token -> Nat] /\ raced \subseteq Token
  /\ swept \in [User -> 0..MaxTokens] /\ reset \in [User -> 0..MaxTokens]
  /\ crowned \subseteq Slug /\ lost \subseteq Slug /\ faults \in 0..FaultBudget

(* A refresh token, a code, a token pair or a reset link is good for one     *)
(* exchange, over any history, unless two requests had it at the same time   *)
(* or the statement that marks it failed.                                    *)
SpentOnce == \A t \in Token : uses[t] > 1 => t \in raced

(* "All sessions have been invalidated": after a reuse no session of the     *)
(* user from before lives, nor one exchanged for such a session, unless the  *)
(* exchange was under way.                                                   *)
ReuseEndsAllSessions ==
  \A t \in 1..Len(tokens) :
    LET k == tokens[t] IN
    k.kind = "session" /\ ~k.used /\ t \notin raced =>
      t > swept[k.user] /\ (k.parent # None => k.parent > swept[k.user])

(* Siblings are invalidated: when no request is under way, no link made      *)
(* before the last reset is good, unless the statement that marks it failed. *)
ResetEndsOlderLinks ==
  (\A h \in Handler : ~Busy(h)) =>
    \A t \in 1..Len(tokens) :
      tokens[t].kind = "reset" /\ ~tokens[t].used /\ t \notin raced => t > reset[tokens[t].user]

(* What a user chose for a client or a key bounds what it may do, or the     *)
(* read-only default does, through every exchange and every change of role:  *)
(* no list becomes the empty one, which would allow all of the role.         *)
ChoiceIsKept ==
  \A t \in 1..Len(tokens) :
    LET k == tokens[t] IN
    k.kind \in {"code", "grant", "key"} => EffectiveScopes(k) \subseteq k.asked \cup DefaultScopes

(* An organization with users has an owner, through failing and rolled back  *)
(* creations, and one owner unless two were created side by side.            *)
OneOwner ==
  \A s \in {users[u].slug : u \in 1..Len(users)} \ lost :
    Owners(s) # {} /\ (Cardinality(Owners(s)) > 1 => s \in crowned)

=============================================================================
