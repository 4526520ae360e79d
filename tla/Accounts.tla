------------------------------ MODULE Accounts ------------------------------
(***************************************************************************)
(* SynoDL's own accounts: the first-run wizard (api/setup_handlers.go),    *)
(* sign-in and sessions (api/synodl_session.go, api/stateful_auth.go), the *)
(* admin's changes to users (api/users_handlers.go) and the live streams   *)
(* that outlive the request that opened them (api/ytdl_stream.go,          *)
(* api/stream_limit.go).                                                   *)
(*                                                                         *)
(* A handler checks once, at its start, and then makes several separate    *)
(* writes to the store; a step here is one such write, so handlers         *)
(* interleave between any two.  Users are numbered in the order they are   *)
(* created, which is what the owner rule reads (users.id is AUTOINCREMENT).*)
(***************************************************************************)
EXTENDS Naturals, FiniteSets

CONSTANTS MaxUsers,   \* bound: users ever created
          Tokens,     \* bound: sessions at a time
          Wizards,    \* bound: submissions of the first-run wizard
          Pages,      \* clients that may hold a stream
          StreamMax,  \* STREAM_MAX_CONCURRENT
          MaxAsks,    \* bound: requests of administrators
          MaxFaults,  \* bound: failing store calls and restarts
          None

Users == 1..MaxUsers
Marks == {"keep", "on", "off"}

\* What an administrator's request has still to write, and to whom.
Requests == [next : {"enabled", "drop", "admin", "delete"}, user : Users, en : Marks, ad : Marks]

ASSUME AccountsAssumption ==
  /\ MaxUsers \in Nat \ {0} /\ StreamMax \in Nat \ {0}
  /\ None \notin Tokens \cup Requests

VARIABLES
  configured, \* operator_config holds its row
  wizard,     \* wizard[w]: how far a submission got
  born,       \* users created so far
  user,       \* user[u]: there, enabled, admin
  login,      \* login[u]: a sign-in that has checked the password ("raced": then disabled)
  sess,       \* sess[t]: whose session it is, and whether it predates a disabling
  ask,        \* ask[a]: the request administrator a has under way
  n,          \* streamLimiter.n
  stream,     \* stream[p]
  asks, faults,
  blind,      \* the owner could not be read and a request against it was let through
  cut         \* a restart fell inside the wizard

acct  == <<born, user, login, sess>>
live  == <<n, stream>>
world == <<asks, faults, blind, cut>>
vars  == <<configured, wizard, acct, ask, live, world>>

NoUser   == [there |-> FALSE, enabled |-> FALSE, admin |-> FALSE]
NoStream == [pc |-> "off", tok |-> None, admin |-> FALSE]

-----------------------------------------------------------------------------
There == {u \in Users : user[u].there}

Named(u)                 == user[u].there
CreateSession(t, u, age) == sess' = [sess EXCEPT ![t] = [of |-> u, age |-> age]]
DeleteSession(t)         == sess' = [sess EXCEPT ![t] = None]
DeleteUserSessions(u)    ==
  sess' = [t \in Tokens |-> IF sess[t] # None /\ sess[t].of = u THEN None ELSE sess[t]]

\* UserForSession: the session's user, if enabled.
Resolves(t) == sess[t] # None /\ user[sess[t].of].enabled
SignedIn(u) == \E t \in Tokens : Resolves(t) /\ sess[t].of = u
Admin(u)    == user[u].enabled /\ user[u].admin

\* OwnerID: the first user there is.
IsOwner(u) == u \in There /\ \A v \in There : u <= v

\* Mutant: the heartbeat asks only whether the session lives.
StillSignedIn(s) == s.tok # None /\ Resolves(s.tok)

\* ytdlStreamStillAllowed, when the store answers.
StillAllowed(s) ==
  s.tok # None /\ Resolves(s.tok) /\ user[sess[s.tok].of].admin = s.admin

Free(t) == sess[t] = None /\ \A p \in Pages : stream[p].tok # t

-----------------------------------------------------------------------------
\* First-run setup: look, save the connection, try it, create the administrator.  A refusal
\* takes the saved connection away again.

SetupCheck(w) ==
  /\ wizard[w] = "idle" /\ ~configured
  /\ wizard' = [wizard EXCEPT ![w] = "checked"]
  /\ UNCHANGED <<configured, acct, ask, live, world>>

SetupSave(w) ==
  /\ wizard[w] = "checked"
  /\ wizard' = [wizard EXCEPT ![w] = "saved"]
  /\ configured' = TRUE
  /\ UNCHANGED <<acct, ask, live, world>>

\* Mutant: a refused connection stays saved.
SetupVerifyKeeps(w) ==
  /\ wizard[w] = "saved"
  /\ \E r \in {"verified", "done"} : wizard' = [wizard EXCEPT ![w] = r]
  /\ UNCHANGED <<configured, acct, ask, live, world>>

SetupVerify(w) ==
  /\ wizard[w] = "saved"
  /\ \/ wizard' = [wizard EXCEPT ![w] = "verified"] /\ UNCHANGED configured
     \/ wizard' = [wizard EXCEPT ![w] = "done"] /\ configured' = FALSE
  /\ UNCHANGED <<acct, ask, live, world>>

\* CreateUser, enabled.
Insert(admin) ==
  /\ born < MaxUsers
  /\ born' = born + 1
  /\ user' = [user EXCEPT ![born + 1] = [there |-> TRUE, enabled |-> TRUE, admin |-> admin]]

\* The name may be taken only where users exist; success goes on to issue a session.
SetupCreate(w) ==
  /\ wizard[w] = "verified"
  /\ \/ /\ Insert(TRUE)
        /\ login' = [login EXCEPT ![born + 1] = "read"]
        /\ wizard' = [wizard EXCEPT ![w] = "done"]
        /\ UNCHANGED <<configured, sess>>
     \/ /\ There # {}
        /\ wizard' = [wizard EXCEPT ![w] = "done"] /\ configured' = FALSE
        /\ UNCHANGED acct
  /\ UNCHANGED <<ask, live, world>>

-----------------------------------------------------------------------------
\* Signing in: the user is read and the password checked, which is slow; then the session is
\* written, with no second look at the user.

LoginRead(u) ==
  /\ login[u] = "no" /\ Named(u) /\ user[u].enabled
  /\ login' = [login EXCEPT ![u] = "read"]
  /\ UNCHANGED <<configured, wizard, born, user, sess, ask, live, world>>

LoginIssue(u) ==
  /\ login[u] # "no"
  /\ login' = [login EXCEPT ![u] = "no"]
  /\ IF user[u].there
       THEN \E t \in Tokens :
              Free(t) /\ CreateSession(t, u, IF login[u] = "raced" THEN "raced" ELSE "new")
       ELSE UNCHANGED sess  \* the foreign key refuses it
  /\ UNCHANGED <<configured, wizard, born, user, ask, live, world>>

\* Signed out, or expired: either way the token resolves to nobody from now on.
SessionEnds(t) ==
  /\ sess[t] # None /\ DeleteSession(t)
  /\ UNCHANGED <<configured, wizard, born, user, login, ask, live, world>>

-----------------------------------------------------------------------------
\* What administrators do.

\* requireAdmin and the rules of handleUpdateUser: the owner is changed by the owner alone and
\* never disabled or demoted, and nobody disables or demotes themselves.  An owner that cannot
\* be read is nobody (the error is dropped).
Lowers(en, ad) == en = "off" \/ ad = "off"
MayChange(a, u, en, ad) ==
  /\ IsOwner(u) => a = u /\ ~Lowers(en, ad)
  /\ u = a => ~Lowers(en, ad)
\* Mutant: anybody but oneself may be deleted.
MayDeleteOthers(a, u) == u # a

MayDelete(a, u) == ~IsOwner(u) /\ u # a

Asks(a) == asks > 0 /\ asks' = asks - 1 /\ ask[a] = None /\ SignedIn(a) /\ Admin(a)

\* The rule on the owner, or a failed read of who that is.
Passes(rule, ruleUnread) ==
  \/ rule /\ UNCHANGED <<faults, blind>>
  \/ ~rule /\ ruleUnread /\ faults > 0 /\ faults' = faults - 1 /\ blind' = TRUE

AskChange(a) ==
  /\ Asks(a)
  /\ \E u \in There, en, ad \in Marks :
       /\ en # "keep" \/ ad # "keep"
       /\ Passes(MayChange(a, u, en, ad), u # a \/ ~Lowers(en, ad))
       /\ ask' = [ask EXCEPT ![a] = [next |-> IF en = "keep" THEN "admin" ELSE "enabled",
                                     user |-> u, en |-> en, ad |-> ad]]
  /\ UNCHANGED <<configured, wizard, acct, live, cut>>

AskDelete(a) ==
  /\ Asks(a)
  /\ \E u \in There :
       /\ Passes(MayDelete(a, u), u # a)
       /\ ask' = [ask EXCEPT ![a] = [next |-> "delete", user |-> u, en |-> "keep", ad |-> "keep"]]
  /\ UNCHANGED <<configured, wizard, acct, live, cut>>

\* handleCreateUser.
AddUser(a) ==
  /\ Asks(a)
  /\ \E admin \in BOOLEAN : Insert(admin)
  /\ UNCHANGED <<configured, wizard, login, sess, ask, live, faults, blind, cut>>

AfterEnabled(r) == IF r.ad = "keep" THEN None ELSE [r EXCEPT !.next = "admin"]

\* Mutant: the sessions are left to the caller.
PutEnabledOnly(a) ==
  /\ ask[a] # None /\ ask[a].next = "enabled"
  /\ LET u == ask[a].user
         off == ask[a].en = "off" IN
       /\ user' = [user EXCEPT ![u].enabled = user[u].there /\ ~off]
       /\ ask' = [ask EXCEPT ![a] = AfterEnabled(ask[a])]
       /\ login' = [login EXCEPT ![u] = IF off /\ login[u] = "read" THEN "raced" ELSE login[u]]
       /\ sess' = [t \in Tokens |->
                     IF off /\ sess[t] # None /\ sess[t].of = u /\ sess[t].age = "new"
                       THEN [sess[t] EXCEPT !.age = "old"] ELSE sess[t]]
  /\ UNCHANGED <<configured, wizard, born, live, world>>

\* SetUserEnabled's first statement.  A sign-in that is past its check and a session not
\* dropped yet are older than this disabling.
PutEnabled(a) ==
  /\ ask[a] # None /\ ask[a].next = "enabled"
  /\ LET u == ask[a].user
         off == ask[a].en = "off" IN
       /\ user' = [user EXCEPT ![u].enabled = user[u].there /\ ~off]
       /\ ask' = [ask EXCEPT ![a] = IF off THEN [ask[a] EXCEPT !.next = "drop"]
                                    ELSE AfterEnabled(ask[a])]
       /\ login' = [login EXCEPT ![u] = IF off /\ login[u] = "read" THEN "raced" ELSE login[u]]
       /\ sess' = [t \in Tokens |->
                     IF off /\ sess[t] # None /\ sess[t].of = u /\ sess[t].age = "new"
                       THEN [sess[t] EXCEPT !.age = "old"] ELSE sess[t]]
  /\ UNCHANGED <<configured, wizard, born, live, world>>

\* Its second: DeleteUserSessions, which ends the request when it fails.
DropSessions(a) ==
  /\ ask[a] # None /\ ask[a].next = "drop"
  /\ LET Mine(t) == sess[t] # None /\ sess[t].of = ask[a].user IN
       \/ /\ DeleteUserSessions(ask[a].user)
          /\ ask' = [ask EXCEPT ![a] = AfterEnabled(ask[a])]
          /\ UNCHANGED faults
       \/ /\ faults > 0 /\ faults' = faults - 1
          /\ ask' = [ask EXCEPT ![a] = None]
          /\ sess' = [t \in Tokens |->
                         IF Mine(t) THEN [sess[t] EXCEPT !.age = "raced"] ELSE sess[t]]
  /\ UNCHANGED <<configured, wizard, born, user, login, live, asks, blind, cut>>

\* SetUserAdmin: no session is touched.
PutAdmin(a) ==
  /\ ask[a] # None /\ ask[a].next = "admin"
  /\ user' = [user EXCEPT ![ask[a].user].admin = user[ask[a].user].there /\ ask[a].ad = "on"]
  /\ ask' = [ask EXCEPT ![a] = None]
  /\ UNCHANGED <<configured, wizard, born, login, sess, live, world>>

\* DeleteUser; the sessions go with the row.
Delete(a) ==
  /\ ask[a] # None /\ ask[a].next = "delete"
  /\ user' = [user EXCEPT ![ask[a].user] = NoUser]
  /\ DeleteUserSessions(ask[a].user)
  /\ ask' = [ask EXCEPT ![a] = None]
  /\ UNCHANGED <<configured, wizard, born, login, live, world>>

-----------------------------------------------------------------------------
\* Streams.

\* acquire: count first, and count back when that was one too many.
Open(p) ==
  /\ stream[p].pc = "off"
  /\ n' = n + 1
  /\ \E t \in Tokens :
       /\ Resolves(t)
       /\ stream' = [stream EXCEPT ![p] =
            IF n + 1 > StreamMax THEN [NoStream EXCEPT !.pc = "shed"]
            ELSE [pc |-> "on", tok |-> t, admin |-> user[sess[t].of].admin]]
  /\ UNCHANGED <<configured, wizard, acct, ask, world>>

Close(p) == n' = n - 1 /\ stream' = [stream EXCEPT ![p] = NoStream]

\* Mutant: the refused connection is not counted back.
ShedCounted(p) ==
  /\ stream[p].pc = "shed"
  /\ stream' = [stream EXCEPT ![p] = NoStream] /\ UNCHANGED n
  /\ UNCHANGED <<configured, wizard, acct, ask, world>>

\* The refused connection's second half.
Shed(p) ==
  /\ stream[p].pc = "shed" /\ Close(p)
  /\ UNCHANGED <<configured, wizard, acct, ask, world>>

Leave(p) ==
  /\ stream[p].pc = "on" /\ Close(p)
  /\ UNCHANGED <<configured, wizard, acct, ask, world>>

\* The heartbeat of a stream that has been quiet for fifteen seconds.
Beat(p) ==
  /\ stream[p].pc = "on" /\ ~StillAllowed(stream[p])
  /\ Close(p)
  /\ UNCHANGED <<configured, wizard, acct, ask, world>>

-----------------------------------------------------------------------------
\* The process stops: handlers and streams are gone, the store stays.
Restart ==
  /\ faults > 0 /\ faults' = faults - 1
  /\ cut' = (cut \/ (There = {} /\ \E w \in Wizards : wizard[w] \in {"saved", "verified"}))
  /\ wizard' = [w \in Wizards |-> IF wizard[w] = "idle" THEN "idle" ELSE "done"]
  /\ login' = [u \in Users |-> "no"]
  /\ sess' = [t \in Tokens |-> IF sess[t] # None /\ sess[t].age = "old"
                                 THEN [sess[t] EXCEPT !.age = "raced"] ELSE sess[t]]
  /\ ask' = [a \in Users |-> None]
  /\ n' = 0 /\ stream' = [p \in Pages |-> NoStream]
  /\ UNCHANGED <<configured, born, user, asks, blind>>

Init ==
  /\ configured = FALSE /\ wizard = [w \in Wizards |-> "idle"]
  /\ born = 0 /\ user = [u \in Users |-> NoUser]
  /\ login = [u \in Users |-> "no"] /\ sess = [t \in Tokens |-> None]
  /\ ask = [a \in Users |-> None]
  /\ n = 0 /\ stream = [p \in Pages |-> NoStream]
  /\ asks = MaxAsks /\ faults = MaxFaults /\ blind = FALSE /\ cut = FALSE

Next ==
  \/ \E w \in Wizards : SetupCheck(w) \/ SetupSave(w) \/ SetupVerify(w) \/ SetupCreate(w)
  \/ \E u \in Users : LoginRead(u) \/ LoginIssue(u)
  \/ \E t \in Tokens : SessionEnds(t)
  \/ \E a \in Users : \/ AskChange(a) \/ AskDelete(a) \/ AddUser(a)
                      \/ PutEnabled(a) \/ DropSessions(a) \/ PutAdmin(a) \/ Delete(a)
  \/ \E p \in Pages : Open(p) \/ Shed(p) \/ Leave(p) \/ Beat(p)
  \/ Restart

Spec == Init /\ [][Next]_vars

\* A stream has fifteen quiet seconds now and then, and a running handler finishes.
FairSpec == Spec /\ \A p \in Pages : WF_vars(Beat(p)) /\ WF_vars(Shed(p))

-----------------------------------------------------------------------------
\* Types, and the limiter's books: every connection that has been counted is counted once, and
\* no more than StreamMax are served.
TypeOK ==
  /\ configured \in BOOLEAN /\ blind \in BOOLEAN /\ cut \in BOOLEAN
  /\ wizard \in [Wizards -> {"idle", "checked", "saved", "verified", "done"}]
  /\ born \in 0..MaxUsers /\ There \subseteq 1..born
  /\ user \in [Users -> [there : BOOLEAN, enabled : BOOLEAN, admin : BOOLEAN]]
  /\ login \in [Users -> {"no", "read", "raced"}]
  /\ \A t \in Tokens : sess[t] # None =>
       sess[t].of \in There /\ sess[t].age \in {"new", "old", "raced"}
  /\ ask \in [Users -> Requests \cup {None}]
  /\ n = Cardinality({p \in Pages : stream[p].pc # "off"})
  /\ Cardinality({p \in Pages : stream[p].pc = "on"}) <= StreamMax
  /\ asks \in 0..MaxAsks /\ faults \in 0..MaxFaults

\* The first account stays an enabled administrator, whatever administrators ask of each other
\* at the same time on the strength of checks made before the other's writes - provided the
\* owner could be read when a request was judged (handleUpdateUser, handleDeleteUser).
AdminRemains == born > 0 /\ ~blind => user[1].there /\ Admin(1)

\* A saved connection with no wizard at work comes with an account to sign in with: submissions
\* that overlap and fail never leave an instance that is set up and has nobody
\* (handleSetupSubmit).  A restart inside the wizard does.
SetupLeavesAWay ==
  configured /\ (\A w \in Wizards : wizard[w] \notin {"saved", "verified"}) /\ ~cut /\ ~blind
    => \E u \in Users : Admin(u)

\* A session opened before its user was disabled is gone once that request is done, so enabling
\* the user again revives none (SetUserEnabled, FR-010) - except one whose sign-in was past
\* its password check at the time, or whose deletion failed.
LockedOut ==
  \A t \in Tokens : sess[t] # None /\ sess[t].age = "old" =>
    \E a \in Users : ask[a] # None /\ ask[a].next = "drop" /\ ask[a].user = sess[t].of

\* A stream whose session or administrator's view was withdrawn is ended
\* (ytdlStreamStillAllowed), whatever else goes on.
Entitled(s) ==
  sess[s.tok] # None /\ LET u == user[sess[s.tok].of] IN u.enabled /\ u.admin = s.admin
RevokedStreamEnds ==
  \A p \in Pages : stream[p].pc = "on" /\ ~Entitled(stream[p])
                     ~> stream[p].pc # "on" \/ Entitled(stream[p])

-----------------------------------------------------------------------------
=============================================================================
