--------------------------- MODULE AccountsProofs ---------------------------
(***************************************************************************)
(* The three safety properties of Accounts, for any number of users,       *)
(* sessions, wizards, requests and faults.                                 *)
(*                                                                         *)
(* None is inductive by itself, because a handler writes on the strength   *)
(* of what it checked when it began.  OwnerSafe says what the requests     *)
(* under way may still do to the first account, Peopled that a connection  *)
(* is kept only beside an account.                                         *)
(***************************************************************************)
EXTENDS Accounts, TLAPS

Account  == [there : BOOLEAN, enabled : BOOLEAN, admin : BOOLEAN]
Session  == [of : Users, age : {"new", "old", "raced"}]
Progress == {"idle", "checked", "saved", "verified", "done"}

\* Types; rows that have not been created yet are nobody's, and no request is about them.
Types ==
  /\ configured \in BOOLEAN /\ blind \in BOOLEAN /\ cut \in BOOLEAN
  /\ wizard \in [Wizards -> Progress]
  /\ born \in 0..MaxUsers
  /\ user \in [Users -> Account]
  /\ login \in [Users -> {"no", "read", "raced"}]
  /\ sess \in [Tokens -> Session \cup {None}]
  /\ ask \in [Users -> Requests \cup {None}]
  /\ \A u \in Users : u > born => user[u] = NoUser
  /\ \A a \in Users : ask[a] # None => ask[a].user <= born

\* What a request about the first account may still write.
Harmless(r) ==
  /\ r.next \in {"enabled", "admin"}
  /\ r.next = "enabled" => r.en = "on" /\ r.ad # "off"
  /\ r.next = "admin" => r.ad = "on"

OwnerSafe ==
  born > 0 /\ ~blind =>
    /\ user[1].there /\ user[1].enabled /\ user[1].admin
    /\ \A a \in Users : ask[a] # None /\ ask[a].user = 1 => Harmless(ask[a])

\* A connection that no submission is still trying stands beside an account.
Peopled ==
  configured /\ ~cut /\ (\A w \in Wizards : wizard[w] \notin {"saved", "verified"}) => born > 0

Inv == Types /\ OwnerSafe /\ LockedOut /\ Peopled

-----------------------------------------------------------------------------
LEMMA InitInv == Init => Inv
<1> SUFFICES ASSUME Init PROVE Inv  OBVIOUS
<1> USE AccountsAssumption DEF Init
<1>1. Types
  <2>1. /\ configured \in BOOLEAN /\ blind \in BOOLEAN /\ cut \in BOOLEAN
        /\ wizard \in [Wizards -> Progress]
    BY DEF Progress
  <2>5. born \in 0..MaxUsers  OBVIOUS
  <2>2. user \in [Users -> Account]  BY DEF Account, NoUser
  <2>3. sess \in [Tokens -> Session \cup {None}] /\ ask \in [Users -> Requests \cup {None}]
    OBVIOUS
  <2>4. login \in [Users -> {"no", "read", "raced"}]  OBVIOUS
  <2> QED  BY <2>1, <2>2, <2>3, <2>4, <2>5 DEF Types
<1>2. OwnerSafe  BY DEF OwnerSafe
<1>3. LockedOut  BY DEF LockedOut
<1>4. Peopled  BY DEF Peopled
<1> QED  BY <1>1, <1>2, <1>3, <1>4 DEF Inv

-----------------------------------------------------------------------------
\* Steps that touch neither accounts nor sessions nor requests.
LEMMA Elsewhere ==
  ASSUME Inv, UNCHANGED <<acct, ask, blind>>,
         configured' \in BOOLEAN, cut' \in BOOLEAN, wizard' \in [Wizards -> Progress],
         Peopled'
  PROVE  Inv'
<1>1. Types'  BY DEF Inv, Types, acct
<1>2. OwnerSafe'  BY DEF Inv, OwnerSafe, Harmless, acct
<1>3. LockedOut'  BY DEF Inv, LockedOut, acct
<1> QED  BY <1>1, <1>2, <1>3 DEF Inv

LEMMA SetupStep ==
  ASSUME Inv, NEW w \in Wizards, SetupCheck(w) \/ SetupSave(w) \/ SetupVerify(w)
  PROVE  Inv'
<1>1. /\ configured \in BOOLEAN /\ cut \in BOOLEAN /\ wizard \in [Wizards -> Progress]
  BY DEF Inv, Types
<1>2. UNCHANGED <<acct, ask, blind, cut>>
  BY DEF SetupCheck, SetupSave, SetupVerify, world
<1>3. configured' \in BOOLEAN /\ wizard' \in [Wizards -> Progress]
  BY <1>1 DEF SetupCheck, SetupSave, SetupVerify, Progress
<1>4. Peopled'
  <2>1. CASE SetupCheck(w)
    <3>1. \A v \in Wizards : wizard'[v] \notin {"saved", "verified"}
                              => wizard[v] \notin {"saved", "verified"}
      BY <1>1, <2>1 DEF SetupCheck
    <3> QED  BY <1>2, <2>1, <3>1 DEF SetupCheck, Peopled, Inv, acct
  <2>2. CASE SetupSave(w)
    BY <1>1, <2>2 DEF SetupSave, Peopled
  <2>3. CASE SetupVerify(w)
    BY <1>1, <2>3 DEF SetupVerify, Peopled
  <2> QED  BY <2>1, <2>2, <2>3
<1> QED  BY <1>1, <1>2, <1>3, <1>4, Elsewhere

LEMMA StreamStep ==
  ASSUME Inv, NEW p \in Pages, Open(p) \/ Shed(p) \/ Leave(p) \/ Beat(p)
  PROVE  Inv'
<1>1. UNCHANGED <<configured, wizard, acct, ask, blind, cut>>
  BY DEF Open, Shed, Leave, Beat, world
<1>2. Peopled'  BY <1>1 DEF Inv, Peopled, acct
<1> QED  BY <1>1, <1>2, Elsewhere DEF Inv, Types

-----------------------------------------------------------------------------
\* The administrator's account, or a name that is taken.
LEMMA SetupCreateStep ==
  ASSUME Inv, NEW w \in Wizards, SetupCreate(w)
  PROVE  Inv'
<1> USE AccountsAssumption
<1>0. Types  BY DEF Inv
<1>1. CASE Insert(TRUE) /\ UNCHANGED configured
  <2>1. /\ born < MaxUsers /\ born' = born + 1
        /\ user' = [user EXCEPT ![born + 1] = [there |-> TRUE, enabled |-> TRUE, admin |-> TRUE]]
    BY <1>1 DEF Insert
  <2>2. login' = [login EXCEPT ![born + 1] = "read"] \/ login' = login
    BY DEF SetupCreate, acct
  <2>3. UNCHANGED <<sess, ask, blind, cut>> /\ wizard' = [wizard EXCEPT ![w] = "done"]
    BY DEF SetupCreate, acct, world
  <2>4. Types'
    <3>1. born + 1 \in Users /\ born' \in 0..MaxUsers
      BY <1>0, <2>1 DEF Types, Users
    <3>2. user' \in [Users -> Account]  BY <1>0, <2>1, <3>1 DEF Types, Account
    <3>3. \A u \in Users : u > born' => user'[u] = NoUser
      BY <1>0, <2>1, <3>1 DEF Types, Users
    <3>4. \A a \in Users : ask'[a] # None => ask'[a].user <= born'
      BY <1>0, <2>1, <2>3 DEF Types, Users, Requests
    <3>5. login' \in [Users -> {"no", "read", "raced"}]  BY <1>0, <2>2, <3>1 DEF Types
    <3>6. wizard' \in [Wizards -> Progress]  BY <1>0, <2>3 DEF Types, Progress
    <3> QED  BY <1>0, <1>1, <2>3, <3>1, <3>2, <3>3, <3>4, <3>5, <3>6 DEF Types
  <2>5. OwnerSafe'
    <3>1. CASE born = 0
      <4>1. user'[1].there /\ user'[1].enabled /\ user'[1].admin
        BY <1>0, <2>1, <3>1 DEF Types, Users
      <4>2. \A a \in Users : ask[a] = None
        BY <1>0, <3>1 DEF Types, Users, Requests
      <4> QED  BY <2>3, <4>1, <4>2 DEF OwnerSafe
    <3>2. CASE born > 0
      <4>1. user'[1] = user[1]  BY <1>0, <2>1, <3>2 DEF Types, Users
      <4> QED  BY <2>3, <3>2, <4>1 DEF OwnerSafe, Harmless, Inv
    <3> QED  BY <1>0, <3>1, <3>2 DEF Types
  <2>6. LockedOut'  BY <2>3 DEF LockedOut, Inv
  <2>7. Peopled'  BY <1>0, <2>1 DEF Peopled, Types
  <2> QED  BY <2>4, <2>5, <2>6, <2>7 DEF Inv
<1>2. CASE There # {} /\ configured' = FALSE /\ UNCHANGED acct
  <2>1. UNCHANGED <<ask, blind, cut>> /\ wizard' = [wizard EXCEPT ![w] = "done"]
    BY DEF SetupCreate, world
  <2>2. wizard' \in [Wizards -> Progress]  BY <1>0, <2>1 DEF Types, Progress
  <2>3. Peopled'  BY <1>2 DEF Peopled
  <2> QED  BY <1>0, <1>2, <2>1, <2>2, <2>3, Elsewhere DEF Types
<1> QED  BY <1>1, <1>2 DEF SetupCreate

-----------------------------------------------------------------------------
\* Steps of a sign-in.
LEMMA LoginStep ==
  ASSUME Inv, NEW u \in Users, LoginRead(u) \/ LoginIssue(u)
  PROVE  Inv'
<1>0. Types  BY DEF Inv
<1>1. UNCHANGED <<configured, wizard, born, user, ask, blind, cut>>
  BY DEF LoginRead, LoginIssue, world
<1>2. login' \in [Users -> {"no", "read", "raced"}]
  BY <1>0 DEF Types, LoginRead, LoginIssue
<1>3. sess' = sess \/ \E t \in Tokens, age \in {"new", "raced"} :
                          sess' = [sess EXCEPT ![t] = [of |-> u, age |-> age]]
  BY DEF LoginRead, LoginIssue, CreateSession
<1>4. sess' \in [Tokens -> Session \cup {None}]
  BY <1>0, <1>3 DEF Types, Session
<1>5. Types'  BY <1>0, <1>1, <1>2, <1>4 DEF Types
<1>6. LockedOut'
  <2> SUFFICES ASSUME NEW t \in Tokens, sess'[t] # None, sess'[t].age = "old"
               PROVE  sess[t] # None /\ sess[t].age = "old" /\ sess'[t] = sess[t]
    BY <1>1 DEF LockedOut, Inv
  <2> QED  BY <1>0, <1>3 DEF Types
<1>7. OwnerSafe' /\ Peopled'  BY <1>1 DEF Inv, OwnerSafe, Harmless, Peopled
<1> QED  BY <1>5, <1>6, <1>7 DEF Inv

LEMMA SessionEndsStep ==
  ASSUME Inv, NEW t \in Tokens, SessionEnds(t)
  PROVE  Inv'
<1>0. Types  BY DEF Inv
<1>1. UNCHANGED <<configured, wizard, born, user, login, ask, blind, cut>>
  BY DEF SessionEnds, world
<1>2. sess' = [sess EXCEPT ![t] = None]  BY DEF SessionEnds, DeleteSession
<1>3. Types'  BY <1>0, <1>1, <1>2 DEF Types
<1>4. LockedOut'  BY <1>0, <1>1, <1>2 DEF LockedOut, Inv, Types
<1>5. OwnerSafe' /\ Peopled'  BY <1>1 DEF Inv, OwnerSafe, Harmless, Peopled
<1> QED  BY <1>3, <1>4, <1>5 DEF Inv

-----------------------------------------------------------------------------
\* The first account is the owner for as long as it is there.
LEMMA FirstIsOwner ==
  ASSUME Types, user[1].there
  PROVE  IsOwner(1)
BY AccountsAssumption DEF IsOwner, There, Users, Types

\* A request is accepted from a user there is, and what it will write is no older than its user.
LEMMA AskStep ==
  ASSUME Inv, NEW a \in Users, AskChange(a) \/ AskDelete(a)
  PROVE  Inv'
<1> USE AccountsAssumption
<1>0. Types  BY DEF Inv
<1>1. UNCHANGED <<configured, wizard, acct, cut>> /\ ask[a] = None
  BY DEF AskChange, AskDelete, Asks
<1>2. PICK u \in There, next \in {"enabled", "admin", "delete"}, en \in Marks, ad \in Marks :
        /\ ask' = [ask EXCEPT ![a] = [next |-> next, user |-> u, en |-> en, ad |-> ad]]
        /\ \/ blind' = TRUE
           \/ /\ blind' = blind
              /\ \/ next = "delete" /\ MayDelete(a, u)
                 \/ /\ MayChange(a, u, en, ad)
                    /\ en # "keep" \/ ad # "keep"
                    /\ next = IF en = "keep" THEN "admin" ELSE "enabled"
  <2>1. CASE AskChange(a)
    <3>1. PICK u \in There, en \in Marks, ad \in Marks :
            /\ en # "keep" \/ ad # "keep"
            /\ Passes(MayChange(a, u, en, ad), u # a \/ ~Lowers(en, ad))
            /\ ask' = [ask EXCEPT ![a] = [next |-> IF en = "keep" THEN "admin" ELSE "enabled",
                                         user |-> u, en |-> en, ad |-> ad]]
      BY <2>1 DEF AskChange
    <3>2. \/ blind' = TRUE
          \/ blind' = blind /\ MayChange(a, u, en, ad)
      BY <3>1 DEF Passes
    <3> QED  BY <3>1, <3>2
  <2>2. CASE AskDelete(a)
    <3>1. PICK u \in There :
            /\ Passes(MayDelete(a, u), u # a)
            /\ ask' = [ask EXCEPT ![a] = [next |-> "delete", user |-> u,
                                         en |-> "keep", ad |-> "keep"]]
      BY <2>2 DEF AskDelete
    <3>2. blind' = TRUE \/ (blind' = blind /\ MayDelete(a, u))  BY <3>1 DEF Passes
    <3>3. "keep" \in Marks  BY DEF Marks
    <3> QED  BY <3>1, <3>2, <3>3
  <2> QED  BY <2>1, <2>2
<1> DEFINE r == [next |-> next, user |-> u, en |-> en, ad |-> ad]
<1>3. u \in Users /\ u <= born /\ user[u].there
  BY <1>0 DEF Types, There, NoUser, Users
<1>4. r \in Requests  BY <1>3 DEF Requests
<1>5. Types'
  <2>1. ask' \in [Users -> Requests \cup {None}]  BY <1>0, <1>2, <1>4 DEF Types
  <2>2. \A b \in Users : ask'[b] # None => ask'[b].user <= born'
    BY <1>0, <1>1, <1>2, <1>3 DEF Types, acct
  <2>3. blind' \in BOOLEAN  BY <1>0, <1>2 DEF Types
  <2> QED  BY <1>0, <1>1, <2>1, <2>2, <2>3 DEF Types, acct
<1>6. OwnerSafe'
  <2> SUFFICES ASSUME born > 0, ~blind'
               PROVE  /\ user[1].there /\ user[1].enabled /\ user[1].admin
                      /\ \A b \in Users : ask'[b] # None /\ ask'[b].user = 1 => Harmless(ask'[b])
    BY <1>1 DEF OwnerSafe, Harmless, acct
  <2>1. blind' = blind /\ ~blind  BY <1>2
  <2>2. /\ user[1].there /\ user[1].enabled /\ user[1].admin
        /\ \A b \in Users : ask[b] # None /\ ask[b].user = 1 => Harmless(ask[b])
    BY <2>1 DEF OwnerSafe, Inv
  <2>3. IsOwner(1)  BY <1>0, <2>2, FirstIsOwner
  <2>4. u = 1 => Harmless(r)
    <3>1. CASE next = "delete"
      BY <1>2, <2>1, <2>3, <3>1 DEF MayDelete
    <3>2. CASE next # "delete"
      BY <1>2, <2>1, <2>3, <3>2 DEF MayChange, Lowers, Marks, Harmless
    <3> QED  BY <3>1, <3>2
  <2> QED  BY <1>0, <1>2, <2>2, <2>4 DEF Types
<1>7. LockedOut'
  BY <1>0, <1>1, <1>2 DEF LockedOut, Inv, Types, acct
<1>8. Peopled'  BY <1>1 DEF Peopled, Inv, acct
<1> QED  BY <1>5, <1>6, <1>7, <1>8 DEF Inv

LEMMA AddUserStep ==
  ASSUME Inv, NEW a \in Users, AddUser(a)
  PROVE  Inv'
<1> USE AccountsAssumption
<1>0. Types  BY DEF Inv
<1>1. PICK admin \in BOOLEAN : Insert(admin)  BY DEF AddUser
<1>2. UNCHANGED <<configured, wizard, login, sess, ask, blind, cut>>  BY DEF AddUser
<1>3. born > 0
  BY <1>0 DEF AddUser, Asks, Admin, Types, Users, NoUser
<1>4. /\ born < MaxUsers /\ born' = born + 1
      /\ user' = [user EXCEPT ![born + 1] = [there |-> TRUE, enabled |-> TRUE, admin |-> admin]]
  BY <1>1 DEF Insert
<1>5. Types'
  <2>1. born + 1 \in Users /\ born' \in 0..MaxUsers  BY <1>0, <1>4 DEF Types, Users
  <2>2. user' \in [Users -> Account]  BY <1>0, <1>4, <2>1 DEF Types, Account
  <2>3. \A u \in Users : u > born' => user'[u] = NoUser
    BY <1>0, <1>4, <2>1 DEF Types, Users
  <2>4. \A b \in Users : ask'[b] # None => ask'[b].user <= born'
    BY <1>0, <1>2, <1>4 DEF Types, Users, Requests
  <2> QED  BY <1>0, <1>2, <2>1, <2>2, <2>3, <2>4 DEF Types
<1>6. user'[1] = user[1]  BY <1>0, <1>3, <1>4 DEF Types, Users
<1>7. OwnerSafe'  BY <1>2, <1>3, <1>6 DEF OwnerSafe, Harmless, Inv
<1>8. LockedOut'  BY <1>2 DEF LockedOut, Inv
<1>9. Peopled'  BY <1>0, <1>4 DEF Peopled, Types
<1> QED  BY <1>5, <1>7, <1>8, <1>9 DEF Inv

-----------------------------------------------------------------------------
\* What a request does next is still a request about the same user, and about the first
\* account still harmless.
LEMMA NextAsk ==
  ASSUME NEW r \in Requests, r.next = "enabled"
  PROVE  /\ AfterEnabled(r) \in Requests \cup {None}
         /\ AfterEnabled(r) # None => AfterEnabled(r).user = r.user
         /\ Harmless(r) => r.en = "on"
         /\ AfterEnabled(r) # None /\ Harmless(r) => Harmless(AfterEnabled(r))
BY DEF AfterEnabled, Requests, Marks, Harmless

LEMMA PutEnabledStep ==
  ASSUME Inv, NEW a \in Users, PutEnabled(a)
  PROVE  Inv'
<1> USE AccountsAssumption
<1>0. Types  BY DEF Inv
<1> DEFINE r   == ask[a]
           off == r.en = "off"
           now == IF off THEN [r EXCEPT !.next = "drop"] ELSE AfterEnabled(r)
<1>1. r \in Requests /\ r.next = "enabled" /\ r # None /\ r.user \in Users
  BY <1>0 DEF PutEnabled, Types, Requests
<1>2. /\ user' = [user EXCEPT ![r.user].enabled = user[r.user].there /\ ~off]
      /\ ask' = [ask EXCEPT ![a] = now]
      /\ login' = [login EXCEPT ![r.user] = IF off /\ login[r.user] = "read" THEN "raced"
                                            ELSE login[r.user]]
      /\ sess' = [t \in Tokens |->
                    IF off /\ sess[t] # None /\ sess[t].of = r.user /\ sess[t].age = "new"
                      THEN [sess[t] EXCEPT !.age = "old"] ELSE sess[t]]
      /\ UNCHANGED <<configured, wizard, born, blind, cut>>
  BY DEF PutEnabled, world
<1>3. /\ now \in Requests \cup {None}
      /\ now # None => now.user = r.user
      /\ off => now \in Requests /\ now # None /\ now.next = "drop"
  <2>1. CASE off
    <3>1. [r EXCEPT !.next = "drop"] \in Requests  BY <1>1 DEF Requests
    <3> QED  BY <1>1, <2>1, <3>1 DEF Requests
  <2>2. CASE ~off  BY <1>1, <2>2, NextAsk
  <2> QED  BY <2>1, <2>2
<1> HIDE DEF now
<1>4. Types'
  <2>1. ask' \in [Users -> Requests \cup {None}]  BY <1>0, <1>2, <1>3 DEF Types
  <2>2. \A b \in Users : ask'[b] # None => ask'[b].user <= born'
    BY <1>0, <1>1, <1>2, <1>3 DEF Types
  <2>3. user' \in [Users -> Account]
    <3> DEFINE en == user[r.user].there /\ ~off
    <3>1. en \in BOOLEAN  OBVIOUS
    <3>2. user' = [user EXCEPT ![r.user].enabled = en]  BY <1>2
    <3> HIDE DEF en
    <3> QED  BY <1>0, <1>1, <3>1, <3>2 DEF Types, Account
  <2>4. \A u \in Users : u > born' => user'[u] = NoUser
    BY <1>0, <1>1, <1>2 DEF Types, Users
  <2>5. login' \in [Users -> {"no", "read", "raced"}]  BY <1>0, <1>1, <1>2 DEF Types
  <2>6. sess' \in [Tokens -> Session \cup {None}]  BY <1>0, <1>2 DEF Types, Session
  <2> QED  BY <1>0, <1>2, <2>1, <2>2, <2>3, <2>4, <2>5, <2>6 DEF Types
<1>5. OwnerSafe'
  <2> SUFFICES ASSUME born > 0, ~blind
               PROVE  /\ user'[1].there /\ user'[1].enabled /\ user'[1].admin
                      /\ \A b \in Users : ask'[b] # None /\ ask'[b].user = 1 => Harmless(ask'[b])
    BY <1>2 DEF OwnerSafe, Harmless
  <2>1. /\ user[1].there /\ user[1].enabled /\ user[1].admin
        /\ \A b \in Users : ask[b] # None /\ ask[b].user = 1 => Harmless(ask[b])
    BY DEF OwnerSafe, Inv
  <2>2. 1 \in Users /\ user[1] \in Account  BY <1>0 DEF Users, Types
  <2>3. CASE r.user = 1
    <3>1. Harmless(r)  BY <1>1, <2>1, <2>3
    <3>2. ~off  BY <1>1, <3>1 DEF Harmless
    <3>3. now # None => Harmless(now)  BY <1>1, <3>1, <3>2, NextAsk DEF now
    <3>4. user'[1].there /\ user'[1].enabled /\ user'[1].admin
      BY <1>0, <1>2, <2>1, <2>2, <2>3, <3>2 DEF Types, Account
    <3> QED  BY <1>0, <1>2, <2>1, <3>3, <3>4 DEF Types
  <2>4. CASE r.user # 1
    <3>1. user'[1] = user[1]  BY <1>0, <1>2, <2>4, <2>2 DEF Types
    <3> QED  BY <1>0, <1>2, <1>3, <2>1, <2>4, <3>1 DEF Types
  <2> QED  BY <2>3, <2>4
<1>6. LockedOut'
  <2> SUFFICES ASSUME NEW t \in Tokens, sess'[t] # None, sess'[t].age = "old"
               PROVE  \E b \in Users : ask'[b] # None /\ ask'[b].next = "drop"
                                        /\ ask'[b].user = sess'[t].of
    BY DEF LockedOut
  <2>1. CASE off /\ sess[t] # None /\ sess[t].of = r.user /\ sess[t].age = "new"
    <3>1. sess'[t].of = r.user  BY <1>0, <1>2, <2>1 DEF Types, Session
    <3>2. ask'[a] = now  BY <1>0, <1>2 DEF Types
    <3> QED  BY <1>3, <2>1, <3>1, <3>2
  <2>2. CASE sess'[t] = sess[t]
    <3>1. PICK b \in Users : ask[b] # None /\ ask[b].next = "drop" /\ ask[b].user = sess[t].of
      BY <2>2 DEF LockedOut, Inv
    <3>2. b # a /\ ask'[b] = ask[b]  BY <1>0, <1>1, <1>2, <3>1 DEF Types
    <3> QED  BY <2>2, <3>1, <3>2
  <2> QED  BY <1>2, <2>1, <2>2
<1>7. Peopled'  BY <1>2 DEF Peopled, Inv
<1> QED  BY <1>4, <1>5, <1>6, <1>7 DEF Inv

\* SetUserEnabled's second statement: all the user's old sessions go, or none of them is to go
\* any more.
LEMMA DropSessionsStep ==
  ASSUME Inv, NEW a \in Users, DropSessions(a)
  PROVE  Inv'
<1> USE AccountsAssumption
<1>0. Types  BY DEF Inv
<1> DEFINE r == ask[a]
<1>1. r \in Requests /\ r.next = "drop" /\ r # None  BY <1>0 DEF DropSessions, Types
<1>2. UNCHANGED <<configured, wizard, born, user, login, blind, cut>>  BY DEF DropSessions
<1>3. born > 0 /\ ~blind => r.user # 1
  BY <1>1 DEF OwnerSafe, Harmless, Inv
<1>4. PICK next \in Requests \cup {None} :
        /\ ask' = [ask EXCEPT ![a] = next]
        /\ next # None => next.user = r.user
  <2>1. AfterEnabled(r) \in Requests \cup {None}
    BY <1>1 DEF AfterEnabled, Requests
  <2>2. AfterEnabled(r) # None => AfterEnabled(r).user = r.user
    BY <1>1 DEF AfterEnabled, Requests
  <2> QED  BY <2>1, <2>2 DEF DropSessions
<1>5. /\ sess' \in [Tokens -> Session \cup {None}]
      /\ \A t \in Tokens : sess'[t] # None /\ sess'[t].age = "old"
                             => sess'[t] = sess[t] /\ sess[t].of # r.user
  <2>1. CASE DeleteUserSessions(r.user)
    BY <1>0, <2>1 DEF DeleteUserSessions, Types
  <2>2. CASE sess' = [t \in Tokens |-> IF sess[t] # None /\ sess[t].of = r.user
                                         THEN [sess[t] EXCEPT !.age = "raced"] ELSE sess[t]]
    <3>1. \A t \in Tokens : sess[t] # None => sess[t] \in Session /\
             [sess[t] EXCEPT !.age = "raced"] \in Session /\
             [sess[t] EXCEPT !.age = "raced"].age = "raced"
      BY <1>0 DEF Types, Session
    <3> QED  BY <1>0, <2>2, <3>1 DEF Types
  <2> QED  BY <2>1, <2>2 DEF DropSessions
<1>6. Types'
  <2>1. ask' \in [Users -> Requests \cup {None}]  BY <1>0, <1>4 DEF Types
  <2>2. \A b \in Users : ask'[b] # None => ask'[b].user <= born'
    BY <1>0, <1>1, <1>2, <1>4 DEF Types
  <2> QED  BY <1>0, <1>2, <1>5, <2>1, <2>2 DEF Types
<1>7. OwnerSafe'
  BY <1>0, <1>2, <1>3, <1>4 DEF OwnerSafe, Harmless, Inv, Types
<1>8. LockedOut'
  <2> SUFFICES ASSUME NEW t \in Tokens, sess'[t] # None, sess'[t].age = "old"
               PROVE  \E b \in Users : ask'[b] # None /\ ask'[b].next = "drop"
                                        /\ ask'[b].user = sess'[t].of
    BY DEF LockedOut
  <2>1. PICK b \in Users : ask[b] # None /\ ask[b].next = "drop" /\ ask[b].user = sess[t].of
    BY <1>5 DEF LockedOut, Inv
  <2>2. b # a  BY <1>5, <2>1
  <2> QED  BY <1>0, <1>4, <1>5, <2>1, <2>2 DEF Types
<1>9. Peopled'  BY <1>2 DEF Peopled, Inv
<1> QED  BY <1>6, <1>7, <1>8, <1>9 DEF Inv

LEMMA PutAdminStep ==
  ASSUME Inv, NEW a \in Users, PutAdmin(a)
  PROVE  Inv'
<1> USE AccountsAssumption
<1>0. Types  BY DEF Inv
<1> DEFINE r  == ask[a]
           on == user[r.user].there /\ r.ad = "on"
<1>1. r \in Requests /\ r.next = "admin" /\ r # None /\ r.user \in Users
  BY <1>0 DEF PutAdmin, Types, Requests
<1>2. /\ user' = [user EXCEPT ![r.user].admin = on]
      /\ ask' = [ask EXCEPT ![a] = None]
      /\ UNCHANGED <<configured, wizard, born, login, sess, blind, cut>>
  BY DEF PutAdmin, world
<1>3. on \in BOOLEAN  OBVIOUS
<1>4. born > 0 /\ ~blind /\ r.user = 1 => on
  BY <1>1 DEF OwnerSafe, Harmless, Inv
<1> HIDE DEF on
<1>5. Types'
  <2>1. user' \in [Users -> Account]  BY <1>0, <1>1, <1>2, <1>3 DEF Types, Account
  <2>2. \A u \in Users : u > born' => user'[u] = NoUser
    BY <1>0, <1>1, <1>2 DEF Types, Users
  <2> QED  BY <1>0, <1>2, <2>1, <2>2 DEF Types
<1>6. OwnerSafe'
  <2>1. 1 \in Users /\ user[1] \in Account  BY <1>0 DEF Users, Types
  <2>2. /\ user'[1].there = user[1].there /\ user'[1].enabled = user[1].enabled
        /\ user'[1].admin = IF r.user = 1 THEN on ELSE user[1].admin
    BY <1>0, <1>2, <2>1 DEF Types, Account
  <2> QED  BY <1>0, <1>2, <1>4, <2>2 DEF OwnerSafe, Harmless, Inv, Types
<1>7. LockedOut'
  BY <1>0, <1>1, <1>2 DEF LockedOut, Inv, Types
<1>8. Peopled'  BY <1>2 DEF Peopled, Inv
<1> QED  BY <1>5, <1>6, <1>7, <1>8 DEF Inv

LEMMA DeleteStep ==
  ASSUME Inv, NEW a \in Users, Delete(a)
  PROVE  Inv'
<1> USE AccountsAssumption
<1>0. Types  BY DEF Inv
<1> DEFINE r == ask[a]
<1>1. r \in Requests /\ r.next = "delete" /\ r # None /\ r.user \in Users
  BY <1>0 DEF Delete, Types, Requests
<1>2. /\ user' = [user EXCEPT ![r.user] = NoUser]
      /\ sess' = [t \in Tokens |-> IF sess[t] # None /\ sess[t].of = r.user THEN None
                                    ELSE sess[t]]
      /\ ask' = [ask EXCEPT ![a] = None]
      /\ UNCHANGED <<configured, wizard, born, login, blind, cut>>
  BY DEF Delete, DeleteUserSessions, world
<1>3. born > 0 /\ ~blind => r.user # 1
  BY <1>1 DEF OwnerSafe, Harmless, Inv
<1>4. Types'
  <2>1. user' \in [Users -> Account]  BY <1>0, <1>2 DEF Types, Account, NoUser
  <2>2. \A u \in Users : u > born' => user'[u] = NoUser  BY <1>0, <1>2 DEF Types
  <2>3. sess' \in [Tokens -> Session \cup {None}]  BY <1>0, <1>2 DEF Types
  <2> QED  BY <1>0, <1>2, <2>1, <2>2, <2>3 DEF Types
<1>5. OwnerSafe'
  <2>1. born > 0 /\ ~blind => user'[1] = user[1]  BY <1>0, <1>2, <1>3 DEF Types, Users
  <2> QED  BY <1>0, <1>2, <2>1 DEF OwnerSafe, Harmless, Inv, Types
<1>6. LockedOut'
  BY <1>0, <1>1, <1>2 DEF LockedOut, Inv, Types
<1>7. Peopled'  BY <1>2 DEF Peopled, Inv
<1> QED  BY <1>4, <1>5, <1>6, <1>7 DEF Inv

LEMMA RestartStep ==
  ASSUME Inv, Restart
  PROVE  Inv'
<1> USE AccountsAssumption
<1>0. Types  BY DEF Inv
<1>1. UNCHANGED <<configured, born, user, blind>> /\ ask' = [a \in Users |-> None]
  BY DEF Restart
<1>2. /\ sess' \in [Tokens -> Session \cup {None}]
      /\ \A t \in Tokens : sess'[t] # None => sess'[t].age # "old"
  <2>1. \A t \in Tokens : sess[t] # None => sess[t] \in Session /\
           [sess[t] EXCEPT !.age = "raced"] \in Session /\
           [sess[t] EXCEPT !.age = "raced"].age = "raced"
    BY <1>0 DEF Types, Session
  <2> QED  BY <1>0, <2>1 DEF Types, Restart
<1>3. Types'
  <2>1. cut' \in BOOLEAN  BY <1>0 DEF Types, Restart
  <2>2. wizard' \in [Wizards -> Progress]  BY DEF Restart, Progress
  <2>3. login' \in [Users -> {"no", "read", "raced"}]  BY DEF Restart
  <2> QED  BY <1>0, <1>1, <1>2, <2>1, <2>2, <2>3 DEF Types
<1>4. OwnerSafe'  BY <1>1 DEF OwnerSafe, Inv
<1>5. LockedOut'  BY <1>2 DEF LockedOut
<1>6. Peopled'
  <2> SUFFICES ASSUME configured, ~cut' PROVE born > 0  BY <1>1 DEF Peopled
  <2>1. ~cut /\ (There # {} \/ \A w \in Wizards : wizard[w] \notin {"saved", "verified"})
    BY DEF Restart
  <2>2. CASE There # {}
    BY <1>0, <2>2 DEF There, Types, NoUser, Users
  <2>3. CASE \A w \in Wizards : wizard[w] \notin {"saved", "verified"}
    BY <2>1, <2>3 DEF Peopled, Inv
  <2> QED  BY <2>1, <2>2, <2>3
<1> QED  BY <1>3, <1>4, <1>5, <1>6 DEF Inv

-----------------------------------------------------------------------------
LEMMA Step == Inv /\ [Next]_vars => Inv'
<1> SUFFICES ASSUME Inv, [Next]_vars PROVE Inv'  OBVIOUS
<1>1. ASSUME NEW w \in Wizards, SetupCheck(w) \/ SetupSave(w) \/ SetupVerify(w) PROVE Inv'
  BY <1>1, SetupStep
<1>2. ASSUME NEW w \in Wizards, SetupCreate(w) PROVE Inv'  BY <1>2, SetupCreateStep
<1>3. ASSUME NEW u \in Users, LoginRead(u) \/ LoginIssue(u) PROVE Inv'  BY <1>3, LoginStep
<1>4. ASSUME NEW t \in Tokens, SessionEnds(t) PROVE Inv'  BY <1>4, SessionEndsStep
<1>5. ASSUME NEW a \in Users, AskChange(a) \/ AskDelete(a) PROVE Inv'  BY <1>5, AskStep
<1>6. ASSUME NEW a \in Users, AddUser(a) PROVE Inv'  BY <1>6, AddUserStep
<1>7. ASSUME NEW a \in Users, PutEnabled(a) PROVE Inv'  BY <1>7, PutEnabledStep
<1>8. ASSUME NEW a \in Users, DropSessions(a) PROVE Inv'  BY <1>8, DropSessionsStep
<1>9. ASSUME NEW a \in Users, PutAdmin(a) PROVE Inv'  BY <1>9, PutAdminStep
<1>10. ASSUME NEW a \in Users, Delete(a) PROVE Inv'  BY <1>10, DeleteStep
<1>11. ASSUME NEW p \in Pages, Open(p) \/ Shed(p) \/ Leave(p) \/ Beat(p) PROVE Inv'
  BY <1>11, StreamStep
<1>12. CASE Restart  BY <1>12, RestartStep
<1>13. CASE UNCHANGED vars
  <2>1. UNCHANGED <<configured, wizard, acct, ask, blind, cut>>  BY <1>13 DEF vars, world
  <2>2. Peopled'  BY <2>1 DEF Inv, Peopled, acct
  <2> QED  BY <2>1, <2>2, Elsewhere DEF Inv, Types
<1> QED
  BY <1>1, <1>2, <1>3, <1>4, <1>5, <1>6, <1>7, <1>8, <1>9, <1>10, <1>11, <1>12, <1>13 DEF Next

LEMMA Invariant == Spec => []Inv
BY InitInv, Step, PTL DEF Spec

\* The first account stays an enabled administrator, however many administrators change each
\* other at the same time (handleUpdateUser, handleDeleteUser).
THEOREM OwnerStays == Spec => []AdminRemains
<1>1. Inv => AdminRemains  BY DEF Inv, OwnerSafe, AdminRemains, Admin
<1> QED  BY <1>1, Invariant, PTL

\* No session outlives the disabling of its user, but for the two exceptions the property names
\* (SetUserEnabled).
THEOREM DisabledAreOut == Spec => []LockedOut
<1>1. Inv => LockedOut  BY DEF Inv
<1> QED  BY <1>1, Invariant, PTL

\* However many submissions of the wizard overlap, what is set up has somebody to sign in
\* (handleSetupSubmit).
THEOREM SetupIsSound == Spec => []SetupLeavesAWay
<1>1. Inv => SetupLeavesAWay
  <2> SUFFICES ASSUME Inv, configured, ~cut, ~blind,
                      \A w \in Wizards : wizard[w] \notin {"saved", "verified"}
               PROVE  \E u \in Users : Admin(u)
    BY DEF SetupLeavesAWay
  <2>1. born > 0  BY DEF Inv, Peopled
  <2>2. 1 \in Users  BY AccountsAssumption DEF Users
  <2> QED  BY <2>1, <2>2 DEF Inv, OwnerSafe, Admin
<1> QED  BY <1>1, Invariant, PTL
=============================================================================
