----------------------------- MODULE NasSession -----------------------------
(***************************************************************************)
(* The one DSM session every part of the server shares (nas/nas.go): the   *)
(* cached client and session id, the copy of the id in the store, and the  *)
(* people who change the connection under it: first-run setup, the edit    *)
(* of the connection with its roll-back, and the re-authentication of an   *)
(* account that uses 2FA.                                                  *)
(*                                                                         *)
(* m.mu is held across a login, which is a call to the NAS; it is not held *)
(* while a request uses the session, nor while a handler writes the stored *)
(* connection.  Those are the seams: a step here is what happens between   *)
(* two calls out, two acquisitions of the lock or two writes to the store. *)
(***************************************************************************)
EXTENDS Naturals, FiniteSets

CONSTANTS Callers,      \* requests and loops that use the session through Do
          Admins,       \* administrators who edit the connection
          Wizards,      \* browsers that show the setup wizard
          Nas,          \* what a connection can point at: address, port and TLS choice
          TwoFactor,    \* those of Nas whose account asks for a code
          None,
          MaxEdits,     \* bound: what wizards and administrators submit
          MaxExpiries,  \* bound: sessions the NAS ends by itself
          MaxFaults     \* bound: calls that fail for another reason, and restarts of the server

Editors == Admins \cup Wizards
Procs   == Callers \cup Editors

\* The stored connection; good: the NAS accepts its account and password.
Conf == [nas : Nas, good : BOOLEAN, twofa : BOOLEAN]
Otp  == {"none", "right", "wrong"}
Sid  == [nas : Nas, k : Nat]

\* What an editor may have in hand.
Change == [kind : {"edit", "setup"}, cur : Conf \cup {None}, otp : Otp, connection : BOOLEAN,
           next : Conf]
Code   == [kind : {"reauth"}, otp : {"right", "wrong"}]
Test   == [kind : {"test"}]
Holding == [by : Procs, conf : Conf, otp : Otp]

\* The processes have names of their own, and None is nothing else.
ASSUME NasAssumption ==
  /\ TwoFactor \subseteq Nas
  /\ Callers \cap Editors = {}
  /\ None \notin Nas \cup Procs \cup Conf \cup Sid \cup Change \cup Code \cup Test \cup Holding

VARIABLES
  \* the store
  cfg,       \* the stored connection, or None before setup
  saved,     \* nas_sid_enc, in the same row
  admins,    \* administrators that exist
  \* the manager
  client,    \* what the cached client points at
  sid,       \* the cached session
  holder,    \* who holds m.mu across a login, for which connection, with which code
  \* the processes
  pc,        \* where a request is
  mine,      \* the client and session a caller was handed
  seen,      \* the session it saw expire on its first try, or None
  served,    \* callers whose last request was answered
  op,        \* what an editor is doing
  \* the NAS, and what may still go wrong
  live,      \* the sessions it accepts
  issued, edits, expiries, faults,
  torn       \* a restart has cut a setup or an edit in two, or one began beside another

store == <<cfg, saved, admins>>
manager == <<client, sid, holder>>
locals == <<mine, seen, served, op>>
world == <<live, issued, edits, expiries, faults, torn>>
vars == <<store, manager, pc, locals, world>>

-----------------------------------------------------------------------------
\* DSM's answers, as errors.go sorts them.

ClassifyBy(api, code, sessionCodes) ==
  CASE code \in sessionCodes               -> "session"
    [] api = "auth" /\ code = 400          -> "credentials"
    [] api = "auth" /\ code \in {403, 406} -> "otp_required"
    [] api = "auth" /\ code = 404          -> "otp_invalid"
    [] api = "auth" /\ code \in {105, 402} -> "permission"
    [] OTHER                               -> "nas"
ClassifyNotFoundOnly(api, code) == ClassifyBy(api, code, {119})
Classify(api, code) ==
  ClassifyBy(api, code, {106, 107, 119} \cup (IF api = "auth" THEN {} ELSE {105}))

\* What auth.cgi says of a login.
LoginAnswer(conf, otp) ==
  CASE ~conf.good                                  -> Classify("auth", 400)
    [] conf.nas \in TwoFactor /\ otp = "none"      -> Classify("auth", 403)
    [] conf.nas \in TwoFactor /\ otp = "wrong"     -> Classify("auth", 404)
    [] OTHER                                       -> "ok"

Accepted(n, s) == s \in live /\ s.nas = n

-----------------------------------------------------------------------------
\* How a process goes on once it has a session, or cannot have one.

Serving(p) == p \in Callers
Editing(p) == op[p] # None /\ op[p].kind \in {"edit", "setup"}

AfterSession(p) == CASE Serving(p)                         -> "ask"
                     [] Editing(p) /\ op[p].kind = "setup" -> "account"
                     [] OTHER                              -> "idle"
AfterRefusal(p) == CASE Serving(p)                         -> "current"
                     [] Editing(p) /\ op[p].kind = "edit"  -> "restore"
                     [] Editing(p) /\ op[p].kind = "setup" -> "delete"
                     [] OTHER                              -> "idle"

\* The process is at rest: a caller about to ask again, an editor with nothing in hand.
Rest(p)  == IF Serving(p) THEN "current" ELSE "idle"
Done(p)  == /\ pc'   = [pc EXCEPT ![p] = Rest(p)]
            /\ mine' = [mine EXCEPT ![p] = None]
            /\ seen' = [seen EXCEPT ![p] = None]
            /\ op'   = [op EXCEPT ![p] = None]

Got(p, n, s) ==
  /\ IF AfterSession(p) = Rest(p) THEN Done(p)
     ELSE /\ pc'   = [pc EXCEPT ![p] = AfterSession(p)]
          /\ mine' = IF Serving(p) THEN [mine EXCEPT ![p] = [nas |-> n, sid |-> s]] ELSE mine
          /\ UNCHANGED <<seen, op>>
  /\ served' = served \ {p}
Refused(p) ==
  /\ IF AfterRefusal(p) = Rest(p) THEN Done(p)
     ELSE pc' = [pc EXCEPT ![p] = AfterRefusal(p)] /\ UNCHANGED <<mine, seen, op>>
  /\ served' = served \ {p}

\* m.mu, for those who do not call out while they have it.
FreeForAll == TRUE
Free       == holder = None

\* clientLocked: a connection that changed gets a new client, which has no session.
Cached == IF client = cfg.nas THEN sid ELSE None

-----------------------------------------------------------------------------
\* current: the cached session, else the persisted one, else a login with m.mu held.

Current(p) ==
  /\ pc[p] = "current" /\ Free
  /\ IF cfg = None
     THEN Refused(p) /\ UNCHANGED manager
     ELSE LET have == IF Cached # None THEN Cached ELSE saved
          IN  /\ client' = cfg.nas
              /\ sid' = have
              /\ \/ /\ have # None
                    /\ Got(p, cfg.nas, have)
                    /\ UNCHANGED holder
                 \/ /\ have = None /\ cfg.twofa
                    /\ Refused(p)
                    /\ UNCHANGED holder
                 \/ /\ have = None /\ ~cfg.twofa
                    /\ holder' = [by |-> p, conf |-> cfg, otp |-> "none"]
                    /\ pc' = [pc EXCEPT ![p] = "login"]
                    /\ UNCHANGED locals
  /\ UNCHANGED <<store, world>>

\* Reauth: always a login, with the code the administrator typed.
Reauth(p) ==
  /\ pc[p] = "reauth" /\ Free
  /\ IF cfg = None
     THEN Refused(p) /\ UNCHANGED manager
     ELSE /\ client' = cfg.nas
          /\ sid' = Cached
          /\ holder' = [by |-> p, conf |-> cfg, otp |-> op[p].otp]
          /\ pc' = [pc EXCEPT ![p] = "login"]
          /\ UNCHANGED locals
  /\ UNCHANGED <<store, world>>

\* The NAS answers the login; a session is cached and persisted (nowhere, when the row is gone).
Login(p) ==
  /\ pc[p] = "login"
  /\ LET conf   == holder.conf
         answer == LoginAnswer(conf, holder.otp)
         s      == [nas |-> conf.nas, k |-> issued + 1]
     IN  \/ /\ answer = "ok"
            /\ live' = live \cup {s}
            /\ issued' = issued + 1
            /\ sid' = s
            /\ saved' = IF cfg = None THEN None ELSE s
            /\ Got(p, conf.nas, s)
            /\ UNCHANGED faults
         \/ /\ answer # "ok"
            /\ Refused(p)
            /\ UNCHANGED <<live, issued, sid, saved, faults>>
         \/ /\ faults > 0
            /\ faults' = faults - 1
            /\ Refused(p)
            /\ UNCHANGED <<live, issued, sid, saved>>
  /\ holder' = None
  /\ UNCHANGED <<cfg, admins, client, edits, expiries, torn>>

\* Invalidate forgets the session in memory and in the store.
ForgetInMemory == sid' = None /\ UNCHANGED saved
Forget         == sid' = None /\ saved' = None

Invalidate(p) ==
  /\ pc[p] = "invalidate" /\ Free
  /\ Forget
  /\ pc' = [pc EXCEPT ![p] = IF Editing(p) /\ op[p].next.twofa THEN "reauth" ELSE "current"]
  /\ UNCHANGED <<cfg, admins, client, holder, locals, world>>

-----------------------------------------------------------------------------
\* Do: run a call with the session; once, and once more when DSM says it has expired.

\* The NAS has decided on the request; the answer is on its way, with nothing locked.
Answered(c, kind) == IF kind = "session" /\ seen[c] = None THEN "expired" ELSE "failed"
Ask(c) ==
  /\ pc[c] = "ask"
  /\ \/ /\ \E code \in {105, 106, 119} :
            pc' = [pc EXCEPT ![c] = IF Accepted(mine[c].nas, mine[c].sid) THEN "done"
                                    ELSE Answered(c, Classify("task", code))]
        /\ UNCHANGED faults
     \/ /\ faults > 0
        /\ faults' = faults - 1
        /\ pc' = [pc EXCEPT ![c] = "failed"]
  /\ UNCHANGED <<store, manager, locals, live, issued, edits, expiries, torn>>

\* The answer arrives: the first expiry invalidates and tries again, anything else ends it.
Return(c) ==
  /\ \/ /\ pc[c] = "expired"
        /\ pc' = [pc EXCEPT ![c] = "invalidate"]
        /\ seen' = [seen EXCEPT ![c] = mine[c].sid]
        /\ UNCHANGED <<mine, served, op>>
     \/ /\ pc[c] \in {"done", "failed"}
        /\ served' = IF pc[c] = "done" THEN served \cup {c} ELSE served
        /\ Done(c)
  /\ UNCHANGED <<store, manager, world>>

-----------------------------------------------------------------------------
\* Changing the connection, or the session in use.

\* Two things under way at once of which one stores a connection, and the other does or logs in.
Clash(o, r) == /\ o # None /\ r # None
               /\ "test" \notin {o.kind, r.kind}
               /\ {o.kind, r.kind} # {"reauth"}

Start(p, o, at) == /\ op' = [op EXCEPT ![p] = o]
                   /\ pc' = [pc EXCEPT ![p] = at]
                   /\ edits < MaxEdits
                   /\ edits' = edits + 1
                   /\ torn' = (torn \/ \E q \in Editors \ {p} : Clash(o, op[q]))
                   /\ UNCHANGED <<store, manager, mine, seen, served, live, issued,
                                  expiries, faults>>

\* The wizard: only while nothing is stored.  A code given says that the account uses 2FA.
SetupCheck(w) ==
  /\ pc[w] = "idle" /\ cfg = None
  /\ \E n \in Nas, good \in BOOLEAN, otp \in Otp :
       Start(w, [kind |-> "setup", cur |-> None, otp |-> otp, connection |-> TRUE,
                 next |-> [nas |-> n, good |-> good, twofa |-> otp # "none"]], "save")

\* The edit starts from the stored connection; a password kept at the same NAS is as good
\* as it was, and 2FA follows the code, else a changed password, else what was stored.
EditRead(a) ==
  /\ pc[a] = "idle" /\ cfg # None /\ admins # {}
  /\ \E n \in Nas, good \in BOOLEAN, otp \in Otp, password, account \in BOOLEAN :
       /\ (n = cfg.nas /\ ~password /\ ~account) => good = cfg.good
       /\ Start(a, [kind |-> "edit", cur |-> cfg, otp |-> otp,
                    connection |-> n # cfg.nas \/ account \/ password \/ otp # "none",
                    next |-> [nas |-> n, good |-> good,
                              twofa |-> CASE otp # "none" -> TRUE
                                          [] password     -> FALSE
                                          [] OTHER        -> cfg.twofa]],
                "save")

\* The new connection is stored first; unless only the public URL changed, it is then verified.
Goes(p, at) == pc' = [pc EXCEPT ![p] = at] /\ UNCHANGED locals
Ends(p)     == Done(p) /\ UNCHANGED served

SaveForgetting(p) ==
  /\ pc[p] = "save"
  /\ cfg' = op[p].next
  /\ IF op[p].connection THEN Goes(p, IF op[p].next.twofa THEN "reauth" ELSE "current") ELSE Ends(p)
  /\ UNCHANGED <<saved, admins, manager, world>>
Save(p) ==
  /\ pc[p] = "save"
  /\ cfg' = op[p].next
  /\ IF op[p].connection THEN Goes(p, "invalidate") ELSE Ends(p)
  /\ UNCHANGED <<saved, admins, manager, world>>

\* A rejected edit puts back what it had read, and drops the session once more.
RestoreOnly(a) ==
  /\ pc[a] = "restore"
  /\ cfg' = op[a].cur
  /\ Ends(a)
  /\ UNCHANGED <<saved, admins, manager, world>>
Restore(a) ==
  /\ pc[a] = "restore"
  /\ cfg' = op[a].cur
  /\ Goes(a, "drop")
  /\ UNCHANGED <<saved, admins, manager, world>>
Drop(a) ==
  /\ pc[a] = "drop" /\ Free
  /\ Forget
  /\ Ends(a)
  /\ UNCHANGED <<cfg, admins, client, holder, world>>

\* A rejected setup deletes the row, the persisted session with it.
Delete(w) ==
  /\ pc[w] = "delete"
  /\ cfg' = None /\ saved' = None
  /\ Ends(w)
  /\ UNCHANGED <<admins, manager, world>>

\* The administrator's account: when it cannot be created, that undoes the setup.
Account(w) ==
  /\ pc[w] = "account"
  /\ \/ /\ admins' = admins \cup {w}
        /\ Ends(w)
        /\ UNCHANGED faults
     \/ /\ faults > 0
        /\ faults' = faults - 1
        /\ Goes(w, "delete")
        /\ UNCHANGED admins
  /\ UNCHANGED <<cfg, saved, manager, live, issued, edits, expiries, torn>>

\* The administrator types a fresh code, or tests the connection as it is stored.
AskReauth(a) == /\ pc[a] = "idle" /\ admins # {}
                /\ \E otp \in {"right", "wrong"} :
                     Start(a, [kind |-> "reauth", otp |-> otp], "reauth")
TestStored(a) == /\ pc[a] = "idle" /\ admins # {} /\ cfg # None
                 /\ Start(a, [kind |-> "test"], "current")

-----------------------------------------------------------------------------
\* The NAS ends a session; the server restarts, with the row of the store all that is left.

Expire ==
  /\ expiries > 0
  /\ expiries' = expiries - 1
  /\ \E s \in live : live' = live \ {s}
  /\ UNCHANGED <<store, manager, pc, locals, issued, edits, faults, torn>>

Unsettled(p) == pc[p] # "idle" /\ Editing(p)
Restart ==
  /\ faults > 0
  /\ faults' = faults - 1
  /\ torn' = (torn \/ \E p \in Editors : Unsettled(p) /\ pc[p] # "save")
  /\ client' = None /\ sid' = None /\ holder' = None
  /\ pc' = [p \in Procs |-> Rest(p)]
  /\ mine' = [p \in Procs |-> None] /\ seen' = [p \in Procs |-> None]
  /\ op' = [p \in Procs |-> None]
  /\ UNCHANGED <<store, served, live, issued, edits, expiries>>

Init ==
  /\ cfg = None /\ saved = None /\ admins = {}
  /\ client = None /\ sid = None /\ holder = None
  /\ pc = [p \in Procs |-> Rest(p)]
  /\ mine = [p \in Procs |-> None] /\ seen = [p \in Procs |-> None]
  /\ op = [p \in Procs |-> None] /\ served = {}
  /\ live = {} /\ issued = 0 /\ edits = 0
  /\ expiries = MaxExpiries /\ faults = MaxFaults
  /\ torn = FALSE

Work(p) == Ask(p) \/ Return(p) \/ Login(p) \/ Save(p) \/ Restore(p) \/ Delete(p) \/ Account(p)
Lock(p) == Current(p) \/ Reauth(p) \/ Invalidate(p) \/ Drop(p)

Next == \/ \E p \in Procs : Work(p) \/ Lock(p)
        \/ \E w \in Wizards : SetupCheck(w)
        \/ \E a \in Admins : EditRead(a) \/ AskReauth(a) \/ TestStored(a)
        \/ Expire
        \/ Restart

Spec == Init /\ [][Next]_vars

(***************************************************************************)
(* Callers keep coming (the watcher alone asks every thirty seconds), a    *)
(* call returns (the client gives up after 60 s), and a goroutine that can *)
(* take a free lock for good does.                                         *)
(***************************************************************************)
FairSpec == /\ Spec
            /\ \A p \in Procs : WF_vars(Work(p) \/ Lock(p))

-----------------------------------------------------------------------------
SidType == [nas : Nas, k : 1..issued] \cup {None}

(***************************************************************************)
(* Every variable stays in its type, the session a caller was handed is a  *)
(* real one, and whoever logs in is the one who holds the lock.            *)
(***************************************************************************)
TypeOK ==
  /\ cfg \in Conf \cup {None} /\ saved \in SidType /\ sid \in SidType
  /\ client \in Nas \cup {None} /\ admins \subseteq Wizards
  /\ \A p \in Procs :
       /\ pc[p] \in {"idle", "current", "reauth", "login", "ask", "done", "expired", "failed", "invalidate",
                     "save", "restore", "drop", "delete", "account"}
       /\ pc[p] = "login" <=> (holder # None /\ holder.by = p)
       /\ pc[p] \in {"ask", "expired", "failed", "done"} => mine[p].sid \in SidType \ {None}
  /\ edits \in 0..MaxEdits

Settled == ~torn /\ \A p \in Editors : ~Unsettled(p)

(***************************************************************************)
(* With no setup or edit under way, the session in memory and the one in   *)
(* the store belong to the connection that is stored ("a sid is only valid *)
(* on the client that created it"): a caller that logged in while an edit  *)
(* was being tried or taken back leaves nothing behind.                    *)
(***************************************************************************)
SessionMatchesConnection ==
  (Settled /\ cfg # None) =>
     /\ saved # None => saved.nas = cfg.nas
     /\ (sid # None /\ client = cfg.nas) => sid.nas = cfg.nas

(***************************************************************************)
(* "A bad edit never breaks the running instance": with no setup or edit   *)
(* under way the stored connection is one the NAS accepts, though the      *)
(* proof of it may have been a session some other caller opened.           *)
(***************************************************************************)
StoredConnectionWorks ==
  (Settled /\ cfg # None) => LoginAnswer(cfg, IF cfg.twofa THEN "right" ELSE "none") = "ok"

(***************************************************************************)
(* The second try of Do never uses the session that has just expired, and  *)
(* neither the store nor a restart brings it back.                         *)
(***************************************************************************)
RetryGetsAnother ==
  \A c \in Callers : (pc[c] = "ask" /\ seen[c] # None) => mine[c].sid # seen[c]

(***************************************************************************)
(* Once the connection stays one that needs no code, every caller is       *)
(* served again and again: an expired session, in memory or resumed from   *)
(* the store, is always replaced.                                          *)
(***************************************************************************)
KeepsWorking ==
  <>[](cfg # None /\ ~cfg.twofa /\ LoginAnswer(cfg, "none") = "ok")
     => \A c \in Callers : []<>(c \in served)

(***************************************************************************)
(* nas.go says of Invalidate "Call it when the NAS reports the session     *)
(* expired".  What a caller drops should be the session it saw expire,     *)
(* never a newer one the NAS accepts.                                      *)
(***************************************************************************)
FreshSessionKept ==
  [][\A c \in Callers : (pc[c] = "invalidate" /\ pc'[c] = "current") =>
       (sid # None => ~Accepted(client, sid))]_vars
=============================================================================
