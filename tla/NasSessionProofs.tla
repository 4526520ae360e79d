-------------------------- MODULE NasSessionProofs --------------------------
(***************************************************************************)
(* SessionMatchesConnection and StoredConnectionWorks, for any number of   *)
(* callers, administrators, wizards, connections, edits and faults.        *)
(*                                                                         *)
(* Both speak of moments at which no setup or edit is under way.  What     *)
(* makes them true is said of all the others: an edit knows what is stored *)
(* at each of its steps (Course); between the moment it stores another     *)
(* connection and the moment it forgets the session, nothing is known of   *)
(* the session, and at any other moment the session, the persisted one and *)
(* the login that holds the lock belong to what is stored, and are a proof *)
(* of it (Bracket).                                                        *)
(***************************************************************************)
EXTENDS NasSession, TLAPS

Places == {"idle", "current", "reauth", "login", "ask", "done", "expired", "failed", "invalidate",
           "save", "restore", "drop", "delete", "account"}
InHand == Change \cup Code \cup Test \cup {None}

Types ==
  /\ cfg \in Conf \cup {None} /\ saved \in Sid \cup {None} /\ sid \in Sid \cup {None}
  /\ client \in Nas \cup {None}
  /\ holder \in Holding \cup {None}
  /\ pc \in [Procs -> Places]
  /\ op \in [Procs -> InHand]
  /\ issued \in Nat /\ torn \in BOOLEAN

\* Where callers and editors may be, by what they have in hand.
Asking == {"current", "login", "ask", "done", "expired", "failed", "invalidate"}
Edits(o) == o # None /\ o.kind \in {"edit", "setup"}
Suits(x, o) ==
  /\ x \notin {"ask", "done", "expired", "failed"}
  /\ x = "idle" <=> o = None
  /\ x \in {"restore", "drop"}    => o.kind = "edit"
  /\ x \in {"delete", "account"}  => o.kind = "setup"
  /\ x \in {"save", "invalidate"} => Edits(o)
  /\ x = "reauth"  => o.kind = "reauth" \/ (Edits(o) /\ o.next.twofa)
  /\ x = "current" => o.kind = "test" \/ (Edits(o) /\ ~o.next.twofa)
Flow ==
  /\ \A p \in Callers : op[p] = None /\ pc[p] \in Asking
  /\ \A p \in Editors : Suits(pc[p], op[p])

\* Who logs in holds the lock.
Locked ==
  /\ holder # None => pc[holder.by] = "login"
  /\ \A p \in Procs : pc[p] = "login" => holder # None /\ holder.by = p

\* The connection and its account are right, given the code it asks for.
Proven(c) == LoginAnswer(c, IF c.twofa THEN "right" ELSE "none") = "ok"

Alone == \A p, q \in Editors : p # q => ~Clash(op[p], op[q])

\* What is stored at each step of a setup or an edit.
Trying == {"invalidate", "current", "reauth", "login", "restore", "delete"}
OnCourse(x, o, c) ==
  /\ IF o.kind = "edit" THEN o.cur # None /\ Proven(o.cur) ELSE o.cur = None
  /\ x \in {"save", "drop"} => c = o.cur
  /\ x = "save" /\ ~o.connection => o.kind = "edit" /\ o.next = o.cur
  /\ x \in Trying \cup {"account"} => c = o.next
  /\ x = "account" => Proven(c)
Course == \A p \in Editors : Edits(op[p]) => OnCourse(pc[p], op[p], cfg)

\* A connection has been stored whose predecessor's session is not forgotten yet.
Forgetting == \E p \in Editors : pc[p] \in {"drop", "invalidate"}

SavedFits  == saved # None => saved.nas = cfg.nas /\ Proven(cfg)
CachedFits == sid # None /\ client = cfg.nas => sid.nas = cfg.nas /\ Proven(cfg)
HeldFits   == holder # None => /\ holder.conf = cfg
                               /\ cfg.twofa \/ holder.otp = "none" \/ Proven(cfg)
Bracket == cfg # None /\ ~Forgetting => SavedFits /\ CachedFits /\ HeldFits

\* What is stored is right, or a setup or an edit is about to find out.
Works == cfg = None \/ Proven(cfg) \/ \E p \in Editors : Edits(op[p]) /\ pc[p] \in Trying

Sound == Alone /\ Course /\ Bracket /\ Works
Inv == Types /\ Flow /\ Locked /\ (~torn => Sound)

-----------------------------------------------------------------------------
\* What auth.cgi accepts.
LEMMA LoginOk ==
  ASSUME NEW c \in Conf, NEW otp
  PROVE  LoginAnswer(c, otp) = "ok" <=>
           c.good /\ (c.nas \in TwoFactor => otp \notin {"none", "wrong"})
<1>1. /\ Classify("auth", 400) # "ok"
      /\ Classify("auth", 403) # "ok"
      /\ Classify("auth", 404) # "ok"
  BY DEF Classify, ClassifyBy
<1> QED  BY <1>1 DEF LoginAnswer, Conf

\* A login that was accepted proves the connection, unless it gave a code that the stored
\* connection does not ask for.
LEMMA LoginProves ==
  ASSUME NEW c \in Conf, NEW otp \in Otp, LoginAnswer(c, otp) = "ok",
         c.twofa \/ otp = "none" \/ Proven(c)
  PROVE  Proven(c)
BY LoginOk DEF Proven, Otp

LEMMA InitInv == Init => Inv
<1> SUFFICES ASSUME Init PROVE Inv  OBVIOUS
<1> USE DEF Init
<1>1. Procs = Callers \cup Editors  BY DEF Procs
<1>2. \A p \in Callers : pc[p] = "current"  BY <1>1 DEF Rest, Serving
<1>3. \A p \in Editors : pc[p] = "idle"  BY <1>1, NasAssumption DEF Rest, Serving
<1>4. \A p \in Procs : op[p] = None  OBVIOUS
<1>5. Types
  <2>1. pc \in [Procs -> Places]  BY DEF Rest, Places
  <2>2. op \in [Procs -> InHand]  BY DEF InHand
  <2> QED  BY <2>1, <2>2 DEF Types
<1>6. Flow  BY <1>1, <1>2, <1>3, <1>4 DEF Flow, Suits, Asking
<1>7. Locked  BY <1>1, <1>2, <1>3 DEF Locked
<1>8. Alone /\ Course  BY <1>1, <1>4 DEF Alone, Clash, Course, Edits
<1>9. Bracket /\ Works  BY DEF Bracket, Works
<1> QED  BY <1>5, <1>6, <1>7, <1>8, <1>9 DEF Inv, Sound

-----------------------------------------------------------------------------
\* One process goes on, and puts down what it had in hand when it is at rest.
Leaves(p, x) == /\ pc' = [pc EXCEPT ![p] = x]
                /\ op' = IF x = Rest(p) THEN [op EXCEPT ![p] = None] ELSE op

LEMMA Going ==
  ASSUME NEW p \in Procs, NEW n, NEW s
  PROVE  /\ Got(p, n, s) => Leaves(p, AfterSession(p))
         /\ Refused(p) => Leaves(p, AfterRefusal(p))
         /\ Ends(p) => Leaves(p, Rest(p))
BY DEF Got, Refused, Ends, Done, Leaves

\* Where a process may go next.
LEMMA LeavesFlow ==
  ASSUME Types, Flow, NEW p \in Procs, NEW x \in Places, Leaves(p, x),
         p \in Callers => x \in Asking,
         p \in Editors => x = "idle" \/ Suits(x, op[p])
  PROVE  /\ Flow'
         /\ pc' \in [Procs -> Places] /\ op' \in [Procs -> InHand]
         /\ \A q \in Procs \ {p} : pc'[q] = pc[q] /\ op'[q] = op[q]
         /\ pc'[p] = x /\ op'[p] \in {op[p], None}
         /\ p \in Editors => op'[p] = IF x = "idle" THEN None ELSE op[p]
<1>1. pc \in [Procs -> Places] /\ op \in [Procs -> InHand]  BY DEF Types
<1>2. /\ pc' \in [Procs -> Places] /\ op' \in [Procs -> InHand]
      /\ \A q \in Procs \ {p} : pc'[q] = pc[q] /\ op'[q] = op[q]
      /\ pc'[p] = x /\ op'[p] = IF x = Rest(p) THEN None ELSE op[p]
  BY <1>1 DEF Leaves, InHand
<1>3. Procs = Callers \cup Editors /\ Callers \cap Editors = {}
  BY NasAssumption DEF Procs
<1>4. p \in Editors => Rest(p) = "idle"  BY <1>3 DEF Rest, Serving
<1>5. \A q \in Callers : op'[q] = None /\ pc'[q] \in Asking
  BY <1>2, <1>3 DEF Flow
<1>6. \A q \in Editors : Suits(pc'[q], op'[q])
  <2> SUFFICES ASSUME NEW q \in Editors PROVE Suits(pc'[q], op'[q])  OBVIOUS
  <2>1. CASE q # p  BY <1>2, <1>3, <2>1 DEF Flow
  <2>2. CASE q = p /\ x = "idle"  BY <1>2, <1>4, <2>2 DEF Suits
  <2>3. CASE q = p /\ x # "idle"  BY <1>2, <1>4, <2>3
  <2> QED  BY <2>1, <2>2, <2>3
<1> QED  BY <1>2, <1>4, <1>5, <1>6 DEF Flow

\* With nothing stored anew, an edit stays on course, and none begins.
LEMMA LeavesCourse ==
  ASSUME Alone, Course, UNCHANGED cfg, NEW p \in Procs, NEW x,
         \A q \in Procs \ {p} : pc'[q] = pc[q] /\ op'[q] = op[q],
         pc'[p] = x, op'[p] \in {op[p], None},
         p \in Editors /\ op'[p] # None /\ Edits(op[p]) => OnCourse(x, op[p], cfg)
  PROVE  Alone' /\ Course'
<1>1. Editors \subseteq Procs  BY DEF Procs
<1>2. Alone'  BY <1>1 DEF Alone, Clash
<1>3. Course'
  <2> SUFFICES ASSUME NEW q \in Editors, Edits(op'[q]) PROVE OnCourse(pc'[q], op'[q], cfg')
    BY DEF Course
  <2>1. CASE q # p  BY <1>1, <2>1 DEF Course
  <2>2. CASE q = p  BY <2>2 DEF Edits
  <2> QED  BY <2>1, <2>2
<1> QED  BY <1>2, <1>3

LEMMA LeavesLocked ==
  ASSUME Types, Locked, UNCHANGED holder, NEW p \in Procs, pc[p] # "login", pc'[p] # "login",
         \A q \in Procs \ {p} : pc'[q] = pc[q]
  PROVE  Locked'
<1>1. holder # None => holder.by \in Procs  BY DEF Types, Holding
<1> QED  BY <1>1 DEF Locked

\* While one edits, nobody else does, and no session is being forgotten.
LEMMA Sole ==
  ASSUME Flow, Alone, NEW p \in Editors, Edits(op[p]), NEW q \in Editors, q # p
  PROVE  /\ ~Edits(op[q])
         /\ pc[q] \notin {"drop", "invalidate", "save", "restore", "delete", "account"}
         /\ op[q] # None => op[q].kind # "reauth"
<1>1. ~Edits(op[q]) /\ (op[q] # None => op[q].kind # "reauth")
  BY DEF Alone, Clash, Edits
<1>2. Suits(pc[q], op[q])  BY DEF Flow
<1> QED  BY <1>1, <1>2 DEF Suits, Edits

-----------------------------------------------------------------------------
\* With nothing stored anew and no edit stepping in or out of its forgetting.
LEMMA SameForgetting ==
  ASSUME NEW p \in Procs, \A q \in Procs \ {p} : pc'[q] = pc[q],
         p \in Editors => /\ pc[p] \notin {"drop", "invalidate"}
                          /\ pc'[p] \notin {"drop", "invalidate"}
  PROVE  Forgetting' <=> Forgetting
BY DEF Forgetting, Procs

\* The session is handed out, or cannot be had, or a login takes the lock.
LEMMA CurrentStep ==
  ASSUME Inv, NEW p \in Procs, Current(p)
  PROVE  Inv'
<1>0. Types /\ Flow /\ Locked  BY DEF Inv
<1>1. pc[p] = "current" /\ holder = None /\ UNCHANGED <<cfg, saved, torn, issued>>
  BY DEF Current, Free, store, world
<1>2. Procs = Callers \cup Editors /\ Callers \cap Editors = {}
  BY NasAssumption DEF Procs
<1>3. PICK x \in Places :
        /\ Leaves(p, x)
        /\ \/ /\ cfg = None /\ x = AfterRefusal(p) /\ UNCHANGED <<client, sid, holder>>
           \/ /\ cfg # None /\ client' = cfg.nas /\ UNCHANGED holder
              /\ sid' = (IF Cached # None THEN Cached ELSE saved) /\ sid' # None
              /\ x = AfterSession(p)
           \/ /\ cfg # None /\ client' = cfg.nas /\ sid' = None /\ UNCHANGED holder
              /\ x = AfterRefusal(p)
           \/ /\ cfg # None /\ client' = cfg.nas /\ sid' = None /\ ~cfg.twofa
              /\ holder' = [by |-> p, conf |-> cfg, otp |-> "none"]
              /\ x = "login"
  <2>2. AfterSession(p) \in Places /\ AfterRefusal(p) \in Places /\ "login" \in Places
    BY DEF AfterSession, AfterRefusal, Places
  <2>3. "login" # Rest(p)  BY DEF Rest
  <2>4. pc' = [pc EXCEPT ![p] = "login"] /\ UNCHANGED locals => Leaves(p, "login")
    BY <2>3 DEF Leaves, locals
  <2>5. \A n, s : Got(p, n, s) => Leaves(p, AfterSession(p))  BY Going
  <2>6. Refused(p) => Leaves(p, AfterRefusal(p))  BY Going
  <2> QED  BY <1>1, <2>2, <2>4, <2>5, <2>6 DEF Current, manager
<1>4. /\ p \in Callers => x \in {"ask", "current", "login"}
      /\ p \in Editors => /\ x \in {"idle", "login", "restore", "delete", "account"}
                          /\ x = "idle" \/ Suits(x, op[p])
  BY <1>0, <1>1, <1>2, <1>3
     DEF AfterSession, AfterRefusal, Serving, Editing, Edits, Flow, Suits
<1>5. /\ Flow'
      /\ pc' \in [Procs -> Places] /\ op' \in [Procs -> InHand]
      /\ \A q \in Procs \ {p} : pc'[q] = pc[q] /\ op'[q] = op[q]
      /\ pc'[p] = x /\ op'[p] \in {op[p], None}
      /\ p \in Editors => op'[p] = IF x = "idle" THEN None ELSE op[p]
  <2>1. p \in Callers => x \in Asking  BY <1>4 DEF Asking
  <2> QED  BY <1>0, <1>3, <1>4, <2>1, LeavesFlow
<1>6. Types'
  <2>1. client' \in Nas \cup {None} /\ sid' \in Sid \cup {None}
    BY <1>0, <1>3 DEF Types, Conf, Cached
  <2>2. holder' \in Holding \cup {None}
    BY <1>0, <1>3 DEF Types, Holding, Otp
  <2> QED  BY <1>0, <1>1, <1>5, <2>1, <2>2 DEF Types
<1>7. Locked'
  <2>1. CASE x = "login"
    <3>1. x # AfterSession(p) /\ x # AfterRefusal(p)
      BY <2>1 DEF AfterSession, AfterRefusal
    <3>2. holder' = [by |-> p, conf |-> cfg, otp |-> "none"] /\ holder' \in Holding
      BY <1>0, <1>3, <3>1 DEF Types, Holding, Otp
    <3>3. holder' # None  BY <3>2, NasAssumption
    <3>4. \A q \in Procs : pc'[q] = "login" => q = p
      BY <1>0, <1>1, <1>5 DEF Locked
    <3> QED  BY <1>5, <2>1, <3>2, <3>3, <3>4 DEF Locked
  <2>2. CASE x # "login"
    BY <1>0, <1>1, <1>3, <1>5, <2>2, LeavesLocked
  <2> QED  BY <2>1, <2>2
<1>8. ASSUME ~torn' PROVE Sound'
  <2>1. Alone /\ Course /\ Bracket /\ Works  BY <1>1, <1>8 DEF Inv, Sound
  <2>2. Forgetting' <=> Forgetting
    BY <1>1, <1>4, <1>5, SameForgetting
  <2>3. p \in Editors /\ Edits(op[p]) =>
          ~Forgetting /\ cfg = op[p].next /\ OnCourse("current", op[p], cfg)
    BY <1>0, <1>1, <2>1, Sole DEF Forgetting, Course, OnCourse, Trying
  <2>4. p \in Editors /\ Edits(op[p]) /\ sid' # None /\ cfg # None => Proven(cfg)
    BY <1>3, <2>1, <2>3 DEF Bracket, SavedFits, CachedFits, Cached
  <2>5. p \in Editors /\ op'[p] # None /\ Edits(op[p]) => OnCourse(x, op[p], cfg)
    <3> SUFFICES ASSUME p \in Editors, op'[p] # None, Edits(op[p])
                 PROVE  OnCourse(x, op[p], cfg)
      OBVIOUS
    <3>1. x \in {"login", "restore", "delete", "account"}  BY <1>4, <1>5
    <3>2. x = "account" => cfg # None /\ sid' # None
      BY <1>2, <1>3 DEF AfterRefusal, Editing, Serving
    <3> QED  BY <2>3, <2>4, <3>1, <3>2 DEF OnCourse, Trying
  <2>6. Alone' /\ Course'  BY <1>1, <1>5, <2>1, <2>5, LeavesCourse
  <2>7. Bracket'
    <3> SUFFICES ASSUME cfg # None, ~Forgetting PROVE SavedFits' /\ CachedFits' /\ HeldFits'
      BY <1>1, <2>2 DEF Bracket
    <3>1. SavedFits /\ CachedFits  BY <2>1 DEF Bracket
    <3>2. SavedFits' /\ CachedFits'
      BY <1>1, <1>3, <3>1 DEF SavedFits, CachedFits, Cached, Proven
    <3>3. HeldFits'  BY <1>1, <1>3 DEF HeldFits
    <3> QED  BY <3>2, <3>3
  <2>8. Works'
    <3>1. CASE p \in Editors /\ Edits(op[p])
      <4>1. x = "idle" => cfg = None \/ sid' # None
        BY <1>2, <1>3, <3>1 DEF AfterRefusal, Editing, Edits, Serving
      <4> QED  BY <1>1, <1>4, <1>5, <2>4, <2>6, <3>1, <4>1 DEF Works, Trying, Course, OnCourse, Proven
    <3>2. CASE ~(p \in Editors /\ Edits(op[p]))
      BY <1>1, <1>2, <1>5, <2>1, <3>2 DEF Works, Proven
    <3> QED  BY <3>1, <3>2
  <2> QED  BY <2>6, <2>7, <2>8 DEF Sound
<1> QED  BY <1>5, <1>6, <1>7, <1>8 DEF Inv

\* A login with the code typed: for an edit that tries its connection, or for the stored one.
LEMMA ReauthStep ==
  ASSUME Inv, NEW p \in Procs, Reauth(p)
  PROVE  Inv'
<1>0. Types /\ Flow /\ Locked  BY DEF Inv
<1>1. pc[p] = "reauth" /\ holder = None /\ UNCHANGED <<cfg, saved, torn, issued>>
  BY DEF Reauth, Free, store, world
<1>2. Procs = Callers \cup Editors /\ Callers \cap Editors = {}
  BY NasAssumption DEF Procs
<1>3. p \in Editors /\ p \notin Callers /\ op[p] # None
  BY <1>0, <1>1, <1>2 DEF Flow, Asking, Suits
<1>4. op[p].kind = "reauth" \/ (Edits(op[p]) /\ op[p].next.twofa)
  BY <1>0, <1>1, <1>3 DEF Flow, Suits
<1>5. op[p].otp \in Otp
  <2>1. op[p] \in Change \cup Code \cup Test  BY <1>0, <1>2, <1>3 DEF Types, InHand
  <2>2. op[p] \in Test => op[p].kind = "test"  BY DEF Test
  <2> QED  BY <1>4, <2>1, <2>2 DEF Edits, Change, Code, Otp
<1>6. PICK x \in Places :
        /\ Leaves(p, x)
        /\ \/ cfg = None /\ x = AfterRefusal(p) /\ UNCHANGED <<client, sid, holder>>
           \/ /\ cfg # None /\ client' = cfg.nas /\ sid' = Cached
              /\ holder' = [by |-> p, conf |-> cfg, otp |-> op[p].otp]
              /\ x = "login"
  <2>1. AfterRefusal(p) \in Places /\ "login" \in Places
    BY DEF AfterRefusal, Places
  <2>2. pc' = [pc EXCEPT ![p] = "login"] /\ UNCHANGED locals => Leaves(p, "login")
    BY DEF Leaves, locals, Rest
  <2>3. Refused(p) => Leaves(p, AfterRefusal(p))  BY Going
  <2> QED  BY <2>1, <2>2, <2>3 DEF Reauth, manager
<1>7. x \in {"idle", "login", "restore", "delete"} /\ (x = "idle" \/ Suits(x, op[p]))
  BY <1>2, <1>3, <1>4, <1>6 DEF AfterRefusal, Serving, Editing, Edits, Suits
<1>8. /\ Flow'
      /\ pc' \in [Procs -> Places] /\ op' \in [Procs -> InHand]
      /\ \A q \in Procs \ {p} : pc'[q] = pc[q] /\ op'[q] = op[q]
      /\ pc'[p] = x /\ op'[p] \in {op[p], None}
      /\ p \in Editors => op'[p] = IF x = "idle" THEN None ELSE op[p]
  BY <1>0, <1>3, <1>6, <1>7, LeavesFlow
<1>9. Types'
  <2>1. client' \in Nas \cup {None} /\ sid' \in Sid \cup {None}
    BY <1>0, <1>6 DEF Types, Conf, Cached
  <2>2. holder' \in Holding \cup {None}
    BY <1>0, <1>5, <1>6 DEF Types, Holding
  <2> QED  BY <1>0, <1>1, <1>8, <2>1, <2>2 DEF Types
<1>10. Locked'
  <2>1. CASE x = "login"
    <3>1. x # AfterRefusal(p)  BY <2>1 DEF AfterRefusal
    <3>2. holder' = [by |-> p, conf |-> cfg, otp |-> op[p].otp] /\ holder' \in Holding
      BY <1>0, <1>5, <1>6, <3>1 DEF Types, Holding
    <3>3. holder' # None  BY <3>2, NasAssumption
    <3>4. \A q \in Procs : pc'[q] = "login" => q = p
      BY <1>0, <1>1, <1>8 DEF Locked
    <3> QED  BY <1>8, <2>1, <3>2, <3>3, <3>4 DEF Locked
  <2>2. CASE x # "login"
    BY <1>0, <1>1, <1>6, <1>8, <2>2, LeavesLocked
  <2> QED  BY <2>1, <2>2
<1>11. ASSUME ~torn' PROVE Sound'
  <2>1. Alone /\ Course /\ Bracket /\ Works  BY <1>1, <1>11 DEF Inv, Sound
  <2>2. Forgetting' <=> Forgetting
    BY <1>1, <1>7, <1>8, SameForgetting
  <2>3. Edits(op[p]) => cfg = op[p].next /\ OnCourse("reauth", op[p], cfg)
    BY <1>1, <1>3, <2>1 DEF Course, OnCourse, Trying
  <2>4. ~Edits(op[p]) => cfg = None \/ Proven(cfg)
    BY <1>1, <1>3, <1>4, <2>1 DEF Works, Alone, Clash, Edits
  <2>5. Edits(op[p]) /\ op'[p] # None => OnCourse(x, op[p], cfg)
    BY <1>7, <1>8, <1>3, <2>3 DEF OnCourse, Trying
  <2>6. Alone' /\ Course'  BY <1>1, <1>8, <2>1, <2>5, LeavesCourse
  <2>7. Bracket'
    <3> SUFFICES ASSUME cfg # None, ~Forgetting PROVE SavedFits' /\ CachedFits' /\ HeldFits'
      BY <1>1, <2>2 DEF Bracket
    <3>1. SavedFits /\ CachedFits  BY <2>1 DEF Bracket
    <3>2. SavedFits' /\ CachedFits'
      BY <1>1, <1>6, <3>1 DEF SavedFits, CachedFits, Cached, Proven
    <3>3. HeldFits'
      <4>1. cfg.twofa \/ Proven(cfg)  BY <1>4, <2>3, <2>4 DEF Edits
      <4> QED  BY <1>1, <1>6, <4>1 DEF HeldFits, Proven
    <3> QED  BY <3>2, <3>3
  <2>8. Works'
    <3>1. CASE Edits(op[p])
      <4>1. x # "idle"
        BY <1>2, <1>3, <1>6, <3>1 DEF AfterRefusal, Editing, Edits, Serving
      <4> QED  BY <1>3, <1>7, <1>8, <3>1, <4>1 DEF Works, Trying
    <3>2. CASE ~Edits(op[p])
      BY <1>1, <2>4, <3>2 DEF Works, Proven
    <3> QED  BY <3>1, <3>2
  <2> QED  BY <2>6, <2>7, <2>8 DEF Sound
<1> QED  BY <1>8, <1>9, <1>10, <1>11 DEF Inv

\* The NAS answers: a session that belongs to what is stored, or none.
LEMMA LoginStep ==
  ASSUME Inv, NEW p \in Procs, Login(p)
  PROVE  Inv'
<1>0. Types /\ Flow /\ Locked  BY DEF Inv
<1>1. /\ pc[p] = "login" /\ holder # None /\ holder \in Holding /\ holder.by = p
      /\ holder' = None /\ UNCHANGED <<cfg, client, torn>>
  BY <1>0 DEF Login, Locked, Types
<1>2. Procs = Callers \cup Editors /\ Callers \cap Editors = {}
  BY NasAssumption DEF Procs
<1>3. PICK x \in Places :
        /\ Leaves(p, x)
        /\ \/ /\ LoginAnswer(holder.conf, holder.otp) = "ok"
              /\ issued' = issued + 1
              /\ sid' = [nas |-> holder.conf.nas, k |-> issued + 1]
              /\ saved' = IF cfg = None THEN None ELSE sid'
              /\ x = AfterSession(p)
           \/ UNCHANGED <<issued, sid, saved>> /\ x = AfterRefusal(p)
  <2>1. AfterSession(p) \in Places /\ AfterRefusal(p) \in Places
    BY DEF AfterSession, AfterRefusal, Places
  <2>2. \A n, s : Got(p, n, s) => Leaves(p, AfterSession(p))  BY Going
  <2>3. Refused(p) => Leaves(p, AfterRefusal(p))  BY Going
  <2> QED  BY <2>1, <2>2, <2>3 DEF Login
<1>4. /\ p \in Callers => x \in {"ask", "current"}
      /\ p \in Editors => /\ x \in {"idle", "restore", "delete", "account"}
                          /\ x = "idle" \/ Suits(x, op[p])
  BY <1>0, <1>1, <1>2, <1>3
     DEF AfterSession, AfterRefusal, Serving, Editing, Edits, Flow, Suits
<1>5. /\ Flow'
      /\ pc' \in [Procs -> Places] /\ op' \in [Procs -> InHand]
      /\ \A q \in Procs \ {p} : pc'[q] = pc[q] /\ op'[q] = op[q]
      /\ pc'[p] = x /\ op'[p] \in {op[p], None}
      /\ p \in Editors => op'[p] = IF x = "idle" THEN None ELSE op[p]
  <2>1. p \in Callers => x \in Asking  BY <1>4 DEF Asking
  <2> QED  BY <1>0, <1>3, <1>4, <2>1, LeavesFlow
<1>6. Types'
  <2>1. issued' \in Nat /\ sid' \in Sid \cup {None} /\ saved' \in Sid \cup {None}
    BY <1>0, <1>1, <1>3 DEF Types, Holding, Conf, Sid
  <2> QED  BY <1>0, <1>1, <1>5, <2>1 DEF Types
<1>7. Locked'
  <2>1. \A q \in Procs : pc'[q] # "login"
    BY <1>0, <1>1, <1>2, <1>4, <1>5 DEF Locked
  <2> QED  BY <1>1, <2>1 DEF Locked
<1>8. ASSUME ~torn' PROVE Sound'
  <2>1. Alone /\ Course /\ Bracket /\ Works  BY <1>1, <1>8 DEF Inv, Sound
  <2>2. Forgetting' <=> Forgetting
    BY <1>1, <1>4, <1>5, SameForgetting
  <2>3. p \in Editors /\ Edits(op[p]) =>
          ~Forgetting /\ cfg = op[p].next /\ OnCourse("login", op[p], cfg)
    BY <1>0, <1>1, <2>1, Sole DEF Forgetting, Course, OnCourse, Trying
  <2>4. cfg # None /\ ~Forgetting /\ LoginAnswer(holder.conf, holder.otp) = "ok"
        => holder.conf = cfg /\ Proven(cfg)
    <3> SUFFICES ASSUME cfg # None, ~Forgetting, LoginAnswer(holder.conf, holder.otp) = "ok"
                 PROVE  holder.conf = cfg /\ Proven(cfg)
      OBVIOUS
    <3>1. holder.conf = cfg /\ (cfg.twofa \/ holder.otp = "none" \/ Proven(cfg))
      BY <1>1, <2>1 DEF Bracket, HeldFits
    <3>2. cfg \in Conf /\ holder.otp \in Otp
      BY <1>0, <1>1 DEF Types, Holding
    <3> QED  BY <3>1, <3>2, LoginProves
  <2>5. p \in Editors /\ op'[p] # None /\ Edits(op[p]) => OnCourse(x, op[p], cfg)
    <3> SUFFICES ASSUME p \in Editors, op'[p] # None, Edits(op[p])
                 PROVE  OnCourse(x, op[p], cfg)
      OBVIOUS
    <3>1. x \in {"restore", "delete", "account"}  BY <1>4, <1>5
    <3>2. x = "account" => LoginAnswer(holder.conf, holder.otp) = "ok"
      BY <1>3 DEF AfterRefusal
    <3>3. cfg # None
      <4>1. op[p] \in Change
        <5>1. op[p] \in InHand /\ op[p] # None  BY <1>0, <1>2 DEF Types, Edits
        <5> QED  BY <5>1 DEF InHand, Edits, Code, Test
      <4>2. op[p].next \in Conf  BY <4>1 DEF Change
      <4> QED  BY <2>3, <4>2, NasAssumption
    <3> QED  BY <2>3, <2>4, <3>1, <3>2, <3>3 DEF OnCourse, Trying
  <2>6. Alone' /\ Course'  BY <1>1, <1>5, <2>1, <2>5, LeavesCourse
  <2>7. Bracket'
    <3> SUFFICES ASSUME cfg # None, ~Forgetting PROVE SavedFits' /\ CachedFits' /\ HeldFits'
      BY <1>1, <2>2 DEF Bracket
    <3>1. SavedFits /\ CachedFits  BY <2>1 DEF Bracket
    <3>2. SavedFits' /\ CachedFits'
      <4>1. CASE x = AfterRefusal(p) /\ UNCHANGED <<issued, sid, saved>>
        BY <1>1, <3>1, <4>1 DEF SavedFits, CachedFits, Proven
      <4>2. CASE LoginAnswer(holder.conf, holder.otp) = "ok" /\ sid' = [nas |-> holder.conf.nas, k |-> issued + 1]
                 /\ saved' = sid'
        BY <1>1, <2>4, <4>2 DEF SavedFits, CachedFits, Proven
      <4> QED  BY <1>3, <4>1, <4>2
    <3>3. HeldFits'  BY <1>1 DEF HeldFits
    <3> QED  BY <3>2, <3>3
  <2>8. Works'
    <3>1. CASE p \in Editors /\ Edits(op[p])
      <4>1. x = "idle" => LoginAnswer(holder.conf, holder.otp) = "ok"
        BY <1>2, <1>3, <3>1 DEF AfterRefusal, Editing, Edits, Serving
      <4> QED  BY <1>1, <1>4, <1>5, <2>3, <2>4, <2>6, <3>1, <4>1
               DEF Works, Trying, Course, OnCourse, Proven
    <3>2. CASE ~(p \in Editors /\ Edits(op[p]))
      BY <1>1, <1>2, <1>5, <2>1, <3>2 DEF Works, Proven
    <3> QED  BY <3>1, <3>2
  <2> QED  BY <2>6, <2>7, <2>8 DEF Sound
<1> QED  BY <1>5, <1>6, <1>7, <1>8 DEF Inv

-----------------------------------------------------------------------------
\* A request outside the lock touches no state of the manager.
LEMMA RequestStep ==
  ASSUME Inv, NEW p \in Procs, Ask(p) \/ Return(p)
  PROVE  Inv'
<1>0. Types /\ Flow /\ Locked  BY DEF Inv
<1>1. UNCHANGED <<cfg, saved, client, sid, holder, torn, issued>>
  BY DEF Ask, Return, store, manager, world
<1>2. Procs = Callers \cup Editors /\ Callers \cap Editors = {}
  BY NasAssumption DEF Procs
<1>3. pc[p] \in {"ask", "expired", "done", "failed"} /\ p \in Callers
  BY <1>0, <1>2 DEF Ask, Return, Flow, Suits
<1>4. pc \in [Procs -> Places] /\ op \in [Procs -> InHand] /\ op[p] = None
  BY <1>0, <1>3 DEF Types, Flow
<1>5. PICK x \in {"done", "expired", "failed", "invalidate", "current"} :
        pc' = [pc EXCEPT ![p] = x] /\ op' = op
  BY <1>3, <1>4 DEF Ask, Return, Answered, Done, Rest, Serving, locals
<1>6. /\ pc' \in [Procs -> Places] /\ op' = op
      /\ \A q \in Procs \ {p} : pc'[q] = pc[q]
      /\ pc'[p] = x
  BY <1>4, <1>5 DEF Places
<1>7. Types' /\ Flow'
  BY <1>0, <1>1, <1>2, <1>3, <1>5, <1>6 DEF Types, Flow, Asking
<1>8. Locked'  BY <1>0, <1>1, <1>3, <1>6, LeavesLocked
<1>9. ASSUME ~torn' PROVE Sound'
  <2>1. Alone /\ Course /\ Bracket /\ Works  BY <1>1, <1>9 DEF Inv, Sound
  <2>2. \A q \in Editors : pc'[q] = pc[q]  BY <1>2, <1>3, <1>6
  <2> QED
    BY <1>1, <1>5, <2>1, <2>2
    DEF Sound, Alone, Clash, Course, OnCourse, Works, Bracket, Forgetting,
        SavedFits, CachedFits, HeldFits, Proven
<1> QED  BY <1>7, <1>8, <1>9 DEF Inv

\* What an edit under way holds.
LEMMA EditTypes ==
  ASSUME Types, NEW p \in Procs, Edits(op[p])
  PROVE  /\ op[p] \in Change
         /\ op[p].next \in Conf /\ op[p].next # None
         /\ op[p].cur \in Conf \cup {None}
         /\ op[p].connection \in BOOLEAN
<1>1. op[p] \in InHand /\ op[p] # None  BY DEF Types, Edits
<1>2. op[p] \in Change  BY <1>1 DEF InHand, Edits, Code, Test
<1> QED  BY <1>2, NasAssumption DEF Change

\* An edit, a setup, or a caller whose session expired, forgets the session.
LEMMA ForgetStep ==
  ASSUME Inv, NEW p \in Procs, Invalidate(p) \/ Drop(p)
  PROVE  Inv'
<1>0. Types /\ Flow /\ Locked  BY DEF Inv
<1>1. /\ pc[p] \in {"invalidate", "drop"} /\ holder = None
      /\ sid' = None /\ saved' = None
      /\ UNCHANGED <<cfg, client, holder, torn, issued>>
  BY DEF Invalidate, Drop, Free, Forget, world
<1>2. Procs = Callers \cup Editors /\ Callers \cap Editors = {}
  BY NasAssumption DEF Procs
<1>3. PICK x \in {"current", "reauth", "idle"} :
        /\ Leaves(p, x)
        /\ p \in Callers => x = "current"
        /\ p \in Editors => IF pc[p] = "drop" THEN x = "idle"
                            ELSE x = IF op[p].next.twofa THEN "reauth" ELSE "current"
  <2>1. CASE Drop(p)
    <3>1. pc[p] = "drop" /\ p \in Editors /\ Rest(p) = "idle"
      BY <1>0, <1>2, <2>1 DEF Drop, Flow, Asking, Rest, Serving
    <3> QED  BY <1>2, <2>1, <3>1, Going DEF Drop
  <2>2. CASE Invalidate(p) /\ p \in Callers
    <3>1. op[p] = None /\ ~Editing(p) /\ op \in [Procs -> InHand]
      BY <1>0, <2>2 DEF Flow, Editing, Types
    <3> QED  BY <1>2, <2>2, <3>1 DEF Invalidate, Leaves, Rest, Serving, locals
  <2>3. CASE Invalidate(p) /\ p \in Editors
    <3>1. Editing(p)  BY <1>0, <2>3 DEF Invalidate, Flow, Suits, Editing, Edits
    <3> QED  BY <1>2, <2>3, <3>1 DEF Invalidate, Leaves, Rest, Serving, locals
  <2> QED  BY <1>2, <2>1, <2>2, <2>3
<1>4. /\ p \in Callers => x \in Asking
      /\ p \in Editors => /\ Edits(op[p])
                          /\ x = "idle" \/ Suits(x, op[p])
  <2>1. p \in Editors => Edits(op[p])
    BY <1>0, <1>1 DEF Flow, Suits, Edits
  <2> QED  BY <1>0, <1>1, <1>3, <2>1 DEF Asking, Suits, Edits
<1>5. /\ Flow'
      /\ pc' \in [Procs -> Places] /\ op' \in [Procs -> InHand]
      /\ \A q \in Procs \ {p} : pc'[q] = pc[q] /\ op'[q] = op[q]
      /\ pc'[p] = x /\ op'[p] \in {op[p], None}
      /\ p \in Editors => op'[p] = IF x = "idle" THEN None ELSE op[p]
  <2>1. x \in Places  BY DEF Places
  <2> QED  BY <1>0, <1>3, <1>4, <2>1, LeavesFlow
<1>6. Types'  BY <1>0, <1>1, <1>5 DEF Types
<1>7. Locked'  BY <1>0, <1>1, <1>3, <1>5, LeavesLocked
<1>8. ASSUME ~torn' PROVE Sound'
  <2>1. Alone /\ Course /\ Bracket /\ Works  BY <1>1, <1>8 DEF Inv, Sound
  <2>2. p \in Editors => OnCourse(pc[p], op[p], cfg)
    BY <1>4, <2>1 DEF Course
  <2>3. p \in Editors /\ op'[p] # None /\ Edits(op[p]) => OnCourse(x, op[p], cfg)
    BY <1>1, <1>3, <1>5, <2>2 DEF OnCourse, Trying
  <2>4. Alone' /\ Course'  BY <1>1, <1>5, <2>1, <2>3, LeavesCourse
  <2>5. Bracket'  BY <1>1 DEF Bracket, SavedFits, CachedFits, HeldFits
  <2>6. Works'
    <3>1. CASE p \in Editors /\ x = "idle"
      <4>1. op[p].kind = "edit"  BY <1>0, <1>1, <1>3, <3>1 DEF Flow, Suits
      <4>2. Proven(cfg)  BY <1>1, <1>3, <2>2, <3>1, <4>1 DEF OnCourse
      <4> QED  BY <1>1, <4>2 DEF Works, Proven
    <3>2. CASE p \in Editors /\ x # "idle"
      BY <1>3, <1>4, <1>5, <3>2 DEF Works, Trying
    <3>3. CASE p \notin Editors
      BY <1>1, <1>2, <1>5, <2>1, <3>3 DEF Works, Proven
    <3> QED  BY <3>1, <3>2, <3>3
  <2> QED  BY <2>4, <2>5, <2>6 DEF Sound
<1> QED  BY <1>5, <1>6, <1>7, <1>8 DEF Inv

\* A setup or an edit stores its connection, puts back the old one, or deletes the row.
LEMMA StoreStep ==
  ASSUME Inv, NEW p \in Procs, Save(p) \/ Restore(p) \/ Delete(p)
  PROVE  Inv'
<1>0. Types /\ Flow /\ Locked  BY DEF Inv
<1>1. /\ pc[p] \in {"save", "restore", "delete"}
      /\ UNCHANGED <<client, sid, holder, torn, issued>>
  BY DEF Save, Restore, Delete, manager, world
<1>2. Procs = Callers \cup Editors /\ Callers \cap Editors = {}
  BY NasAssumption DEF Procs
<1>3. p \in Editors /\ p \notin Callers /\ Edits(op[p]) /\ Rest(p) = "idle"
  BY <1>0, <1>1, <1>2 DEF Flow, Asking, Suits, Edits, Rest, Serving
<1>4. PICK x \in {"invalidate", "idle", "drop"} :
        /\ Leaves(p, x)
        /\ \/ /\ pc[p] = "save" /\ cfg' = op[p].next /\ saved' = saved
              /\ x = IF op[p].connection THEN "invalidate" ELSE "idle"
           \/ pc[p] = "restore" /\ cfg' = op[p].cur /\ saved' = saved /\ x = "drop"
           \/ pc[p] = "delete" /\ cfg' = None /\ saved' = None /\ x = "idle"
  <2>1. \A x \in {"invalidate", "drop"} : Goes(p, x) => Leaves(p, x)
    BY <1>3 DEF Goes, Leaves, locals
  <2>2. Ends(p) => Leaves(p, "idle")  BY <1>3, Going
  <2> QED  BY <2>1, <2>2 DEF Save, Restore, Delete
<1>5. x \in Places /\ (x = "idle" \/ Suits(x, op[p]))
  BY <1>0, <1>1, <1>3, <1>4 DEF Places, Flow, Suits, Edits
<1>6. /\ Flow'
      /\ pc' \in [Procs -> Places] /\ op' \in [Procs -> InHand]
      /\ \A q \in Procs \ {p} : pc'[q] = pc[q] /\ op'[q] = op[q]
      /\ pc'[p] = x /\ op'[p] \in {op[p], None}
      /\ op'[p] = IF x = "idle" THEN None ELSE op[p]
  BY <1>0, <1>3, <1>4, <1>5, LeavesFlow
<1>7. Types'
  <2>1. cfg' \in Conf \cup {None} /\ saved' \in Sid \cup {None}
    BY <1>0, <1>3, <1>4, EditTypes DEF Types
  <2> QED  BY <1>0, <1>1, <1>6, <2>1 DEF Types
<1>8. Locked'  BY <1>0, <1>1, <1>4, <1>6, LeavesLocked
<1>9. ASSUME ~torn' PROVE Sound'
  <2>1. Alone /\ Course /\ Bracket /\ Works  BY <1>1, <1>9 DEF Inv, Sound
  <2>2. OnCourse(pc[p], op[p], cfg)  BY <1>3, <2>1 DEF Course
  <2>3. \A q \in Editors : q # p => ~Edits(op[q]) /\ pc[q] \notin {"drop", "invalidate"}
    BY <1>0, <1>3, <2>1, Sole
  <2>4. Alone'  BY <1>2, <1>6, <2>1 DEF Alone, Clash
  <2>5. Course'
    <3> SUFFICES ASSUME NEW q \in Editors, Edits(op'[q]) PROVE OnCourse(pc'[q], op'[q], cfg')
      BY DEF Course
    <3>1. q = p /\ x # "idle" /\ op'[p] = op[p]  BY <1>2, <1>6, <2>3 DEF Edits
    <3> QED  BY <1>4, <1>6, <2>2, <3>1 DEF OnCourse, Trying
  <2>6. CASE x # "idle"
    <3>1. Forgetting'  BY <1>3, <1>4, <1>6, <2>6 DEF Forgetting
    <3>2. Works'
      <4>1. CASE x = "invalidate"
        BY <1>3, <1>6, <4>1 DEF Works, Trying
      <4>2. CASE x = "drop"
        <5>1. pc[p] = "restore" /\ cfg' = op[p].cur  BY <1>4, <4>2
        <5>2. op[p].kind = "edit"  BY <1>0, <1>3, <5>1 DEF Flow, Suits
        <5> QED  BY <2>2, <5>1, <5>2 DEF OnCourse, Works, Proven
      <4> QED  BY <1>4, <2>6, <4>1, <4>2
    <3> QED  BY <2>4, <2>5, <3>1, <3>2 DEF Sound, Bracket
  <2>7. CASE x = "idle" /\ pc[p] = "save"
    <3>1. cfg' = cfg /\ saved' = saved /\ Proven(cfg)
      <4>1. ~op[p].connection  BY <1>4, <2>7
      <4> QED  BY <1>4, <2>2, <2>7, <4>1 DEF OnCourse
    <3>2. ~Forgetting  BY <2>3, <2>7 DEF Forgetting
    <3>3. Bracket'
      BY <1>1, <2>1, <3>1, <3>2
      DEF Bracket, SavedFits, CachedFits, HeldFits, Proven
    <3>4. Works'  BY <3>1 DEF Works, Proven
    <3> QED  BY <2>4, <2>5, <3>3, <3>4 DEF Sound
  <2>8. CASE x = "idle" /\ pc[p] # "save"
    <3>1. cfg' = None  BY <1>4, <2>8
    <3> QED  BY <2>4, <2>5, <3>1 DEF Sound, Bracket, Works
  <2> QED  BY <2>6, <2>7, <2>8
<1> QED  BY <1>6, <1>7, <1>8, <1>9 DEF Inv

\* The setup's last step, or the one that undoes it.
LEMMA AccountStep ==
  ASSUME Inv, NEW p \in Procs, Account(p)
  PROVE  Inv'
<1>0. Types /\ Flow /\ Locked  BY DEF Inv
<1>1. pc[p] = "account" /\ UNCHANGED <<cfg, saved, client, sid, holder, torn, issued>>
  BY DEF Account, manager
<1>2. Procs = Callers \cup Editors /\ Callers \cap Editors = {}
  BY NasAssumption DEF Procs
<1>3. p \in Editors /\ p \notin Callers /\ Edits(op[p]) /\ op[p].kind = "setup" /\ Rest(p) = "idle"
  BY <1>0, <1>1, <1>2 DEF Flow, Asking, Suits, Edits, Rest, Serving
<1>4. PICK x \in {"delete", "idle"} : Leaves(p, x)
  <2>1. Goes(p, "delete") => Leaves(p, "delete")  BY <1>3 DEF Goes, Leaves, locals
  <2>2. Ends(p) => Leaves(p, "idle")  BY <1>3, Going
  <2> QED  BY <2>1, <2>2 DEF Account
<1>5. x \in Places /\ (x = "idle" \/ Suits(x, op[p]))
  BY <1>3, <1>4 DEF Places, Suits, Edits
<1>6. /\ Flow'
      /\ pc' \in [Procs -> Places] /\ op' \in [Procs -> InHand]
      /\ \A q \in Procs \ {p} : pc'[q] = pc[q] /\ op'[q] = op[q]
      /\ pc'[p] = x /\ op'[p] \in {op[p], None}
      /\ op'[p] = IF x = "idle" THEN None ELSE op[p]
  BY <1>0, <1>3, <1>4, <1>5, LeavesFlow
<1>7. Types'  BY <1>0, <1>1, <1>6 DEF Types
<1>8. Locked'  BY <1>0, <1>1, <1>4, <1>6, LeavesLocked
<1>9. ASSUME ~torn' PROVE Sound'
  <2>1. Alone /\ Course /\ Bracket /\ Works  BY <1>1, <1>9 DEF Inv, Sound
  <2>2. OnCourse("account", op[p], cfg)  BY <1>1, <1>3, <2>1 DEF Course
  <2>3. Proven(cfg)  BY <2>2 DEF OnCourse
  <2>4. op'[p] # None /\ Edits(op[p]) => OnCourse(x, op[p], cfg)
    BY <1>4, <1>6, <2>2 DEF OnCourse, Trying
  <2>5. Alone' /\ Course'  BY <1>1, <1>6, <2>1, <2>4, LeavesCourse
  <2>6. Forgetting' <=> Forgetting
    BY <1>1, <1>4, <1>6, SameForgetting
  <2>7. Bracket'
    BY <1>1, <2>1, <2>6 DEF Bracket, SavedFits, CachedFits, HeldFits, Proven
  <2>8. Works'  BY <1>1, <2>3 DEF Works, Proven
  <2> QED  BY <2>5, <2>7, <2>8 DEF Sound
<1> QED  BY <1>6, <1>7, <1>8, <1>9 DEF Inv

-----------------------------------------------------------------------------
\* Whatever an editor takes up, it starts where Suits allows it, and on course.
LEMMA StartStep ==
  ASSUME Inv, NEW p \in Editors, pc[p] = "idle",
         NEW o \in Change \cup Code \cup Test, NEW at \in {"save", "reauth", "current"},
         Start(p, o, at), Suits(at, o),
         Edits(o) /\ ~torn' => OnCourse(at, o, cfg)
  PROVE  Inv'
<1>0. Types /\ Flow /\ Locked  BY DEF Inv
<1>1. /\ UNCHANGED <<cfg, saved, client, sid, holder, issued>>
      /\ op' = [op EXCEPT ![p] = o] /\ pc' = [pc EXCEPT ![p] = at]
      /\ torn' = (torn \/ \E q \in Editors \ {p} : Clash(o, op[q]))
  BY DEF Start, store, manager
<1>2. Procs = Callers \cup Editors /\ Callers \cap Editors = {}
  BY NasAssumption DEF Procs
<1>3. /\ pc' \in [Procs -> Places] /\ op' \in [Procs -> InHand]
      /\ \A q \in Procs \ {p} : pc'[q] = pc[q] /\ op'[q] = op[q]
      /\ pc'[p] = at /\ op'[p] = o
  BY <1>0, <1>1, <1>2 DEF Types, Places, InHand
<1>4. op[p] = None  BY <1>0 DEF Flow, Suits
<1>5. Types'  BY <1>0, <1>1, <1>3 DEF Types
<1>6. Flow'
  <2>1. \A q \in Callers : op'[q] = None /\ pc'[q] \in Asking
    BY <1>0, <1>2, <1>3 DEF Flow
  <2>2. ASSUME NEW q \in Editors PROVE Suits(pc'[q], op'[q])
    <3>1. CASE q = p  BY <1>3, <3>1
    <3>2. CASE q # p  BY <1>0, <1>2, <1>3, <3>2 DEF Flow
    <3> QED  BY <3>1, <3>2
  <2> QED  BY <2>1, <2>2 DEF Flow
<1>7. Locked'  BY <1>0, <1>1, <1>2, <1>3, LeavesLocked
<1>8. ASSUME ~torn' PROVE Sound'
  <2>1. Alone /\ Course /\ Bracket /\ Works  BY <1>1, <1>8 DEF Inv, Sound
  <2>2. Alone'
    <3> SUFFICES ASSUME NEW q \in Editors, NEW r \in Editors, q # r
                 PROVE  ~Clash(op'[q], op'[r])
      BY DEF Alone
    <3>1. \A t \in Editors \ {p} : ~Clash(o, op[t])  BY <1>1, <1>8
    <3>2. CASE q = p  BY <1>2, <1>3, <3>1, <3>2
    <3>3. CASE r = p
      <4>1. ~Clash(o, op[q]) /\ op'[q] = op[q] /\ op'[r] = o  BY <1>2, <1>3, <3>1, <3>3
      <4>2. {o.kind, op[q].kind} = {op[q].kind, o.kind}  OBVIOUS
      <4> QED  BY <4>1, <4>2 DEF Clash
    <3>4. CASE q # p /\ r # p  BY <1>2, <1>3, <2>1, <3>4 DEF Alone
    <3> QED  BY <3>2, <3>3, <3>4
  <2>3. Course'
    <3> SUFFICES ASSUME NEW q \in Editors, Edits(op'[q]) PROVE OnCourse(pc'[q], op'[q], cfg')
      BY DEF Course
    <3>1. CASE q = p  BY <1>1, <1>3, <1>8, <3>1
    <3>2. CASE q # p  BY <1>1, <1>2, <1>3, <2>1, <3>2 DEF Course
    <3> QED  BY <3>1, <3>2
  <2>4. Forgetting' <=> Forgetting  BY <1>2, <1>3, SameForgetting
  <2>5. Bracket'
    BY <1>1, <2>1, <2>4 DEF Bracket, SavedFits, CachedFits, HeldFits, Proven
  <2>6. Works'  BY <1>1, <1>2, <1>3, <1>4, <2>1 DEF Works, Proven, Edits
  <2> QED  BY <2>2, <2>3, <2>5, <2>6 DEF Sound
<1> QED  BY <1>5, <1>6, <1>7, <1>8 DEF Inv

LEMMA BeginStep ==
  ASSUME Inv,
         \/ \E w \in Wizards : SetupCheck(w)
         \/ \E a \in Admins : EditRead(a) \/ AskReauth(a) \/ TestStored(a)
  PROVE  Inv'
<1>0. Types  BY DEF Inv
<1>1. ASSUME NEW w \in Wizards, SetupCheck(w) PROVE Inv'
  <2>1. PICK n \in Nas, good \in BOOLEAN, otp \in Otp :
          Start(w, [kind |-> "setup", cur |-> None, otp |-> otp, connection |-> TRUE,
                    next |-> [nas |-> n, good |-> good, twofa |-> otp # "none"]], "save")
    BY <1>1 DEF SetupCheck
  <2> DEFINE o == [kind |-> "setup", cur |-> None, otp |-> otp, connection |-> TRUE,
                   next |-> [nas |-> n, good |-> good, twofa |-> otp # "none"]]
  <2>2. o \in Change  BY DEF Change, Conf
  <2>3. o # None  BY <2>2, NasAssumption
  <2>4. Suits("save", o)  BY <2>3 DEF Suits, Edits
  <2>5. OnCourse("save", o, cfg)  BY <1>1 DEF SetupCheck, OnCourse, Trying
  <2>6. w \in Editors /\ pc[w] = "idle"  BY <1>1 DEF SetupCheck, Editors
  <2> QED  BY <2>1, <2>2, <2>4, <2>5, <2>6, StartStep
<1>2. ASSUME NEW a \in Admins, EditRead(a) PROVE Inv'
  <2>1. PICK n \in Nas, good \in BOOLEAN, otp \in Otp, password \in BOOLEAN, account \in BOOLEAN :
       /\ (n = cfg.nas /\ ~password /\ ~account) => good = cfg.good
       /\ Start(a, [kind |-> "edit", cur |-> cfg, otp |-> otp,
                    connection |-> n # cfg.nas \/ account \/ password \/ otp # "none",
                    next |-> [nas |-> n, good |-> good,
                              twofa |-> CASE otp # "none" -> TRUE
                                          [] password     -> FALSE
                                          [] OTHER        -> cfg.twofa]],
                "save")
    BY <1>2 DEF EditRead
  <2> DEFINE t == CASE otp # "none" -> TRUE [] password -> FALSE [] OTHER -> cfg.twofa
             conn == n # cfg.nas \/ account \/ password \/ otp # "none"
             c == [nas |-> n, good |-> good, twofa |-> t]
             o == [kind |-> "edit", cur |-> cfg, otp |-> otp, connection |-> conn, next |-> c]
  <2>2. a \in Editors /\ a \in Procs /\ pc[a] = "idle" /\ cfg # None /\ cfg \in Conf
    BY <1>0, <1>2 DEF EditRead, Editors, Procs, Types
  <2>3. t \in BOOLEAN  BY <2>2 DEF Conf
  <2>4. c \in Conf  BY <2>3 DEF Conf
  <2>5. o \in Change  BY <2>2, <2>4 DEF Change
  <2>6. o # None  BY <2>5, NasAssumption
  <2>7. Suits("save", o)  BY <2>6 DEF Suits, Edits
  <2>8. ~conn => c = cfg
    <3> SUFFICES ASSUME ~conn PROVE c = cfg  OBVIOUS
    <3>1. n = cfg.nas /\ ~account /\ ~password /\ otp = "none"  OBVIOUS
    <3>2. good = cfg.good /\ t = cfg.twofa  BY <2>1, <3>1
    <3> QED  BY <2>2, <3>1, <3>2 DEF Conf
  <2>9. ASSUME ~torn' PROVE Proven(cfg)
    <3>1. ~torn /\ \A q \in Editors \ {a} : ~Clash(o, op[q])
      BY <2>1, <2>9 DEF Start
    <3>2. Works /\ op[a] = None  BY <2>2, <3>1 DEF Inv, Sound, Flow, Suits
    <3>3. ASSUME NEW q \in Editors PROVE ~Edits(op[q])
      <4>1. CASE q = a  BY <3>2, <4>1 DEF Edits
      <4>2. CASE q # a
        <5>1. ~Clash(o, op[q]) /\ o.kind = "edit"  BY <3>1, <4>2
        <5> QED  BY <2>6, <5>1 DEF Clash, Edits
      <4> QED  BY <4>1, <4>2
    <3> QED  BY <2>2, <3>2, <3>3 DEF Works
  <2>10. ~torn' => OnCourse("save", o, cfg)
    <3>1. /\ o.kind = "edit" /\ o.cur = cfg /\ o.connection = conn /\ o.next = c
      OBVIOUS
    <3> HIDE DEF o, c, conn, t
    <3> QED  BY <2>2, <2>8, <2>9, <3>1 DEF OnCourse, Trying
  <2>11. Start(a, o, "save")  BY <2>1
  <2> HIDE DEF o
  <2> QED  BY <2>2, <2>5, <2>7, <2>10, <2>11, StartStep
<1>3. ASSUME NEW a \in Admins, AskReauth(a) PROVE Inv'
  <2>1. PICK otp \in {"right", "wrong"} : Start(a, [kind |-> "reauth", otp |-> otp], "reauth")
    BY <1>3 DEF AskReauth
  <2> DEFINE o == [kind |-> "reauth", otp |-> otp]
  <2>2. o \in Code  BY DEF Code
  <2>3. o # None  BY <2>2, NasAssumption
  <2>4. Suits("reauth", o) /\ ~Edits(o)  BY <2>3 DEF Suits, Edits
  <2>5. a \in Editors /\ pc[a] = "idle"  BY <1>3 DEF AskReauth, Editors
  <2> QED  BY <2>1, <2>2, <2>4, <2>5, StartStep
<1>4. ASSUME NEW a \in Admins, TestStored(a) PROVE Inv'
  <2> DEFINE o == [kind |-> "test"]
  <2>1. Start(a, o, "current")  BY <1>4 DEF TestStored
  <2>2. o \in Test  BY DEF Test
  <2>3. o # None  BY <2>2, NasAssumption
  <2>4. Suits("current", o) /\ ~Edits(o)  BY <2>3 DEF Suits, Edits
  <2>5. a \in Editors /\ pc[a] = "idle"  BY <1>4 DEF TestStored, Editors
  <2> QED  BY <2>1, <2>2, <2>4, <2>5, StartStep
<1> QED  BY <1>1, <1>2, <1>3, <1>4

-----------------------------------------------------------------------------
\* The store outlives the server; what was under way does not.
LEMMA RestartStep ==
  ASSUME Inv, Restart
  PROVE  Inv'
<1>0. Types /\ Flow /\ Locked  BY DEF Inv
<1>1. /\ UNCHANGED <<cfg, saved, issued>> /\ client' = None /\ sid' = None /\ holder' = None
      /\ pc' = [p \in Procs |-> Rest(p)] /\ op' = [p \in Procs |-> None]
      /\ torn' = (torn \/ \E p \in Editors : Unsettled(p) /\ pc[p] # "save")
  BY DEF Restart, store
<1>2. Procs = Callers \cup Editors /\ Callers \cap Editors = {}
  BY NasAssumption DEF Procs
<1>3. /\ \A p \in Callers : pc'[p] = "current" /\ op'[p] = None
      /\ \A p \in Editors : pc'[p] = "idle" /\ op'[p] = None
  BY <1>1, <1>2 DEF Rest, Serving
<1>4. Types'
  <2>1. pc' \in [Procs -> Places] /\ op' \in [Procs -> InHand]
    BY <1>1 DEF Rest, Places, InHand
  <2> QED  BY <1>0, <1>1, <2>1 DEF Types
<1>5. Flow'  BY <1>3 DEF Flow, Suits, Asking
<1>6. Locked'  BY <1>1, <1>2, <1>3 DEF Locked
<1>7. ASSUME ~torn' PROVE Sound'
  <2>1. Bracket /\ Works  BY <1>1, <1>7 DEF Inv, Sound
  <2>2. \A p \in Editors : Edits(op[p]) => pc[p] = "save"
    BY <1>0, <1>1, <1>7 DEF Unsettled, Editing, Edits, Flow, Suits
  <2>3. ~Forgetting  BY <1>0, <2>2 DEF Forgetting, Flow, Suits, Edits
  <2>4. Alone' /\ Course'  BY <1>3 DEF Alone, Clash, Course, Edits
  <2>5. Bracket'
    BY <1>1, <2>1, <2>3 DEF Bracket, SavedFits, CachedFits, HeldFits, Proven
  <2>6. Works'  BY <1>1, <2>1, <2>2 DEF Works, Trying, Proven
  <2> QED  BY <2>4, <2>5, <2>6 DEF Sound
<1> QED  BY <1>4, <1>5, <1>6, <1>7 DEF Inv

LEMMA Elsewhere ==
  ASSUME Inv, UNCHANGED <<cfg, saved, client, sid, holder, pc, op, issued, torn>>
  PROVE  Inv'
<1>1. Types' /\ Flow' /\ Locked'  BY DEF Inv, Types, Flow, Locked
<1>2. Sound => Sound'
  BY DEF Sound, Alone, Course, OnCourse, Bracket, Forgetting, SavedFits, CachedFits, HeldFits,
         Works, Proven
<1> QED  BY <1>1, <1>2 DEF Inv

LEMMA Step == Inv /\ [Next]_vars => Inv'
<1> SUFFICES ASSUME Inv, [Next]_vars PROVE Inv'  OBVIOUS
<1>1. CASE \E p \in Procs : Work(p)
  BY <1>1, RequestStep, LoginStep, StoreStep, AccountStep DEF Work
<1>2. CASE \E p \in Procs : Lock(p)
  BY <1>2, CurrentStep, ReauthStep, ForgetStep DEF Lock
<1>3. CASE (\E w \in Wizards : SetupCheck(w))
           \/ \E a \in Admins : EditRead(a) \/ AskReauth(a) \/ TestStored(a)
  BY <1>3, BeginStep
<1>4. CASE Expire
  BY <1>4, Elsewhere DEF Expire, store, manager, locals
<1>5. CASE Restart  BY <1>5, RestartStep
<1>6. CASE UNCHANGED vars
  BY <1>6, Elsewhere DEF vars, store, manager, locals, world
<1> QED  BY <1>1, <1>2, <1>3, <1>4, <1>5, <1>6 DEF Next

LEMMA Invariant == Spec => []Inv
BY InitInv, Step, PTL DEF Spec

(***************************************************************************)
(* nas.go, "a sid is only valid on the client that created it": with no    *)
(* setup or edit under way, the cached session and the persisted one are   *)
(* the stored connection's, whoever logged in meanwhile.                   *)
(***************************************************************************)
THEOREM SessionStaysWithConnection == Spec => []SessionMatchesConnection
<1>1. Inv => SessionMatchesConnection
  <2> SUFFICES ASSUME Inv, Settled, cfg # None
               PROVE  /\ saved # None => saved.nas = cfg.nas
                      /\ (sid # None /\ client = cfg.nas) => sid.nas = cfg.nas
    BY DEF SessionMatchesConnection
  <2>1. ~Forgetting
    BY DEF Inv, Settled, Unsettled, Editing, Forgetting, Flow, Suits, Edits
  <2> QED  BY <2>1 DEF Inv, Sound, Settled, Bracket, SavedFits, CachedFits
<1> QED  BY <1>1, Invariant, PTL

(***************************************************************************)
(* "A bad edit never breaks the running instance": what setups and edits   *)
(* leave behind is a connection whose account the NAS accepts.             *)
(***************************************************************************)
THEOREM EditsLeaveWhatWorks == Spec => []StoredConnectionWorks
<1>1. Inv => StoredConnectionWorks
  <2> SUFFICES ASSUME Inv, Settled, cfg # None PROVE Proven(cfg)
    BY DEF StoredConnectionWorks, Proven
  <2>1. \A p \in Editors : Edits(op[p]) => pc[p] = "idle"
    BY DEF Settled, Unsettled, Editing, Edits
  <2> QED  BY <2>1 DEF Inv, Sound, Settled, Works, Trying
<1> QED  BY <1>1, Invariant, PTL
=============================================================================
