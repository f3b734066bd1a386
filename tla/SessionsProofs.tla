---------------------------- MODULE SessionsProofs ----------------------------
(***************************************************************************)
(* Proofs about Sessions for any TTLs, users, sessions and workers.  The   *)
(* lifetime of a session is enforced with a row that was read two          *)
(* statements earlier, so the invariant relates the copies in flight to    *)
(* the table: a row's bounds hold in the table, what a request has read is *)
(* covered by them, and the table's last_seen_at only moves forward.       *)
(***************************************************************************)
EXTENDS Sessions, TLAPS

(* The bounds of a session row. *)
Bounded(row) ==
    /\ row.expires <= row.absolute
    /\ row.expires <= row.lastSeen + IdleTTL
    /\ row.absolute <= row.created + AbsTTL
    /\ row.lastSeen <= clock

TableBounded == \A s \in SessionIds : Exists(s) => Bounded(sessions[s])

(* What a request in flight knows is still covered by the table. *)
CopyCovered(w) ==
    /\ work[w].pc = "selected" =>
          /\ Exists(work[w].sid)
          /\ work[w].expires <= sessions[work[w].sid].lastSeen + IdleTTL
          /\ work[w].absolute = sessions[work[w].sid].absolute
    /\ work[w].pc = "slide" =>
          /\ Exists(work[w].sid)
          /\ work[w].at <= clock
          /\ work[w].at < sessions[work[w].sid].lastSeen + IdleTTL
          /\ work[w].at < sessions[work[w].sid].created + AbsTTL
          /\ work[w].to <= work[w].at + IdleTTL
          /\ work[w].to <= sessions[work[w].sid].absolute

CopiesCovered == \A w \in Workers : CopyCovered(w)

IInv == TypeOK /\ TableBounded /\ CopiesCovered

--------------------------------------------------------------------------------
(* The request record of each program point. *)
LEMMA WorkShape ==
    ASSUME TypeOK, NEW w \in Workers
    PROVE  /\ work[w].pc = "verified" =>
                 work[w] \in [pc : {"verified"}, user : Users, cred : Nat]
           /\ work[w].pc = "selected" =>
                 work[w] \in [pc : {"selected"}, sid : SessionIds, user : Users,
                              expires : Nat, absolute : Nat]
           /\ work[w].pc = "slide" =>
                 work[w] \in [pc : {"slide"}, sid : SessionIds, user : Users,
                              at : Nat, to : Nat]
           /\ work[w].pc = "admitted" =>
                 work[w] \in [pc : {"admitted"}, sid : SessionIds, user : Users]
           /\ work[w].pc \in {"pw_verified", "pw_written"} =>
                 work[w] \in [pc : {"pw_verified", "pw_written"},
                              sid : SessionIds, user : Users]
<1>1. work[w] \in Work
  BY DEF TypeOK
<1>2. QED BY <1>1 DEF Work

LEMMA RowShape ==
    ASSUME TypeOK, NEW s \in SessionIds, Exists(s)
    PROVE  sessions[s] \in SessionRow
BY DEF TypeOK, Exists

LEMMA EarlierOfBounds ==
    ASSUME NEW a \in Nat, NEW b \in Nat
    PROVE  /\ EarlierOf(a, b) \in Nat
           /\ EarlierOf(a, b) <= a
           /\ EarlierOf(a, b) <= b
BY DEF EarlierOf

LEMMA RevokeAllType ==
    ASSUME TypeOK, NEW u \in Users
    PROVE  RevokeAll(u) \in [SessionIds -> SessionRow \cup {NoSession}]
<1> SUFFICES ASSUME NEW s \in SessionIds
             PROVE  (IF OwnedBy(s, u) THEN [sessions[s] EXCEPT !.revoked = TRUE]
                     ELSE sessions[s]) \in SessionRow \cup {NoSession}
  BY DEF RevokeAll
<1>1. CASE OwnedBy(s, u)
  BY <1>1, RowShape DEF OwnedBy, SessionRow
<1>2. CASE ~OwnedBy(s, u)
  BY <1>2 DEF TypeOK
<1>3. QED BY <1>1, <1>2

LEMMA TypeInit == Init => TypeOK
BY DEF Init, TypeOK, Work

LEMMA TypeStep == TypeOK /\ [Next]_vars => TypeOK'
<1> SUFFICES ASSUME TypeOK, [Next]_vars PROVE TypeOK'
  OBVIOUS
<1> USE TTLAssumption
<1>become. ASSUME NEW w \in Workers, NEW state \in Work, Become(w, state)
           PROVE  work' \in [Workers -> Work]
  BY <1>become DEF Become, TypeOK
<1>idle. [pc |-> "idle"] \in Work
  BY DEF Work
<1>1. CASE Tick
  BY <1>1 DEF Tick, TypeOK
<1>2. ASSUME NEW u \in Users, DeleteUser(u) PROVE TypeOK'
  BY <1>2, RevokeAllType DEF DeleteUser, TypeOK
<1>3. ASSUME NEW s \in SessionIds, LogoutUser(s) PROVE TypeOK'
  <2>1. sessions' \in [SessionIds -> SessionRow \cup {NoSession}]
    <3>1. sessions[s] \in SessionRow
      BY <1>3, RowShape DEF LogoutUser
    <3>2. [sessions[s] EXCEPT !.revoked = TRUE] \in SessionRow
      BY <3>1 DEF SessionRow
    <3>3. QED BY <1>3, <3>2 DEF LogoutUser, TypeOK
  <2>2. QED BY <1>3, <2>1 DEF LogoutUser, TypeOK
<1>4. ASSUME NEW w \in Workers, NEW u \in Users, LoginVerify(w, u) PROVE TypeOK'
  <2>1. [pc |-> "verified", user |-> u, cred |-> password[u]] \in Work
    BY DEF Work, TypeOK
  <2>2. QED BY <1>4, <2>1, <1>become DEF LoginVerify, TypeOK
<1>5. ASSUME NEW w \in Workers, NEW s \in SessionIds, LoginCreate(w, s)
      PROVE  TypeOK'
  <2>1. work[w].user \in Users /\ work[w].cred \in Nat
    BY <1>5, WorkShape DEF LoginCreate
  <2>2. NewSession(work[w].user, work[w].cred) \in SessionRow
    <3>1. clock + IdleTTL \in Nat /\ clock + AbsTTL \in Nat /\ clock \in Nat
      BY DEF TypeOK
    <3>2. EarlierOf(clock + IdleTTL, clock + AbsTTL) \in Nat
      BY <3>1, EarlierOfBounds
    <3>3. QED BY <2>1, <3>1, <3>2 DEF NewSession, SessionRow
  <2>3. QED BY <1>5, <2>2, <1>idle, <1>become DEF LoginCreate, TypeOK
<1>6. ASSUME NEW w \in Workers, NEW s \in SessionIds, ValidateSelect(w, s)
      PROVE  TypeOK'
  <2>1. sessions[s] \in SessionRow
    BY <1>6, RowShape DEF ValidateSelect
  <2>2. Selected(s) \in Work
    BY <2>1 DEF Selected, Work, SessionRow
  <2>3. QED BY <1>6, <2>2, <1>become DEF ValidateSelect, TypeOK
<1>7. ASSUME NEW w \in Workers, ValidateCheck(w) PROVE TypeOK'
  <2>1. work[w] \in [pc : {"selected"}, sid : SessionIds, user : Users,
                     expires : Nat, absolute : Nat]
    BY <1>7, WorkShape DEF ValidateCheck
  <2>2. SlideTo(work[w]) \in Nat
    <3>1. clock + IdleTTL \in Nat /\ work[w].absolute \in Nat
      BY <2>1 DEF TypeOK
    <3>2. QED BY <3>1, EarlierOfBounds DEF SlideTo
  <2>3. [pc |-> "slide", sid |-> work[w].sid, user |-> work[w].user,
         at |-> clock, to |-> SlideTo(work[w])] \in Work
    BY <2>1, <2>2 DEF Work, TypeOK
  <2>4. work' \in [Workers -> Work]
    BY <1>7, <2>3, <1>idle, <1>become DEF ValidateCheck
  <2>5. QED BY <1>7, <2>4 DEF ValidateCheck, TypeOK
<1>8. ASSUME NEW w \in Workers, ValidateSlide(w) PROVE TypeOK'
  <2>1. work[w] \in [pc : {"slide"}, sid : SessionIds, user : Users,
                     at : Nat, to : Nat]
    BY <1>8, WorkShape DEF ValidateSlide
  <2>2. [pc |-> "admitted", sid |-> work[w].sid, user |-> work[w].user] \in Work
    BY <2>1 DEF Work
  <2>3. sessions' \in [SessionIds -> SessionRow \cup {NoSession}]
    <3> DEFINE s == work[w].sid
    <3>1. CASE sessions' = sessions
      BY <3>1 DEF TypeOK
    <3>2. CASE sessions' = [sessions EXCEPT ![s].expires = work[w].to,
                                            ![s].lastSeen = clock]
      <4>1. CASE sessions[s] = NoSession
        BY <2>1, <3>2, <4>1 DEF TypeOK, NoSession
      <4>2. CASE sessions[s] \in SessionRow
        BY <2>1, <3>2, <4>2 DEF TypeOK, SessionRow
      <4>3. QED BY <2>1, <4>1, <4>2 DEF TypeOK
    <3>3. QED BY <1>8, <3>1, <3>2 DEF ValidateSlide
  <2>4. QED BY <1>8, <2>2, <2>3, <1>become DEF ValidateSlide, TypeOK
<1>9. ASSUME NEW w \in Workers, Served(w) \/ Abort(w) PROVE TypeOK'
  BY <1>9, <1>idle, <1>become DEF Served, Abort, TypeOK
<1>10. ASSUME NEW w \in Workers, PasswordVerify(w) PROVE TypeOK'
  <2>1. [pc |-> "pw_verified", sid |-> work[w].sid, user |-> work[w].user] \in Work
    BY <1>10, WorkShape DEF PasswordVerify, Work
  <2>2. QED BY <1>10, <2>1, <1>become DEF PasswordVerify, TypeOK
<1>11. ASSUME NEW w \in Workers, PasswordUpdate(w) PROVE TypeOK'
  <2>1. /\ work[w].user \in Users
        /\ [pc |-> "pw_written", sid |-> work[w].sid, user |-> work[w].user] \in Work
    BY <1>11, WorkShape DEF PasswordUpdate, Work
  <2>2. work' \in [Workers -> Work]
    BY <1>11, <2>1, <1>idle, <1>become DEF PasswordUpdate
  <2>3. QED BY <1>11, <2>1, <2>2 DEF PasswordUpdate, TypeOK
<1>12. ASSUME NEW w \in Workers, PasswordRevoke(w) PROVE TypeOK'
  <2>1. work[w].user \in Users
    BY <1>12, WorkShape DEF PasswordRevoke
  <2>2. [version |-> password[work[w].user], at |-> clock]
           \in [version : Nat, at : Nat]
    BY <2>1 DEF TypeOK
  <2>3. QED BY <1>12, <2>1, <2>2, <1>idle, <1>become, RevokeAllType
            DEF PasswordRevoke, TypeOK
<1>13. CASE UNCHANGED vars
  BY <1>13 DEF vars, TypeOK
<1>14. QED
  BY <1>1, <1>2, <1>3, <1>4, <1>5, <1>6, <1>7, <1>8, <1>9, <1>10, <1>11, <1>12,
     <1>13 DEF Next

(* Rows and requests in flight keep their shape. *)
THEOREM TypeCorrect == Spec => []TypeOK
BY TypeInit, TypeStep, PTL DEF Spec

--------------------------------------------------------------------------------
(* How every step treats the table: rows stay, keep their creation time    *)
(* and absolute expiry, and are seen later, never earlier.                 *)
Forward ==
    /\ clock <= clock'
    /\ \A s \in SessionIds : Exists(s) =>
          /\ Exists(s)'
          /\ sessions'[s].created = sessions[s].created
          /\ sessions'[s].absolute = sessions[s].absolute
          /\ sessions[s].lastSeen <= sessions'[s].lastSeen

(* A request that does not move stays covered while the table moves on. *)
LEMMA CoveredForward ==
    ASSUME TypeOK, TypeOK', NEW w \in Workers, CopyCovered(w), Forward,
           work'[w] = work[w]
    PROVE  CopyCovered(w)'
<1> USE TTLAssumption
<1>0. clock \in Nat /\ clock' \in Nat
  BY DEF TypeOK
<1>1. ASSUME work[w].pc = "selected" PROVE CopyCovered(w)'
  <2>1. work[w] \in [pc : {"selected"}, sid : SessionIds, user : Users,
                     expires : Nat, absolute : Nat]
    BY <1>1, WorkShape
  <2>2. sessions[work[w].sid] \in SessionRow /\ sessions'[work[w].sid] \in SessionRow
    BY <1>1, <2>1, RowShape DEF CopyCovered, Forward, TypeOK, Exists
  <2>3. Exists(work[w].sid)'
    BY <1>1, <2>1 DEF CopyCovered, Forward
  <2>4. QED BY <1>0, <1>1, <2>1, <2>2, <2>3
            DEF CopyCovered, Forward, SessionRow, Exists
<1>2. ASSUME work[w].pc = "slide" PROVE CopyCovered(w)'
  <2>1. work[w] \in [pc : {"slide"}, sid : SessionIds, user : Users,
                     at : Nat, to : Nat]
    BY <1>2, WorkShape
  <2>2. sessions[work[w].sid] \in SessionRow /\ sessions'[work[w].sid] \in SessionRow
    BY <1>2, <2>1, RowShape DEF CopyCovered, Forward, TypeOK, Exists
  <2>3. Exists(work[w].sid)'
    BY <1>2, <2>1 DEF CopyCovered, Forward
  <2>4. QED BY <1>0, <1>2, <2>1, <2>2, <2>3
            DEF CopyCovered, Forward, SessionRow, Exists
<1>3. ASSUME work[w].pc \notin {"selected", "slide"} PROVE CopyCovered(w)'
  BY <1>3 DEF CopyCovered
<1>4. QED BY <1>1, <1>2, <1>3

(* Revoking sessions changes no bound. *)
LEMMA RevocationKeepsBounds ==
    ASSUME TypeOK, TableBounded, UNCHANGED clock,
           sessions' \in [SessionIds -> SessionRow \cup {NoSession}],
           \A s \in SessionIds :
              \/ sessions'[s] = sessions[s]
              \/ Exists(s) /\ sessions'[s] = [sessions[s] EXCEPT !.revoked = TRUE]
    PROVE  TableBounded' /\ Forward
<1>1. ASSUME NEW s \in SessionIds, Exists(s)
      PROVE  /\ sessions[s] \in SessionRow
             /\ Exists(s)'
             /\ sessions'[s].created = sessions[s].created
             /\ sessions'[s].absolute = sessions[s].absolute
             /\ sessions'[s].lastSeen = sessions[s].lastSeen
             /\ sessions'[s].expires = sessions[s].expires
  <2>1. sessions[s] \in SessionRow
    BY <1>1, RowShape
  <2>2. CASE sessions'[s] = sessions[s]
    BY <1>1, <2>1, <2>2 DEF Exists
  <2>3. CASE sessions'[s] = [sessions[s] EXCEPT !.revoked = TRUE]
    <3>1. sessions'[s] # NoSession
      BY <2>1, <2>3 DEF SessionRow, NoSession
    <3>2. QED BY <2>1, <2>3, <3>1 DEF SessionRow, Exists
  <2>4. QED BY <2>2, <2>3
<1>2. \A s \in SessionIds : Exists(s)' => Exists(s)
  BY DEF Exists
<1>3. TableBounded'
  BY <1>1, <1>2 DEF TableBounded, Bounded
<1>4. Forward
  BY <1>1 DEF Forward, TypeOK, SessionRow
<1>5. QED BY <1>3, <1>4

--------------------------------------------------------------------------------
LEMMA InvInit == Init => IInv
BY TypeInit DEF Init, IInv, TableBounded, Exists, CopiesCovered, CopyCovered

LEMMA InvStep == IInv /\ [Next]_vars => IInv'
<1> SUFFICES ASSUME IInv, [Next]_vars PROVE IInv'
  OBVIOUS
<1> USE TTLAssumption
<1>type. TypeOK /\ TypeOK'
  BY TypeStep DEF IInv
<1>nat. clock \in Nat /\ clock' \in Nat
  BY <1>type DEF TypeOK
<1>stay. ASSUME UNCHANGED <<sessions, clock>> PROVE TableBounded' /\ Forward
  <2>1. TableBounded'
    BY <1>stay DEF IInv, TableBounded, Bounded, Exists
  <2>2. \A s \in SessionIds : Exists(s) => sessions[s].lastSeen \in Nat
    BY <1>type, RowShape DEF SessionRow
  <2>3. Forward
    BY <1>stay, <1>nat, <2>2 DEF Forward, Exists
  <2>4. QED BY <2>1, <2>3
(* A step of worker w that is covered afterwards, on a table that moved    *)
(* forward, keeps the invariant.                                           *)
<1>one. ASSUME NEW w \in Workers, NEW state, Become(w, state),
               TableBounded', Forward, CopyCovered(w)'
        PROVE  IInv'
  <2>1. \A v \in Workers \ {w} : work'[v] = work[v]
    BY <1>one, <1>type DEF Become, TypeOK
  <2>2. \A v \in Workers \ {w} : CopyCovered(v)'
    BY <1>one, <1>type, <2>1, CoveredForward DEF IInv, CopiesCovered
  <2>3. QED BY <1>one, <1>type, <2>2 DEF IInv, CopiesCovered
<1>loose. ASSUME NEW w \in Workers, NEW state, Become(w, state),
                 state.pc \notin {"selected", "slide"}
          PROVE  CopyCovered(w)'
  <2>1. work'[w] = state
    BY <1>loose, <1>type DEF Become, TypeOK
  <2>2. QED BY <1>loose, <2>1 DEF CopyCovered
<1>none. ASSUME UNCHANGED work, TableBounded', Forward PROVE IInv'
  <2>1. \A v \in Workers : CopyCovered(v)'
    BY <1>none, <1>type, CoveredForward DEF IInv, CopiesCovered
  <2>2. QED BY <1>none, <1>type, <2>1 DEF IInv, CopiesCovered
<1>1. CASE Tick
  <2>1. \A s \in SessionIds : Exists(s) => sessions[s] \in SessionRow
    BY <1>type, RowShape
  <2>2. clock' = clock + 1 /\ UNCHANGED <<sessions, work>>
    BY <1>1 DEF Tick
  <2>3. TableBounded'
    BY <1>nat, <2>1, <2>2 DEF IInv, TableBounded, Bounded, Exists, SessionRow
  <2>4. Forward
    BY <1>nat, <2>1, <2>2 DEF Forward, Exists, SessionRow
  <2>5. QED BY <2>2, <2>3, <2>4, <1>none
<1>rev. ASSUME NEW u \in Users, sessions' = RevokeAll(u), UNCHANGED clock
        PROVE  TableBounded' /\ Forward
  <2>1. \A s \in SessionIds :
           \/ sessions'[s] = sessions[s]
           \/ Exists(s) /\ sessions'[s] = [sessions[s] EXCEPT !.revoked = TRUE]
    BY <1>rev DEF RevokeAll, OwnedBy
  <2>2. QED BY <1>rev, <1>type, <2>1, RevocationKeepsBounds DEF IInv, TypeOK
<1>2. ASSUME NEW u \in Users, DeleteUser(u) PROVE IInv'
  BY <1>2, <1>rev, <1>none DEF DeleteUser
<1>3. ASSUME NEW s \in SessionIds, LogoutUser(s) PROVE IInv'
  <2>1. \A r \in SessionIds :
           \/ sessions'[r] = sessions[r]
           \/ Exists(r) /\ sessions'[r] = [sessions[r] EXCEPT !.revoked = TRUE]
    BY <1>3, <1>type DEF LogoutUser, TypeOK
  <2>2. UNCHANGED <<clock, work>>
    BY <1>3 DEF LogoutUser
  <2>3. TableBounded' /\ Forward
    BY <1>type, <2>1, <2>2, RevocationKeepsBounds DEF IInv, TypeOK
  <2>4. QED BY <2>2, <2>3, <1>none
<1>4. ASSUME NEW w \in Workers, NEW u \in Users, LoginVerify(w, u) PROVE IInv'
  BY <1>4, <1>stay, <1>loose, <1>one DEF LoginVerify
<1>5. ASSUME NEW w \in Workers, NEW s \in SessionIds, LoginCreate(w, s)
      PROVE  IInv'
  <2> DEFINE new == NewSession(work[w].user, work[w].cred)
  <2>1. clock + IdleTTL \in Nat /\ clock + AbsTTL \in Nat
    BY <1>nat
  <2>2. Bounded(new)
    BY <1>nat, <2>1, EarlierOfBounds DEF NewSession, Bounded
  <2>3. ~Exists(s) /\ UNCHANGED clock /\ sessions' = [sessions EXCEPT ![s] = new]
    BY <1>5 DEF LoginCreate
  <2>4. \A r \in SessionIds \ {s} : sessions'[r] = sessions[r]
    BY <2>3, <1>type DEF TypeOK
  <2>5. sessions'[s] = new
    BY <2>3, <1>type DEF TypeOK
  <2>6. \A r \in SessionIds : Exists(r) => sessions[r] \in SessionRow
    BY <1>type, RowShape
  <2> HIDE DEF new
  <2>7. TableBounded'
    BY <2>2, <2>3, <2>4, <2>5 DEF IInv, TableBounded, Bounded, Exists
  <2>8. Forward
    BY <1>nat, <2>3, <2>4, <2>6 DEF Forward, Exists, SessionRow
  <2>9. QED BY <1>5, <2>7, <2>8, <1>loose, <1>one DEF LoginCreate
<1>6. ASSUME NEW w \in Workers, NEW s \in SessionIds, ValidateSelect(w, s)
      PROVE  IInv'
  <2>1. Exists(s) /\ Become(w, Selected(s)) /\ UNCHANGED <<sessions, clock>>
    BY <1>6 DEF ValidateSelect
  <2>2. /\ work'[w].pc = "selected" /\ work'[w].sid = s
        /\ work'[w].expires = sessions[s].expires
        /\ work'[w].absolute = sessions[s].absolute
    BY <2>1, <1>type DEF Become, Selected, TypeOK
  <2>3. sessions[s] \in SessionRow /\ Bounded(sessions[s])
    BY <2>1, <1>type, RowShape DEF IInv, TableBounded
  <2>4. CopyCovered(w)'
    BY <2>1, <2>2, <2>3 DEF CopyCovered, Exists, Bounded, SessionRow
  <2>5. QED BY <2>1, <2>4, <1>stay, <1>one
<1>7. ASSUME NEW w \in Workers, ValidateCheck(w) PROVE IInv'
  <2> DEFINE state == [pc |-> "slide", sid |-> work[w].sid,
                       user |-> work[w].user, at |-> clock,
                       to |-> SlideTo(work[w])]
  <2>1. work[w] \in [pc : {"selected"}, sid : SessionIds, user : Users,
                     expires : Nat, absolute : Nat]
    BY <1>7, <1>type, WorkShape DEF ValidateCheck
  <2>2. UNCHANGED <<sessions, clock>>
    BY <1>7 DEF ValidateCheck
  <2>3. CASE Become(w, [pc |-> "idle"])
    BY <2>2, <2>3, <1>stay, <1>loose, <1>one
  <2>4. CASE ~Expired(work[w]) /\ Become(w, state)
    <3>1. work'[w] = state
      BY <2>4, <1>type DEF Become, TypeOK
    <3>2. /\ Exists(work[w].sid)
          /\ work[w].expires <= sessions[work[w].sid].lastSeen + IdleTTL
          /\ work[w].absolute = sessions[work[w].sid].absolute
      BY <2>1 DEF IInv, CopiesCovered, CopyCovered
    <3>3. /\ work[w].expires \in Nat /\ work[w].absolute \in Nat
          /\ sessions[work[w].sid] \in SessionRow
          /\ Bounded(sessions[work[w].sid])
      BY <2>1, <3>2, <1>type, RowShape DEF IInv, TableBounded
    <3>4. SlideTo(work[w]) <= clock + IdleTTL /\ SlideTo(work[w]) <= work[w].absolute
      <4>1. clock + IdleTTL \in Nat /\ work[w].absolute \in Nat
        BY <3>3, <1>nat
      <4>2. QED BY <4>1, EarlierOfBounds DEF SlideTo
    <3>5. clock < work[w].absolute /\ clock < work[w].expires
      BY <2>4, <3>3, <1>nat DEF Expired
    <3>6. clock < sessions[work[w].sid].lastSeen + IdleTTL
      BY <3>2, <3>3, <3>5, <1>nat DEF SessionRow
    <3>7. clock < sessions[work[w].sid].created + AbsTTL
      BY <3>2, <3>3, <3>5, <1>nat DEF Bounded, SessionRow
    <3>8. /\ work'[w].pc = "slide" /\ work'[w].sid = work[w].sid
          /\ work'[w].at = clock /\ work'[w].to = SlideTo(work[w])
      BY <3>1
    <3>9. CopyCovered(w)'
      BY <2>2, <3>2, <3>4, <3>6, <3>7, <3>8, <1>nat DEF CopyCovered, Exists
    <3>10. QED BY <2>2, <2>4, <3>9, <1>stay, <1>one
  <2>5. QED BY <1>7, <2>3, <2>4 DEF ValidateCheck
<1>8. ASSUME NEW w \in Workers, ValidateSlide(w) PROVE IInv'
  <2>1. work[w] \in [pc : {"slide"}, sid : SessionIds, user : Users,
                     at : Nat, to : Nat]
    BY <1>8, <1>type, WorkShape DEF ValidateSlide
  <2>s. PICK s \in SessionIds : s = work[w].sid
    BY <2>1
  <2> DEFINE state == [pc |-> "admitted", sid |-> s, user |-> work[w].user]
  <2>2. /\ Exists(s) /\ work[w].at <= clock
        /\ work[w].to <= work[w].at + IdleTTL
        /\ work[w].to <= sessions[s].absolute
    BY <2>1, <2>s DEF IInv, CopiesCovered, CopyCovered
  <2>3. sessions[s] \in SessionRow /\ Bounded(sessions[s]) /\ s \in SessionIds
    BY <2>1, <2>2, <1>type, RowShape DEF IInv, TableBounded
  <2>4. Become(w, state) /\ UNCHANGED clock
    BY <1>8, <2>s DEF ValidateSlide
  <2>5. TableBounded' /\ Forward
    <3>1. CASE sessions' = sessions
      BY <3>1, <2>4, <1>stay
    <3>2. CASE sessions' = [sessions EXCEPT ![s].expires = work[w].to,
                                            ![s].lastSeen = clock]
      <4>1. /\ sessions'[s].expires = work[w].to
            /\ sessions'[s].lastSeen = clock
            /\ sessions'[s].created = sessions[s].created
            /\ sessions'[s].absolute = sessions[s].absolute
            /\ sessions'[s] # NoSession
        BY <2>3, <3>2, <1>type DEF TypeOK, SessionRow, NoSession
      <4>2. \A r \in SessionIds \ {s} : sessions'[r] = sessions[r]
        BY <2>3, <3>2, <1>type DEF TypeOK
      <4>3. \A r \in SessionIds : Exists(r) => sessions[r] \in SessionRow
        BY <1>type, RowShape
      <4>4. Bounded(sessions[s])'
        BY <1>nat, <2>1, <2>2, <2>3, <2>4, <4>1 DEF Bounded, SessionRow
      <4>5. TableBounded'
        BY <2>4, <4>2, <4>4 DEF IInv, TableBounded, Bounded, Exists
      <4>6. Forward
        BY <1>nat, <2>3, <2>4, <4>1, <4>2, <4>3
           DEF Forward, Bounded, Exists, SessionRow
      <4>7. QED BY <4>5, <4>6
    <3>3. QED BY <1>8, <2>s, <3>1, <3>2 DEF ValidateSlide
  <2>6. QED BY <2>4, <2>5, <1>loose, <1>one
<1>9. ASSUME NEW w \in Workers, Served(w) \/ Abort(w) PROVE IInv'
  BY <1>9, <1>stay, <1>loose, <1>one DEF Served, Abort
<1>10. ASSUME NEW w \in Workers, PasswordVerify(w) PROVE IInv'
  BY <1>10, <1>stay, <1>loose, <1>one DEF PasswordVerify
<1>11. ASSUME NEW w \in Workers, PasswordUpdate(w) PROVE IInv'
  <2>1. CopyCovered(w)' /\ \E state : Become(w, state)
    BY <1>11, <1>loose DEF PasswordUpdate
  <2>2. QED BY <1>11, <2>1, <1>stay, <1>one DEF PasswordUpdate
<1>12. ASSUME NEW w \in Workers, PasswordRevoke(w) PROVE IInv'
  <2>1. work[w].user \in Users
    BY <1>12, <1>type, WorkShape DEF PasswordRevoke
  <2>2. QED BY <1>12, <2>1, <1>rev, <1>loose, <1>one DEF PasswordRevoke
<1>13. CASE UNCHANGED vars
  BY <1>13, <1>stay, <1>none DEF vars
<1>14. QED
  BY <1>1, <1>2, <1>3, <1>4, <1>5, <1>6, <1>7, <1>8, <1>9, <1>10, <1>11, <1>12,
     <1>13 DEF Next

(* No request passes a validation outside the idle and absolute limits of  *)
(* its session, and no slide is stored beyond the absolute one, for any    *)
(* TTLs and any interleaving of validations.                               *)
THEOREM SessionLifetimeHolds == Spec => []SessionLifetime
<1>1. IInv => SessionLifetime
  <2> SUFFICES ASSUME IInv PROVE SessionLifetime
    OBVIOUS
  <2>1. \A s \in SessionIds :
           Exists(s) => sessions[s] \in SessionRow /\ Bounded(sessions[s])
    BY RowShape DEF IInv, TableBounded
  <2>2. \A s \in SessionIds :
           Exists(s) => sessions[s].expires <= sessions[s].created + AbsTTL
    BY <2>1, TTLAssumption DEF Bounded, SessionRow
  <2>3. QED BY <2>2 DEF IInv, CopiesCovered, CopyCovered, SessionLifetime
<1>2. QED BY <1>1, InvInit, InvStep, PTL DEF Spec

(* A revoked row is never written again. *)
THEOREM RevokedRowsFrozenHolds == Spec => RevokedRowsFrozen
<1> DEFINE Frozen == \A s \in SessionIds :
              Exists(s) /\ sessions[s].revoked => sessions'[s] = sessions[s]
<1>1. TypeOK /\ [Next]_vars => Frozen
  <2> SUFFICES ASSUME TypeOK, [Next]_vars, NEW s \in SessionIds,
                      Exists(s), sessions[s].revoked
               PROVE  sessions'[s] = sessions[s]
    OBVIOUS
  <2>1. sessions[s] \in SessionRow
    BY RowShape
  <2>2. [sessions[s] EXCEPT !.revoked = TRUE] = sessions[s]
    BY <2>1 DEF SessionRow
  <2>3. ASSUME NEW u, sessions' = RevokeAll(u) PROVE sessions'[s] = sessions[s]
    BY <2>2, <2>3 DEF RevokeAll
  <2>4. ASSUME NEW r \in SessionIds, LogoutUser(r) PROVE sessions'[s] = sessions[s]
    BY <2>2, <2>4 DEF LogoutUser, TypeOK
  <2>5. ASSUME NEW w \in Workers, NEW r \in SessionIds, LoginCreate(w, r)
        PROVE  sessions'[s] = sessions[s]
    BY <2>5 DEF LoginCreate, TypeOK
  <2>6. ASSUME NEW w \in Workers, ValidateSlide(w) PROVE sessions'[s] = sessions[s]
    BY <2>6 DEF ValidateSlide, TypeOK
  <2>7. QED
    BY <2>3, <2>4, <2>5, <2>6
       DEF Next, vars, Tick, DeleteUser, LoginVerify, ValidateSelect,
           ValidateCheck, Served, PasswordVerify, PasswordUpdate,
           PasswordRevoke, Abort
<1>2. TypeOK /\ [Next]_vars => [Frozen]_vars
  BY <1>1
<1>3. QED BY <1>2, TypeInit, TypeStep, PTL DEF Spec, RevokedRowsFrozen

--------------------------------------------------------------------------------
(* A password change is remembered with a time that has come. *)
ChangesPast == \A u \in Users : changed[u].at <= clock

ChangeInv == SessionsPredatingChangeDie /\ ChangesPast

(* Where a live session comes from: it was live before, of the same user,  *)
(* with the same password behind it, and no change of that password has    *)
(* been answered in this step; or a login inserts it now.                  *)
Accounted(s) ==
    \/ /\ Exists(s) /\ ~sessions[s].revoked
       /\ sessions'[s].user = sessions[s].user
       /\ sessions'[s].cred = sessions[s].cred
       /\ sessions'[s].created = sessions[s].created
       /\ changed'[sessions[s].user] = changed[sessions[s].user]
    \/ /\ sessions'[s].created = clock
       /\ sessions'[s].user \in Users
       /\ UNCHANGED changed

LEMMA LiveSessionsAccounted ==
    ASSUME TypeOK, [Next]_vars, NEW s \in SessionIds,
           Exists(s)', ~sessions'[s].revoked
    PROVE  Accounted(s)
<1>same. ASSUME UNCHANGED <<sessions, changed>> PROVE Accounted(s)
  BY <1>same DEF Accounted, Exists
<1>row. Exists(s) => sessions[s] \in SessionRow
  BY RowShape
<1>1. ASSUME NEW u \in Users, DeleteUser(u) PROVE Accounted(s)
  BY <1>1, <1>row DEF DeleteUser, RevokeAll, OwnedBy, Accounted, Exists, SessionRow
<1>2. ASSUME NEW r \in SessionIds, LogoutUser(r) PROVE Accounted(s)
  <2>1. CASE UNCHANGED sessions
    BY <1>2, <2>1, <1>same DEF LogoutUser
  <2>2. CASE sessions' = [sessions EXCEPT ![r].revoked = TRUE]
    <3>1. sessions[r] \in SessionRow
      BY <1>2, RowShape DEF LogoutUser
    <3>2. r # s
      BY <2>2, <3>1 DEF SessionRow, TypeOK
    <3>3. sessions'[s] = sessions[s]
      BY <2>2, <3>2 DEF TypeOK
    <3>4. QED BY <1>2, <3>3 DEF LogoutUser, Accounted, Exists
  <2>3. QED BY <1>2, <2>1, <2>2 DEF LogoutUser
<1>3. ASSUME NEW w \in Workers, NEW r \in SessionIds, LoginCreate(w, r)
      PROVE  Accounted(s)
  <2>1. work[w].user \in Users
    BY <1>3, WorkShape DEF LoginCreate
  <2>2. CASE r = s
    BY <1>3, <2>1, <2>2 DEF LoginCreate, NewSession, Accounted, TypeOK
  <2>3. CASE r # s
    <3>1. sessions'[s] = sessions[s]
      BY <1>3, <2>3 DEF LoginCreate, TypeOK
    <3>2. QED BY <1>3, <3>1 DEF LoginCreate, Accounted, Exists
  <2>4. QED BY <2>2, <2>3
<1>4. ASSUME NEW w \in Workers, ValidateSlide(w) PROVE Accounted(s)
  <2>1. UNCHANGED changed
    BY <1>4 DEF ValidateSlide
  <2>2. CASE sessions'[s] = sessions[s]
    BY <2>1, <2>2 DEF Accounted, Exists
  <2>3. CASE sessions'[s] # sessions[s]
    <3>1. /\ work[w].sid = s /\ ~sessions[s].revoked
          /\ sessions' = [sessions EXCEPT ![s].expires = work[w].to,
                                          ![s].lastSeen = clock]
      BY <1>4, <2>3 DEF ValidateSlide, TypeOK
    <3>2. CASE sessions[s] \in SessionRow
      BY <2>1, <3>1, <3>2 DEF TypeOK, Accounted, Exists, SessionRow, NoSession
    <3>3. CASE sessions[s] = NoSession
      BY <2>3, <3>1, <3>3 DEF TypeOK, NoSession
    <3>4. QED BY <3>2, <3>3 DEF TypeOK
  <2>4. QED BY <2>2, <2>3
<1>5. ASSUME NEW w \in Workers, PasswordRevoke(w) PROVE Accounted(s)
  <2>1. ~OwnedBy(s, work[w].user) /\ sessions'[s] = sessions[s]
    BY <1>5, <1>row DEF PasswordRevoke, RevokeAll, OwnedBy, SessionRow
  <2>2. changed'[sessions[s].user] = changed[sessions[s].user]
    BY <1>5, <1>row, <2>1 DEF PasswordRevoke, OwnedBy, TypeOK, Exists, SessionRow
  <2>3. QED BY <2>1, <2>2 DEF Accounted, Exists
<1>6. QED
  BY <1>same, <1>1, <1>2, <1>3, <1>4, <1>5
     DEF Next, vars, Tick, LoginVerify, ValidateSelect, ValidateCheck, Served,
         PasswordVerify, PasswordUpdate, Abort

LEMMA ChangeInvStep ==
    ASSUME TypeOK, ChangeInv, [Next]_vars
    PROVE  ChangeInv'
<1>type. TypeOK'
  BY TypeStep
<1>nat. clock \in Nat /\ clock' \in Nat /\ clock <= clock'
  <2>1. clock \in Nat /\ clock' \in Nat
    BY <1>type DEF TypeOK
  <2>2. CASE Tick
    BY <2>1, <2>2 DEF Tick
  <2>3. CASE ~Tick
    <3>1. UNCHANGED clock
      BY <2>3 DEF Next, vars, DeleteUser, LogoutUser, LoginVerify,
         LoginCreate, ValidateSelect, ValidateCheck, ValidateSlide, Served,
         PasswordVerify, PasswordUpdate, PasswordRevoke, Abort
    <3>2. QED BY <2>1, <3>1
  <2>4. QED BY <2>2, <2>3
<1>1. ASSUME NEW u \in Users PROVE changed'[u].at <= clock'
  <2>1. changed[u].at <= clock /\ changed[u].at \in Nat
    BY DEF ChangeInv, ChangesPast, TypeOK
  <2>2. CASE \E w \in Workers : PasswordRevoke(w)
    <3>1. changed'[u] = changed[u] \/ changed'[u].at = clock
      BY <2>2 DEF PasswordRevoke, TypeOK
    <3>2. QED BY <1>nat, <2>1, <3>1
  <2>3. CASE ~\E w \in Workers : PasswordRevoke(w)
    <3>1. UNCHANGED changed
      BY <2>3 DEF Next, vars, Tick, DeleteUser, LogoutUser, LoginVerify,
         LoginCreate, ValidateSelect, ValidateCheck, ValidateSlide, Served,
         PasswordVerify, PasswordUpdate, Abort
    <3>2. QED BY <1>nat, <2>1, <3>1
  <2>4. QED BY <2>2, <2>3
<1>2. ASSUME NEW s \in SessionIds, Exists(s)', ~sessions'[s].revoked,
             sessions'[s].cred < changed'[sessions'[s].user].version
      PROVE  sessions'[s].created >= changed'[sessions'[s].user].at
  <2>1. Accounted(s)
    BY <1>2, LiveSessionsAccounted
  <2>2. CASE Exists(s) /\ ~sessions[s].revoked
             /\ sessions'[s].user = sessions[s].user
             /\ sessions'[s].cred = sessions[s].cred
             /\ sessions'[s].created = sessions[s].created
             /\ changed'[sessions[s].user] = changed[sessions[s].user]
    BY <1>2, <2>2 DEF ChangeInv, SessionsPredatingChangeDie
  <2>3. CASE sessions'[s].created = clock /\ sessions'[s].user \in Users
             /\ UNCHANGED changed
    BY <2>3, <1>nat DEF ChangeInv, ChangesPast, TypeOK
  <2>4. QED BY <2>1, <2>2, <2>3 DEF Accounted
<1>3. QED BY <1>1, <1>2 DEF ChangeInv, ChangesPast, SessionsPredatingChangeDie

(* Whatever else is in flight, the sessions that existed when a password   *)
(* change was answered are dead for good: a live session opened with an    *)
(* older password was inserted afterwards.                                 *)
THEOREM SessionsPredatingChangeDieHolds == Spec => []SessionsPredatingChangeDie
<1>1. Init => ChangeInv
  BY DEF Init, ChangeInv, SessionsPredatingChangeDie, ChangesPast, Exists
<1>2. TypeOK /\ ChangeInv /\ [Next]_vars => ChangeInv'
  BY ChangeInvStep
<1>3. ChangeInv => SessionsPredatingChangeDie
  BY DEF ChangeInv
<1>4. QED BY <1>1, <1>2, <1>3, TypeInit, TypeStep, PTL DEF Spec
================================================================================
