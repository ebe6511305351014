---------------------------- MODULE SessionProofs -----------------------------
(***************************************************************************)
(* Proofs about the layers of a session, for every size of the gateway's   *)
(* pool, any number of cookies, any length of a command and any walk: the  *)
(* client, the coordinator of the commands above it, and a sweep above     *)
(* both.                                                                   *)
(*                                                                         *)
(* A write is performed at most once, a failed one shows whether it may    *)
(* have been performed, logins are bounded, and the outcome of an          *)
(* operation agrees with the session it leaves.  A refused session is not  *)
(* left in the cache, no slot is left behind, and a recorded full pool     *)
(* keeps every command away, under single commands and under sweeps; a     *)
(* full pool or a refused login, met on any page under any fallback, ends  *)
(* the walk at once.                                                       *)
(*                                                                         *)
(* None of these is inductive: ClientInv is, with SessionKnown (whose      *)
(* session a cookie is), OperationKnown (which operation can be at which   *)
(* point), WriteKnown (what is left of its logins) and FlagKnown (what the *)
(* client's flag vouches for), and so are CoordinatorInv and SweepInv      *)
(* above it.  Each part has a step lemma of its own, so that the layers    *)
(* above can cite the parts they share.                                    *)
(***************************************************************************)
EXTENDS Sweep, TLAPS

-----------------------------------------------------------------------------
(* The records of an operation                                             *)

\* A counted login changes the counter and the point after it, nothing else.
LEMMA LoginCountedFields ==
  ASSUME NEW o \in Ops, NEW p \in Points
  PROVE  /\ LoginCounted(o, p) \in Ops
         /\ LoginCounted(o, p).kind = o.kind
         /\ LoginCounted(o, p).after = p
         /\ LoginCounted(o, p).logins = o.logins + 1
         /\ LoginCounted(o, p).sends = o.sends
         /\ LoginCounted(o, p).answers = o.answers
         /\ LoginCounted(o, p).last = o.last
         /\ LoginCounted(o, p).held = o.held
         /\ LoginCounted(o, p).flag = o.flag
<1> DEFINE counted(n) == [o EXCEPT !.logins = n, !.after = p]
<1>1. o.logins + 1 \in Nat
  BY DEF Ops
<1>2. LoginCounted(o, p) = counted(o.logins + 1)
  BY DEF LoginCounted
<1>3. ASSUME NEW n \in Nat
      PROVE  counted(n) \in Ops
  BY ZenonT(60) DEF Ops
<1>4. ASSUME NEW n \in Nat
      PROVE  /\ counted(n).kind = o.kind /\ counted(n).after = p
             /\ counted(n).logins = n /\ counted(n).sends = o.sends
             /\ counted(n).answers = o.answers /\ counted(n).last = o.last
             /\ counted(n).held = o.held /\ counted(n).flag = o.flag
  BY DEF Ops
<1> HIDE DEF counted
<1>q. QED
  BY <1>1, <1>2, <1>3, <1>4

\* A POST counts itself and its answer, if one came, and changes nothing else.
LEMMA SentFields ==
  ASSUME op \in Ops, NEW a \in Answers
  PROVE  /\ Sent(a) \in Ops
         /\ Sent(a).kind = op.kind
         /\ Sent(a).after = op.after
         /\ Sent(a).logins = op.logins
         /\ Sent(a).sends = op.sends + 1
         /\ a = "none" => Sent(a).answers = op.answers
         /\ a # "none" => Sent(a).answers = op.answers + 1
         /\ Sent(a).last = a
         /\ Sent(a).held = op.held
         /\ Sent(a).flag = op.flag
<1> DEFINE sent(n, m) == [op EXCEPT !.sends = n, !.last = a, !.answers = m]
           m == IF a = "none" THEN op.answers ELSE op.answers + 1
<1>1. op.sends + 1 \in Nat /\ op.answers \in Nat /\ m \in Nat
  BY DEF Ops
<1>2. Sent(a) = sent(op.sends + 1, m)
  BY DEF Sent
<1>3. ASSUME NEW i \in Nat, NEW j \in Nat
      PROVE  sent(i, j) \in Ops
  BY ZenonT(60) DEF Ops
<1>4. ASSUME NEW i \in Nat, NEW j \in Nat
      PROVE  /\ sent(i, j).kind = op.kind /\ sent(i, j).after = op.after
             /\ sent(i, j).logins = op.logins /\ sent(i, j).sends = i
             /\ sent(i, j).answers = j /\ sent(i, j).last = a
             /\ sent(i, j).held = op.held /\ sent(i, j).flag = op.flag
  BY DEF Ops
<1> HIDE DEF sent
<1>q. QED
  BY <1>1, <1>2, <1>3, <1>4

\* A new operation has done nothing yet.
LEMMA NewFields ==
  ASSUME NEW k \in Kinds
  PROVE  /\ New(k) \in Ops
         /\ New(k).kind = k /\ New(k).after = "idle"
         /\ New(k).logins = 0 /\ New(k).sends = 0
         /\ New(k).answers = 0 /\ New(k).last = "none"
         /\ New(k).held = NoSid /\ New(k).flag = FALSE
BY DEF New, NoOp, Ops, Points, Answers

\* An operation that begins remembers the session it began with.
LEMMA BegunFields ==
  ASSUME jar \in Sids \cup {NoSid}, auth \in BOOLEAN, NEW k \in Kinds
  PROVE  /\ Begun(k) \in Ops
         /\ Begun(k).kind = k /\ Begun(k).after = "idle"
         /\ Begun(k).logins = 0 /\ Begun(k).sends = 0
         /\ Begun(k).answers = 0 /\ Begun(k).last = "none"
         /\ Begun(k).held = jar /\ Begun(k).flag = auth
BY DEF Begun, New, NoOp, Ops, Points, Answers

\* A cookie that the gateway deals was never dealt before.
LEMMA DealFields ==
  ASSUME TypeOK, Deal
  PROVE  /\ gw' \in [live : SUBSET Sids, others : 0..Slots, dealt : 0..MaxSids]
         /\ gw'.live = gw.live
         /\ gw'.dealt = gw.dealt + 1
         /\ jar' \in Sids /\ jar' = gw.dealt + 1 /\ jar' # NoSid
<1>1. /\ gw.dealt \in Nat /\ gw.dealt < MaxSids
  BY ClientAssumption DEF TypeOK, Deal
<1>2. gw.dealt + 1 \in 0..MaxSids /\ gw.dealt + 1 \in 1..MaxSids
  BY <1>1, ClientAssumption
<1>q. QED
  BY <1>1, <1>2 DEF TypeOK, Deal, Sids, NoSid

-----------------------------------------------------------------------------
(* The steps                                                               *)

\* Every step keeps the types.  A login is only submitted with a cookie, so
\* what becomes live is a session (SessionKnown).
LEMMA TypeStep ==
  ASSUME TypeOK, SessionKnown, [Next]_vars
  PROVE  TypeOK'
<1> USE DEF TypeOK, Goto, End
<1>0. /\ {"idle", "get", "retry", "handshake", "wait", "submit", "write",
          "probe", "probeWait", "reprobe"} \subseteq Points
      /\ op.after \in Points
  BY DEF Points, Ops
<1>1. ASSUME BeginOperation
      PROVE  TypeOK'
  <2>1. CASE BeginGet \/ BeginProbe
    BY <2>1, <1>0, BegunFields DEF BeginGet, BeginProbe, Kinds, session
  <2>2. CASE BeginPost
    <3>1. /\ Begun("post") \in Ops
          /\ LoginCounted(New("post"), "get") \in Ops
      BY <1>0, BegunFields, NewFields, LoginCountedFields DEF Kinds
    <3>2. CASE HasSession
      BY <2>2, <1>0, <3>1, <3>2 DEF BeginPost, session
    <3>3. CASE ~HasSession
      BY <2>2, <1>0, <3>1, <3>3 DEF BeginPost, session, Outcomes
    <3>q. QED
      BY <3>2, <3>3
  <2>3. CASE BeginLogin
    <3>1. LoginCounted(New("login"), "idle") \in Ops
      BY <1>0, NewFields, LoginCountedFields DEF Kinds
    <3>q. QED
      BY <2>3, <1>0, <3>1 DEF BeginLogin, Outcomes
  <2>q. QED
    BY <1>1, <2>1, <2>2, <2>3 DEF BeginOperation
<1>2. ASSUME \/ PageServed \/ PageForbidden \/ ReadFails \/ PagePoolFull
             \/ PageBounced \/ PageBouncedWithError \/ RetryBounced
      PROVE  TypeOK'
  <2>0. LoginCounted(op, "retry") \in Ops
    BY <1>0, LoginCountedFields
  <2>1. CASE \/ PageServed \/ PageForbidden \/ ReadFails
             \/ PageBouncedWithError \/ RetryBounced
    BY <2>1, <1>0
       DEF PageServed, PageForbidden, ReadFails, PageBouncedWithError,
           RetryBounced, Read, ClearSession, NoteRefusal, Unread, session,
           Outcomes
  <2>2. CASE PagePoolFull
    BY <2>2, <1>0, <2>0
       DEF PagePoolFull, Login, ClearSession, NoteRefusal, Outcomes
  <2>3. CASE PageBounced
    BY <2>3, <1>0, <2>0, DealFields
       DEF PageBounced, Login, ClearSession, NoteRefusal, Outcomes
  <2>q. QED
    BY <1>2, <2>1, <2>2, <2>3
<1>3. ASSUME \/ HandshakeFull \/ HandshakeAnswered \/ SessionFreed \/ WaitOver
             \/ HandshakeFails
      PROVE  TypeOK'
  BY <1>3, <1>0, DealFields
     DEF HandshakeFull, HandshakeAnswered, SessionFreed, WaitOver,
         HandshakeFails, ClearSession, NoteRefusal, Unread, session, Outcomes
<1>4. ASSUME LoginAccepted \/ LoginPoolFull \/ LoginRefused \/ LoginLost
      PROVE  TypeOK'
  <2>1. CASE LoginAccepted
    BY <2>1, <1>0 DEF LoginAccepted, SessionKnown, Outcomes
  <2>2. CASE LoginLost
    BY <2>2, <1>0 DEF LoginLost, SessionKnown, session, Outcomes
  <2>3. CASE LoginPoolFull \/ LoginRefused
    BY <2>3, <1>0
       DEF LoginPoolFull, LoginRefused, ClearSession, Unread, Outcomes
  <2>q. QED
    BY <1>4, <2>1, <2>2, <2>3
<1>5. ASSUME \/ NoncePageRefused \/ WriteAccepted \/ WriteForbidden
             \/ WriteErrored \/ WriteLost \/ WritePoolFull \/ WriteBounced
             \/ WriteRedirected
      PROVE  TypeOK'
  <2>1. /\ \A a \in {"page", "forbidden", "error", "none", "login"} :
             Sent(a) \in Ops
        /\ LoginCounted(Sent("login"), "get") \in Ops
    BY <1>0, SentFields, LoginCountedFields DEF Answers
  <2>2. CASE NoncePageRefused \/ WriteRedirected
    BY <2>2, <1>0, <2>1
       DEF NoncePageRefused, WriteRedirected, ClearSession, NoteRefusal,
           Unread, session, Outcomes
  <2>3. CASE WriteAccepted
    BY <2>3, <1>0, <2>1 DEF WriteAccepted, session, Outcomes
  <2>4. CASE WriteForbidden
    BY <2>4, <1>0, <2>1 DEF WriteForbidden, session, Outcomes
  <2>5. CASE WriteErrored
    BY <2>5, <1>0, <2>1 DEF WriteErrored, session, Outcomes
  <2>6. CASE WriteLost
    BY <2>6, <1>0, <2>1 DEF WriteLost, session, Outcomes
  <2>7. CASE WritePoolFull
    BY <2>7, <1>0, <2>1 DEF WritePoolFull, ClearSession, NoteRefusal, Outcomes
  <2>8. CASE WriteBounced
    BY <2>8, <1>0, <2>1, DealFields
       DEF WriteBounced, ClearSession, NoteRefusal, Outcomes
  <2>q. QED
    BY <1>5, <2>2, <2>3, <2>4, <2>5, <2>6, <2>7, <2>8
<1>6. ASSUME \/ ProbeServed \/ ProbeRefused \/ ProbeUnanswered \/ ProbeFull
             \/ ProbeWaited \/ ProbeWaitOver \/ ProbeWaitRefused
      PROVE  TypeOK'
  BY <1>6, <1>0, DealFields
     DEF ProbeServed, ProbeRefused, ProbeUnanswered, ProbeFull, ProbeWaited,
         ProbeWaitOver, ProbeWaitRefused, Ops, ClearSession, NoteRefusal,
         Unread, session, Outcomes
<1>7. ASSUME Gateway
      PROVE  TypeOK'
  BY <1>7 DEF Gateway, SessionEnds, OthersChange, session
<1>8. CASE UNCHANGED vars
  BY <1>8 DEF vars
<1>q. QED
  BY <1>1, <1>2, <1>3, <1>4, <1>5, <1>6, <1>7, <1>8 DEF Next, Request

\* A request never changes what the operation is, nor the session it is about.
LEMMA RequestKeeps ==
  ASSUME TypeOK, Request
  PROVE  op'.kind = op.kind /\ op'.held = op.held /\ op'.flag = op.flag
<1>1. op \in Ops
  BY DEF TypeOK
<1>2. LET o == LoginCounted(op, "retry")
      IN  o.kind = op.kind /\ o.held = op.held /\ o.flag = op.flag
  BY <1>1, LoginCountedFields DEF Points
<1>3. \A a \in Answers :
        LET o == Sent(a)
        IN  o.kind = op.kind /\ o.held = op.held /\ o.flag = op.flag
  BY <1>1, SentFields
<1>4. LET o == LoginCounted(Sent("login"), "get")
      IN  o.kind = op.kind /\ o.held = op.held /\ o.flag = op.flag
  BY <1>1, SentFields, LoginCountedFields DEF Answers, Points
<1>5. \/ op' \in {op, LoginCounted(op, "retry"),
                  LoginCounted(Sent("login"), "get")}
      \/ \E a \in Answers : op' = Sent(a)
  <2>1. CASE \/ PageServed \/ PageForbidden \/ ReadFails \/ PagePoolFull
             \/ PageBounced \/ PageBouncedWithError \/ RetryBounced
    BY <2>1
       DEF PageServed, PageForbidden, ReadFails, PagePoolFull, PageBounced,
           PageBouncedWithError, RetryBounced, Login, Unread
  <2>2. CASE \/ HandshakeFull \/ HandshakeAnswered \/ SessionFreed \/ WaitOver
             \/ HandshakeFails \/ LoginAccepted \/ LoginPoolFull
             \/ LoginRefused \/ LoginLost
    BY <2>2
       DEF HandshakeFull, HandshakeAnswered, SessionFreed, WaitOver,
           HandshakeFails, LoginAccepted, LoginPoolFull, LoginRefused,
           LoginLost, Unread
  <2>3. CASE \/ NoncePageRefused \/ WriteAccepted \/ WriteForbidden
             \/ WriteErrored \/ WriteLost \/ WritePoolFull \/ WriteBounced
             \/ WriteRedirected
    BY <2>3
       DEF NoncePageRefused, WriteAccepted, WriteForbidden, WriteErrored,
           WriteLost, WritePoolFull, WriteBounced, WriteRedirected, Unread,
           Answers
  <2>4. CASE \/ ProbeServed \/ ProbeRefused \/ ProbeUnanswered \/ ProbeFull
             \/ ProbeWaited \/ ProbeWaitOver \/ ProbeWaitRefused
    BY <2>4
       DEF ProbeServed, ProbeRefused, ProbeUnanswered, ProbeFull, ProbeWaited,
           ProbeWaitOver, ProbeWaitRefused, Unread
  <2>q. QED
    BY <2>1, <2>2, <2>3, <2>4 DEF Request
<1>q. QED
  BY <1>2, <1>3, <1>4, <1>5

\* Every step keeps what is known of the cookies: a dealt cookie is neither
\* live nor refused, and only what is not live is ever refused.
LEMMA SessionStep ==
  ASSUME TypeOK, TypeOK', SessionKnown, OperationKnown, [Next]_vars
  PROVE  SessionKnown'
<1> USE DEF SessionKnown, Probing, LoggingIn, Goto, End, NoSid, Sids
<1>0. /\ jar \in Sids \cup {NoSid} /\ auth \in BOOLEAN
      /\ gw.live \subseteq Sids /\ gw.dealt \in Nat /\ refused \subseteq Sids
      /\ op \in Ops /\ op' \in Ops
      /\ 1..gw.dealt \subseteq Sids
  BY ClientAssumption DEF TypeOK
<1>a. ASSUME Deal
      PROVE  /\ gw'.live = gw.live /\ gw'.dealt = gw.dealt + 1
             /\ jar' = gw.dealt + 1 /\ jar' \in Sids /\ jar' # NoSid
             /\ jar' \in 1..gw'.dealt /\ jar' \notin 1..gw.dealt
             /\ 1..gw.dealt \subseteq 1..gw'.dealt
  BY <1>a, <1>0, DealFields, ClientAssumption DEF Sids
<1>1. ASSUME BeginGet \/ BeginProbe
      PROVE  SessionKnown'
  BY <1>1, <1>0, BegunFields
     DEF BeginGet, BeginProbe, Kinds, HasSession, session
<1>2. ASSUME BeginPost
      PROVE  SessionKnown'
  <2>1. CASE HasSession
    BY <1>2, <1>0, <2>1, BegunFields DEF BeginPost, Kinds, session
  <2>2. CASE ~HasSession
    <3>1. LoginCounted(New("post"), "get").held = NoSid
      BY NewFields, LoginCountedFields DEF Kinds, Points
    <3>q. QED
      BY <1>2, <1>0, <2>2, <3>1 DEF BeginPost
  <2>q. QED
    BY <2>1, <2>2
<1>3. ASSUME BeginLogin
      PROVE  SessionKnown'
  <2>1. LoginCounted(New("login"), "idle").held = NoSid
    BY NewFields, LoginCountedFields DEF Kinds, Points
  <2>q. QED
    BY <1>3, <1>0, <2>1 DEF BeginLogin
<1>4. ASSUME \/ PageServed \/ PageForbidden \/ ReadFails
             \/ PageBouncedWithError \/ RetryBounced
      PROVE  SessionKnown'
  BY <1>4, <1>0
     DEF PageServed, PageForbidden, ReadFails, PageBouncedWithError,
         RetryBounced, Read, ClearSession, NoteRefusal, Unread, session,
         Serves, Bounces
<1>5. ASSUME PagePoolFull
      PROVE  SessionKnown'
  <2>1. op'.held = op.held
    BY <1>5, RequestKeeps DEF Request
  <2>q. QED
    BY <1>5, <1>0, <2>1
       DEF PagePoolFull, Login, ClearSession, NoteRefusal, Serves, PoolFull
<1>6. ASSUME PageBounced
      PROVE  SessionKnown'
  <2>1. op'.held = op.held
    BY <1>6, RequestKeeps DEF Request
  <2>q. QED
    BY <1>6, <1>0, <1>a, <2>1
       DEF PageBounced, Login, NoteRefusal, Serves, Bounces
<1>7. ASSUME \/ HandshakeFull \/ HandshakeAnswered \/ SessionFreed \/ WaitOver
             \/ HandshakeFails
      PROVE  SessionKnown'
  BY <1>7, <1>0, <1>a
     DEF HandshakeFull, HandshakeAnswered, SessionFreed, WaitOver,
         HandshakeFails, ClearSession, Unread, session, Serves
<1>8. ASSUME LoginAccepted \/ LoginPoolFull \/ LoginRefused \/ LoginLost
      PROVE  SessionKnown'
  BY <1>8, <1>0
     DEF LoginAccepted, LoginPoolFull, LoginRefused, LoginLost,
         OperationKnown, ClearSession, Unread, session, TypeOK
<1>9. ASSUME \/ NoncePageRefused \/ WriteAccepted \/ WriteForbidden
             \/ WriteErrored \/ WriteLost \/ WriteRedirected
      PROVE  SessionKnown'
  <2>1. op'.held = op.held
    BY <1>9, RequestKeeps DEF Request
  <2>q. QED
    BY <1>9, <1>0, <2>1
       DEF NoncePageRefused, WriteAccepted, WriteForbidden, WriteErrored,
           WriteLost, WriteRedirected, ClearSession, NoteRefusal, Unread,
           session, Serves, Bounces
<1>10. ASSUME WritePoolFull
      PROVE  SessionKnown'
  <2>1. op'.held = op.held
    BY <1>10, RequestKeeps DEF Request
  <2>q. QED
    BY <1>10, <1>0, <2>1
       DEF WritePoolFull, ClearSession, NoteRefusal, Serves, PoolFull
<1>11. ASSUME WriteBounced
      PROVE  SessionKnown'
  <2>1. op'.held = op.held
    BY <1>11, RequestKeeps DEF Request
  <2>q. QED
    BY <1>11, <1>0, <1>a, <2>1
       DEF WriteBounced, ClearSession, NoteRefusal, Serves, Bounces
<1>12. ASSUME \/ ProbeServed \/ ProbeRefused \/ ProbeUnanswered \/ ProbeFull
             \/ ProbeWaited \/ ProbeWaitOver \/ ProbeWaitRefused
      PROVE  SessionKnown'
  BY <1>12, <1>0, <1>a
     DEF ProbeServed, ProbeRefused, ProbeUnanswered, ProbeFull, ProbeWaited,
         ProbeWaitOver, ProbeWaitRefused, Ops, ClearSession, NoteRefusal,
         Unread, session, Serves, Bounces
<1>13. ASSUME Gateway
      PROVE  SessionKnown'
  BY <1>13, <1>0 DEF Gateway, SessionEnds, OthersChange, session, TypeOK
<1>14. CASE UNCHANGED vars
  BY <1>14 DEF vars
<1>q. QED
  BY <1>1, <1>2, <1>3, <1>4, <1>5, <1>6, <1>7, <1>8, <1>9, <1>10, <1>11,
     <1>12, <1>13, <1>14
     DEF Next, Request, BeginOperation

\* Every step keeps each kind of operation at its own points.
LEMMA OperationStep ==
  ASSUME TypeOK, TypeOK', OperationKnown, [Next]_vars
  PROVE  OperationKnown'
<1> USE DEF OperationKnown, Probing, LoggingIn, Goto, End
<1>0. op \in Ops /\ jar \in Sids \cup {NoSid} /\ auth \in BOOLEAN
  BY DEF TypeOK
<1>1. ASSUME BeginOperation
      PROVE  OperationKnown'
  <2>1. \A k \in Kinds : Begun(k).kind = k
    BY <1>0, BegunFields
  <2>2. \A k \in {"post", "login"}, p \in {"idle", "get"} :
          LET o == LoginCounted(New(k), p) IN o.kind = k /\ o.after = p
    BY NewFields, LoginCountedFields DEF Kinds, Points
  <2>3. CASE BeginGet \/ BeginProbe
    BY <2>3, <2>1 DEF BeginGet, BeginProbe, Kinds
  <2>4. CASE BeginPost
    <3>1. CASE HasSession
      BY <2>1, <2>4, <3>1 DEF BeginPost, Kinds
    <3>2. CASE ~HasSession
      BY <2>2, <2>4, <3>2 DEF BeginPost
    <3>q. QED
      BY <3>1, <3>2
  <2>5. CASE BeginLogin
    BY <2>2, <2>5 DEF BeginLogin
  <2>q. QED
    BY <1>1, <2>3, <2>4, <2>5 DEF BeginOperation
<1>2. ASSUME Request
      PROVE  OperationKnown'
  <2>0. op'.kind = op.kind
    BY <1>2, RequestKeeps
  <2>1. CASE \/ PageServed \/ PageForbidden \/ ReadFails
             \/ PageBouncedWithError \/ RetryBounced
    BY <2>1, <2>0
       DEF PageServed, PageForbidden, ReadFails, PageBouncedWithError,
           RetryBounced, Read, Unread
  <2>2. CASE PagePoolFull \/ PageBounced
    <3>1. LoginCounted(op, "retry").after = "retry"
      BY <1>0, LoginCountedFields DEF Points
    <3>q. QED
      BY <2>0, <2>2, <3>1 DEF PagePoolFull, PageBounced, Login
  <2>3. CASE \/ HandshakeFull \/ HandshakeAnswered \/ SessionFreed \/ WaitOver
             \/ HandshakeFails \/ LoginAccepted \/ LoginPoolFull
             \/ LoginRefused \/ LoginLost
    BY <2>3
       DEF HandshakeFull, HandshakeAnswered, SessionFreed, WaitOver,
           HandshakeFails, LoginAccepted, LoginPoolFull, LoginRefused,
           LoginLost, Unread
  <2>4. CASE \/ NoncePageRefused \/ WriteAccepted \/ WriteForbidden
             \/ WriteErrored \/ WriteLost \/ WriteRedirected
    BY <2>0, <2>4
       DEF NoncePageRefused, WriteAccepted, WriteForbidden, WriteErrored,
           WriteLost, WriteRedirected, Unread
  <2>5. CASE WritePoolFull \/ WriteBounced
    <3>1. LoginCounted(Sent("login"), "get").after = "get"
      BY <1>0, SentFields, LoginCountedFields DEF Answers, Points
    <3>q. QED
      BY <2>0, <2>5, <3>1 DEF WritePoolFull, WriteBounced
  <2>6. CASE \/ ProbeServed \/ ProbeRefused \/ ProbeUnanswered \/ ProbeFull
             \/ ProbeWaited \/ ProbeWaitOver \/ ProbeWaitRefused
    BY <2>6
       DEF ProbeServed, ProbeRefused, ProbeUnanswered, ProbeFull, ProbeWaited,
           ProbeWaitOver, ProbeWaitRefused, Unread
  <2>q. QED
    BY <1>2, <2>1, <2>2, <2>3, <2>4, <2>5, <2>6 DEF Request
<1>3. CASE Gateway \/ UNCHANGED vars
  BY <1>3 DEF Gateway, SessionEnds, OthersChange, vars
<1>q. QED
  BY <1>1, <1>2, <1>3 DEF Next

\* Every step keeps the flag honest, whatever set of sessions is excepted.
LEMMA FlagStep ==
  ASSUME NEW known, TypeOK, SessionKnown, OperationKnown, FlagKnown(known),
         [Next]_vars
  PROVE  FlagKnown(known)'
<1> USE DEF FlagKnown, Probing, Goto, End
<1>0. /\ op \in Ops /\ jar \in Sids \cup {NoSid} /\ auth \in BOOLEAN
      /\ NoSid \notin Sids
  BY DEF TypeOK, Sids, NoSid
<1>1. ASSUME BeginOperation
      PROVE  FlagKnown(known)'
  <2>1. CASE BeginProbe
    <3>1. Begun("probe").held = jar /\ Begun("probe").flag = auth
      BY <1>0, BegunFields DEF Kinds
    <3>q. QED
      BY <2>1, <3>1 DEF BeginProbe, session
  <2>2. CASE BeginGet \/ BeginPost \/ BeginLogin
    BY <2>2 DEF BeginGet, BeginPost, BeginLogin, session
  <2>q. QED
    BY <1>1, <2>1, <2>2 DEF BeginOperation
<1>2. ASSUME Request
      PROVE  FlagKnown(known)'
  <2>0. op'.held = op.held /\ op'.flag = op.flag
    BY <1>2, RequestKeeps
  <2>1. CASE \/ PageServed \/ PageForbidden \/ ReadFails \/ PagePoolFull
             \/ PageBounced \/ PageBouncedWithError \/ RetryBounced
    BY <2>1
       DEF PageServed, PageForbidden, ReadFails, PagePoolFull, PageBounced,
           PageBouncedWithError, RetryBounced, Read, Login, ClearSession,
           Unread, session
  <2>2. CASE \/ HandshakeFull \/ HandshakeAnswered \/ SessionFreed \/ WaitOver
             \/ HandshakeFails
    BY <2>2
       DEF HandshakeFull, HandshakeAnswered, SessionFreed, WaitOver,
           HandshakeFails, SessionKnown, LoggingIn, ClearSession, Unread,
           session
  <2>3. CASE LoginAccepted \/ LoginPoolFull \/ LoginRefused \/ LoginLost
    BY <2>3
       DEF LoginAccepted, LoginPoolFull, LoginRefused, LoginLost,
           SessionKnown, OperationKnown, LoggingIn, ClearSession, Unread,
           session
  <2>4. CASE \/ NoncePageRefused \/ WriteAccepted \/ WriteForbidden
             \/ WriteErrored \/ WriteLost \/ WriteRedirected
    BY <2>4
       DEF NoncePageRefused, WriteAccepted, WriteForbidden, WriteErrored,
           WriteLost, WriteRedirected, ClearSession, NoteRefusal, Unread,
           session
  <2>5. CASE WritePoolFull \/ WriteBounced
    BY <2>5 DEF WritePoolFull, WriteBounced, ClearSession
  <2>6. CASE \/ ProbeServed \/ ProbeRefused \/ ProbeUnanswered \/ ProbeFull
             \/ ProbeWaitOver \/ ProbeWaitRefused
    BY <2>0, <2>6, <1>0
       DEF ProbeServed, ProbeRefused, ProbeUnanswered, ProbeFull,
           ProbeWaitOver, ProbeWaitRefused, ClearSession, Unread, session
  <2>7. CASE ProbeWaited
    <3>1. Deal => jar' \notin refused
      BY DealFields DEF SessionKnown, TypeOK
    <3>q. QED
      BY <2>0, <2>7, <3>1 DEF ProbeWaited
  <2>q. QED
    BY <1>2, <2>1, <2>2, <2>3, <2>4, <2>5, <2>6, <2>7 DEF Request
<1>3. CASE Gateway \/ UNCHANGED vars
  BY <1>3 DEF Gateway, SessionEnds, OthersChange, vars, session
<1>q. QED
  BY <1>1, <1>2, <1>3 DEF Next

\* Every step keeps the counts of a write.  It is sent again only after a
\* Login page, which the gateway gives without performing anything.
LEMMA WriteStep ==
  ASSUME TypeOK, OperationKnown, WriteKnown, [Next]_vars
  PROVE  WriteKnown'
<1> USE DEF WriteKnown, PerformedAtMostOnce, EvidenceIsHonest, LoginsBounded,
            Unanswered, Over, Goto, End
<1>0. /\ op \in Ops /\ jar \in Sids \cup {NoSid} /\ auth \in BOOLEAN
      /\ op.logins \in Nat /\ op.sends \in Nat /\ op.answers \in Nat
      /\ performed \in Nat
  BY DEF TypeOK, Ops
<1>1. ASSUME BeginOperation
      PROVE  WriteKnown'
  <2>1. \A k \in Kinds :
          LET o == Begun(k)
          IN  /\ o.kind = k /\ o.after = "idle"
              /\ o.logins = 0 /\ o.sends = 0 /\ o.answers = 0
    BY <1>0, BegunFields
  <2>2. \A k \in {"post", "login"}, p \in {"idle", "get"} :
          LET o == LoginCounted(New(k), p)
          IN  /\ o.kind = k /\ o.after = p
              /\ o.logins = 1 /\ o.sends = 0 /\ o.answers = 0
    BY NewFields, LoginCountedFields DEF Kinds, Points
  <2>3. CASE BeginGet \/ BeginProbe
    BY <2>3, <2>1 DEF BeginGet, BeginProbe, Kinds
  <2>4. CASE BeginPost
    <3>1. CASE HasSession
      BY <2>1, <2>4, <3>1 DEF BeginPost, Kinds
    <3>2. CASE ~HasSession
      BY <2>2, <2>4, <3>2 DEF BeginPost
    <3>q. QED
      BY <3>1, <3>2
  <2>5. CASE BeginLogin
    BY <2>2, <2>5 DEF BeginLogin
  <2>q. QED
    BY <1>1, <2>3, <2>4, <2>5 DEF BeginOperation
<1>2. ASSUME Request
      PROVE  WriteKnown'
  <2>0. op'.kind = op.kind
    BY <1>2, RequestKeeps
  <2>1. CASE \/ PageServed \/ PageForbidden \/ ReadFails
             \/ PageBouncedWithError \/ RetryBounced
    BY <1>0, <2>1
       DEF PageServed, PageForbidden, ReadFails, PageBouncedWithError,
           RetryBounced, Read, Unread, OperationKnown
  <2>2. CASE PagePoolFull \/ PageBounced
    <3>1. LET o == LoginCounted(op, "retry")
          IN  /\ o.kind = op.kind /\ o.after = "retry"
              /\ o.logins = op.logins + 1
              /\ o.sends = op.sends /\ o.answers = op.answers
      BY <1>0, LoginCountedFields DEF Points
    <3>2. CASE PagePoolFull
      BY <1>0, <3>1, <3>2 DEF PagePoolFull, Login, OperationKnown
    <3>3. CASE PageBounced
      <4>1. PICK start \in {"submit", "handshake"} : Login(start, "retry")
        BY <3>3 DEF PageBounced
      <4>q. QED
        BY <1>0, <3>1, <3>3, <4>1 DEF PageBounced, Login, OperationKnown
    <3>q. QED
      BY <2>2, <3>2, <3>3
  <2>3. CASE \/ HandshakeFull \/ HandshakeAnswered \/ SessionFreed \/ WaitOver
             \/ HandshakeFails \/ LoginPoolFull \/ LoginRefused \/ LoginLost
    BY <1>0, <2>3
       DEF HandshakeFull, HandshakeAnswered, SessionFreed, WaitOver,
           HandshakeFails, LoginPoolFull, LoginRefused, LoginLost, Unread,
           OperationKnown, LoggingIn
  <2>7. CASE LoginAccepted
    BY <1>0, <2>7 DEF LoginAccepted, OperationKnown, LoggingIn
  <2>4. CASE \/ NoncePageRefused \/ WriteAccepted \/ WriteForbidden
             \/ WriteErrored \/ WriteLost \/ WriteRedirected
    <3>1. \A a \in Answers :
            LET o == Sent(a)
            IN  /\ o.kind = op.kind /\ o.after = op.after
                /\ o.logins = op.logins
                /\ o.sends = op.sends + 1 /\ o.last = a
                /\ a = "none" => o.answers = op.answers
                /\ a # "none" => o.answers = op.answers + 1
      BY <1>0, SentFields
    <3>2. CASE NoncePageRefused
      BY <1>0, <3>2 DEF NoncePageRefused, Unread
    <3>3. CASE WriteAccepted
      BY <1>0, <3>1, <3>3 DEF WriteAccepted, Answers, OperationKnown
    <3>4. CASE WriteForbidden \/ WriteRedirected
      BY <1>0, <3>1, <3>4
         DEF WriteForbidden, WriteRedirected, Answers, OperationKnown
    <3>5. CASE WriteErrored
      BY <1>0, <3>1, <3>5 DEF WriteErrored, Answers, OperationKnown
    <3>6. CASE WriteLost
      BY <1>0, <3>1, <3>6 DEF WriteLost, Answers, OperationKnown
    <3>q. QED
      BY <2>4, <3>2, <3>3, <3>4, <3>5, <3>6
  <2>5. CASE WritePoolFull \/ WriteBounced
    <3>0. op.kind = "post"
      BY <2>5 DEF OperationKnown, WritePoolFull, WriteBounced
    <3>1. LET o == LoginCounted(Sent("login"), "get")
          IN  /\ o.kind = op.kind /\ o.after = "get"
              /\ o.logins = op.logins + 1
              /\ o.sends = op.sends + 1 /\ o.answers = op.answers + 1
      BY <1>0, SentFields, LoginCountedFields DEF Answers, Points
    <3>2. LET o == Sent("login")
          IN  /\ o.kind = op.kind /\ o.after = op.after
              /\ o.logins = op.logins
              /\ o.sends = op.sends + 1 /\ o.answers = op.answers + 1
      BY <1>0, SentFields DEF Answers
    <3>3. CASE WritePoolFull /\ op.sends = 0
      BY <1>0, <3>0, <3>1, <3>2, <3>3 DEF WritePoolFull, SendsAgain
    <3>4. CASE WriteBounced /\ op.sends = 0
      BY <1>0, <3>0, <3>1, <3>2, <3>4 DEF WriteBounced, SendsAgain
    <3>5. CASE op.sends # 0
      BY <1>0, <2>5, <3>0, <3>2, <3>5
         DEF WritePoolFull, WriteBounced, SendsAgain
    <3>q. QED
      BY <2>5, <3>3, <3>4, <3>5
  <2>6. CASE \/ ProbeServed \/ ProbeRefused \/ ProbeUnanswered \/ ProbeFull
             \/ ProbeWaited \/ ProbeWaitOver \/ ProbeWaitRefused
    BY <1>0, <2>6
       DEF ProbeServed, ProbeRefused, ProbeUnanswered, ProbeFull, ProbeWaited,
           ProbeWaitOver, ProbeWaitRefused, Unread, OperationKnown, Probing
  <2>q. QED
    BY <1>2, <2>1, <2>2, <2>3, <2>4, <2>5, <2>6, <2>7 DEF Request
<1>3. CASE Gateway \/ UNCHANGED vars
  BY <1>3 DEF Gateway, SessionEnds, OthersChange, vars
<1>q. QED
  BY <1>1, <1>2, <1>3 DEF Next

\* Every step keeps the outcome in agreement with the session.
LEMMA OutcomeStep ==
  ASSUME TypeOK, SessionKnown, OperationKnown, OutcomeMatchesSession,
         FlagKnown({})', [Next]_vars
  PROVE  OutcomeMatchesSession'
<1> USE DEF OutcomeMatchesSession, Over, HasSession, Goto, End
<1>0. auth' => jar' \notin refused'
  BY DEF FlagKnown
<1>1. ASSUME BeginOperation
      PROVE  OutcomeMatchesSession'
  BY <1>0, <1>1
     DEF BeginOperation, BeginGet, BeginPost, BeginLogin, BeginProbe
<1>2. ASSUME Request
      PROVE  OutcomeMatchesSession'
  <2>0. op'.kind = op.kind /\ op'.held = op.held /\ op'.flag = op.flag
    BY <1>2, RequestKeeps
  <2>1. CASE \/ PageServed \/ PageForbidden \/ ReadFails \/ PagePoolFull
             \/ PageBounced \/ PageBouncedWithError \/ RetryBounced
    BY <1>0, <2>1
       DEF PageServed, PageForbidden, ReadFails, PagePoolFull, PageBounced,
           PageBouncedWithError, RetryBounced, Read, Login, ClearSession,
           Unread, session
  <2>2. CASE \/ HandshakeFull \/ HandshakeAnswered \/ SessionFreed \/ WaitOver
             \/ HandshakeFails
    BY <1>0, <2>2
       DEF HandshakeFull, HandshakeAnswered, SessionFreed, WaitOver,
           HandshakeFails, SessionKnown, LoggingIn, ClearSession, Unread,
           session
  <2>3. CASE LoginAccepted \/ LoginPoolFull \/ LoginRefused \/ LoginLost
    BY <1>0, <2>3
       DEF LoginAccepted, LoginPoolFull, LoginRefused, LoginLost,
           SessionKnown, OperationKnown, LoggingIn, ClearSession, Unread,
           session
  <2>4. CASE \/ NoncePageRefused \/ WriteAccepted \/ WriteForbidden
             \/ WriteErrored \/ WriteLost \/ WriteRedirected
    BY <1>0, <2>4
       DEF NoncePageRefused, WriteAccepted, WriteForbidden, WriteErrored,
           WriteLost, WriteRedirected, ClearSession, NoteRefusal, Unread,
           session
  <2>5. CASE WritePoolFull \/ WriteBounced
    BY <1>0, <2>5 DEF WritePoolFull, WriteBounced, ClearSession
  <2>6. CASE \/ ProbeServed \/ ProbeRefused \/ ProbeUnanswered \/ ProbeFull
             \/ ProbeWaited \/ ProbeWaitOver \/ ProbeWaitRefused
    BY <1>0, <2>0, <2>6
       DEF ProbeServed, ProbeRefused, ProbeUnanswered, ProbeFull, ProbeWaited,
           ProbeWaitOver, ProbeWaitRefused, OperationKnown, Probing,
           ClearSession, Unread, session
  <2>q. QED
    BY <1>2, <2>1, <2>2, <2>3, <2>4, <2>5, <2>6 DEF Request
<1>3. CASE Gateway \/ UNCHANGED vars
  BY <1>3 DEF Gateway, SessionEnds, OthersChange, vars, session
<1>q. QED
  BY <1>1, <1>2, <1>3 DEF Next

-----------------------------------------------------------------------------
(* What a step may do, for the layers above                                *)

\* A request is never made while no operation runs.
LEMMA RequestIsRunning ==
  ASSUME Request
  PROVE  pc # "idle"
<1>1. CASE \/ PageServed \/ PageForbidden \/ ReadFails \/ PagePoolFull
           \/ PageBounced \/ PageBouncedWithError \/ RetryBounced
  BY <1>1
     DEF PageServed, PageForbidden, ReadFails, PagePoolFull, PageBounced,
         PageBouncedWithError, RetryBounced
<1>2. CASE \/ HandshakeFull \/ HandshakeAnswered \/ SessionFreed \/ WaitOver
           \/ HandshakeFails \/ LoginAccepted \/ LoginPoolFull
           \/ LoginRefused \/ LoginLost
  BY <1>2
     DEF HandshakeFull, HandshakeAnswered, SessionFreed, WaitOver,
         HandshakeFails, LoginAccepted, LoginPoolFull, LoginRefused, LoginLost
<1>3. CASE \/ NoncePageRefused \/ WriteAccepted \/ WriteForbidden
           \/ WriteErrored \/ WriteLost \/ WritePoolFull \/ WriteBounced
           \/ WriteRedirected
  BY <1>3
     DEF NoncePageRefused, WriteAccepted, WriteForbidden, WriteErrored,
         WriteLost, WritePoolFull, WriteBounced, WriteRedirected
<1>4. CASE \/ ProbeServed \/ ProbeRefused \/ ProbeUnanswered \/ ProbeFull
           \/ ProbeWaited \/ ProbeWaitOver \/ ProbeWaitRefused
  BY <1>4
     DEF ProbeServed, ProbeRefused, ProbeUnanswered, ProbeFull, ProbeWaited,
         ProbeWaitOver, ProbeWaitRefused
<1>q. QED
  BY <1>1, <1>2, <1>3, <1>4 DEF Request

\* Only the cookie of a login becomes live, and only a cookie that is not
\* live, or that the client does not count on any more, is put away.
LEMMA StepOfSessions ==
  ASSUME TypeOK, SessionKnown, OperationKnown, [Next]_vars
  PROVE  /\ gw.dealt <= gw'.dealt
         /\ refused \subseteq refused'
         /\ \A s \in gw'.live : s \in gw.live \/ (s = jar /\ jar' = jar)
         /\ jar' # jar => jar \notin gw.live \/ ~auth
<1> DEFINE Opens == /\ jar' = jar /\ gw'.dealt = gw.dealt
                    /\ gw'.live \subseteq gw.live \cup {jar}
           Goes == /\ refused \subseteq refused'
                   /\ UNCHANGED gw \/ Deal \/ Opens
                   /\ jar' = jar \/ jar \notin gw.live \/ ~auth
<1>1. ASSUME BeginOperation
      PROVE  Goes
  BY <1>1
     DEF BeginOperation, BeginGet, BeginPost, BeginLogin, BeginProbe, session
<1>2. ASSUME \/ PageServed \/ PageForbidden \/ ReadFails \/ PagePoolFull
             \/ PageBounced \/ PageBouncedWithError \/ RetryBounced
      PROVE  Goes
  BY <1>2
     DEF PageServed, PageForbidden, ReadFails, PagePoolFull, PageBounced,
         PageBouncedWithError, RetryBounced, NoteRefusal, Unread, session,
         Serves, PoolFull, Bounces
<1>3. ASSUME \/ HandshakeFull \/ HandshakeAnswered \/ SessionFreed \/ WaitOver
             \/ HandshakeFails
      PROVE  Goes
  BY <1>3
     DEF HandshakeFull, HandshakeAnswered, SessionFreed, WaitOver,
         HandshakeFails, SessionKnown, LoggingIn, Unread, session, Serves,
         Bounces
<1>4. ASSUME LoginAccepted \/ LoginPoolFull \/ LoginRefused \/ LoginLost
      PROVE  Goes
  BY <1>4
     DEF LoginAccepted, LoginPoolFull, LoginRefused, LoginLost, SessionKnown,
         LoggingIn, Unread, session, TypeOK
<1>5. ASSUME \/ NoncePageRefused \/ WriteAccepted \/ WriteForbidden
             \/ WriteErrored \/ WriteLost \/ WriteRedirected
      PROVE  Goes
  BY <1>5
     DEF NoncePageRefused, WriteAccepted, WriteForbidden, WriteErrored,
         WriteLost, WriteRedirected, NoteRefusal, Unread, session, Serves,
         Bounces
<1>6. ASSUME WritePoolFull \/ WriteBounced
      PROVE  Goes
  BY <1>6
     DEF WritePoolFull, WriteBounced, NoteRefusal, Serves, PoolFull, Bounces
<1>7. ASSUME \/ ProbeServed \/ ProbeRefused \/ ProbeUnanswered \/ ProbeFull
             \/ ProbeWaited \/ ProbeWaitOver \/ ProbeWaitRefused
      PROVE  Goes
  BY <1>7
     DEF ProbeServed, ProbeRefused, ProbeUnanswered, ProbeFull, ProbeWaited,
         ProbeWaitOver, ProbeWaitRefused, SessionKnown, Probing, NoteRefusal,
         Unread, session, Serves, Bounces
<1>8. ASSUME Gateway \/ UNCHANGED vars
      PROVE  Goes
  BY <1>8 DEF Gateway, SessionEnds, OthersChange, vars, session, TypeOK
<1>9. Goes
  BY <1>1, <1>2, <1>3, <1>4, <1>5, <1>6, <1>7, <1>8 DEF Next, Request
<1>10. /\ gw.dealt \in Nat
       /\ Deal => gw'.live = gw.live /\ gw'.dealt = gw.dealt + 1
  BY DealFields DEF TypeOK
<1>q. QED
  BY <1>9, <1>10

\* A read or a write loses the session it holds only to a refusal.
LEMMA SessionLostToRefusal ==
  ASSUME TypeOK, SessionKnown, OperationKnown, Request,
         op.kind # "probe", HasSession
  PROVE  (auth' /\ jar' = jar) \/ jar \in refused'
<1>0. jar \in Sids /\ auth /\ ~LoggingIn /\ ~Probing
  BY DEF TypeOK, SessionKnown, OperationKnown, HasSession
<1>1. CASE \/ PageServed \/ PageForbidden \/ ReadFails \/ PagePoolFull
           \/ PageBounced \/ PageBouncedWithError \/ RetryBounced
  BY <1>0, <1>1
     DEF PageServed, PageForbidden, ReadFails, PagePoolFull, PageBounced,
         PageBouncedWithError, RetryBounced, NoteRefusal, session
<1>2. CASE \/ HandshakeFull \/ HandshakeAnswered \/ SessionFreed \/ WaitOver
           \/ HandshakeFails \/ LoginAccepted \/ LoginPoolFull
           \/ LoginRefused \/ LoginLost
  BY <1>0, <1>2
     DEF HandshakeFull, HandshakeAnswered, SessionFreed, WaitOver,
         HandshakeFails, LoginAccepted, LoginPoolFull, LoginRefused,
         LoginLost, LoggingIn
<1>3. CASE \/ NoncePageRefused \/ WriteAccepted \/ WriteForbidden
           \/ WriteErrored \/ WriteLost \/ WritePoolFull \/ WriteBounced
           \/ WriteRedirected
  BY <1>0, <1>3
     DEF NoncePageRefused, WriteAccepted, WriteForbidden, WriteErrored,
         WriteLost, WritePoolFull, WriteBounced, WriteRedirected, NoteRefusal,
         session
<1>4. CASE \/ ProbeServed \/ ProbeRefused \/ ProbeUnanswered \/ ProbeFull
           \/ ProbeWaited \/ ProbeWaitOver \/ ProbeWaitRefused
  BY <1>0, <1>4
     DEF ProbeServed, ProbeRefused, ProbeUnanswered, ProbeFull, ProbeWaited,
         ProbeWaitOver, ProbeWaitRefused, Probing
<1>q. QED
  BY <1>1, <1>2, <1>3, <1>4 DEF Request

\* An operation under way logs in only after the gateway refused the cookie it
\* came with.
LEMMA LoginAfterRefusal ==
  ASSUME TypeOK, OperationKnown, Request
  PROVE  \/ op'.logins = op.logins
         \/ op.kind # "probe" /\ {jar} \cap Sids \subseteq refused'
<1>0. op \in Ops
  BY DEF TypeOK
<1>1. CASE PagePoolFull \/ PageBounced
  BY <1>1 DEF PagePoolFull, PageBounced, NoteRefusal, OperationKnown
<1>2. CASE WritePoolFull \/ WriteBounced
  BY <1>2 DEF WritePoolFull, WriteBounced, NoteRefusal, OperationKnown
<1>3. CASE \/ PageServed \/ PageForbidden \/ ReadFails
           \/ PageBouncedWithError \/ RetryBounced
  BY <1>3
     DEF PageServed, PageForbidden, ReadFails, PageBouncedWithError,
         RetryBounced, Unread
<1>4. CASE \/ HandshakeFull \/ HandshakeAnswered \/ SessionFreed \/ WaitOver
           \/ HandshakeFails \/ LoginAccepted \/ LoginPoolFull
           \/ LoginRefused \/ LoginLost
  BY <1>4
     DEF HandshakeFull, HandshakeAnswered, SessionFreed, WaitOver,
         HandshakeFails, LoginAccepted, LoginPoolFull, LoginRefused,
         LoginLost, Unread
<1>5. CASE \/ NoncePageRefused \/ WriteAccepted \/ WriteForbidden
           \/ WriteErrored \/ WriteLost \/ WriteRedirected
  <2>1. \A a \in Answers : Sent(a).logins = op.logins
    BY <1>0, SentFields
  <2>q. QED
    BY <1>5, <2>1
       DEF NoncePageRefused, WriteAccepted, WriteForbidden, WriteErrored,
           WriteLost, WriteRedirected, Unread, Answers
<1>6. CASE \/ ProbeServed \/ ProbeRefused \/ ProbeUnanswered \/ ProbeFull
           \/ ProbeWaited \/ ProbeWaitOver \/ ProbeWaitRefused
  BY <1>6
     DEF ProbeServed, ProbeRefused, ProbeUnanswered, ProbeFull, ProbeWaited,
         ProbeWaitOver, ProbeWaitRefused, Unread
<1>q. QED
  BY <1>1, <1>2, <1>3, <1>4, <1>5, <1>6 DEF Request

\* How a read can end.
LEMMA OutcomesOfRead ==
  ASSUME OperationKnown, Request, op.kind = "get", pc' = "idle"
  PROVE  outcome' \in {"ok", "auth", "forbidden", "full", "fault"}
<1>1. ~Probing /\ pc # "write"
  BY DEF OperationKnown
<1>2. CASE \/ PageServed \/ PageForbidden \/ ReadFails \/ PagePoolFull
           \/ PageBounced \/ PageBouncedWithError \/ RetryBounced
  BY <1>2
     DEF PageServed, PageForbidden, ReadFails, PagePoolFull, PageBounced,
         PageBouncedWithError, RetryBounced, Read, Login, Goto, End
<1>3. CASE \/ HandshakeFull \/ HandshakeAnswered \/ SessionFreed \/ WaitOver
           \/ HandshakeFails \/ LoginAccepted \/ LoginPoolFull
           \/ LoginRefused \/ LoginLost
  BY <1>3
     DEF HandshakeFull, HandshakeAnswered, SessionFreed, WaitOver,
         HandshakeFails, LoginAccepted, LoginPoolFull, LoginRefused,
         LoginLost, Goto, End
<1>4. CASE \/ NoncePageRefused \/ WriteAccepted \/ WriteForbidden
           \/ WriteErrored \/ WriteLost \/ WritePoolFull \/ WriteBounced
           \/ WriteRedirected
  BY <1>1, <1>4
     DEF NoncePageRefused, WriteAccepted, WriteForbidden, WriteErrored,
         WriteLost, WritePoolFull, WriteBounced, WriteRedirected
<1>5. CASE \/ ProbeServed \/ ProbeRefused \/ ProbeUnanswered \/ ProbeFull
           \/ ProbeWaited \/ ProbeWaitOver \/ ProbeWaitRefused
  BY <1>1, <1>5
     DEF ProbeServed, ProbeRefused, ProbeUnanswered, ProbeFull, ProbeWaited,
         ProbeWaitOver, ProbeWaitRefused, Probing
<1>q. QED
  BY <1>2, <1>3, <1>4, <1>5 DEF Request

-----------------------------------------------------------------------------
(* The theorems                                                            *)

\* The client starts with no session, or with one from the cache.
LEMMA InitInv == Init => ClientInv
<1> SUFFICES ASSUME Init
             PROVE  ClientInv
  OBVIOUS
<1>0. NoOp \in Ops
  BY DEF NoOp, Ops, Kinds, Points, Answers
<1>1. /\ op \in Ops /\ op.kind = "get" /\ op.logins = 0 /\ op.sends = 0
      /\ op.answers = 0 /\ op.held = NoSid /\ op.flag = FALSE
  BY <1>0 DEF Init, NoOp
<1>2. TypeOK
  <2>1. {1} \subseteq 1..MaxSids /\ {1} \subseteq 0..MaxSids
    BY ClientAssumption
  <2>2. gw \in [live : SUBSET Sids, others : 0..Slots, dealt : 0..MaxSids]
    BY <2>1 DEF Init, Sids
  <2>q. QED
    BY <1>1, <2>1, <2>2 DEF Init, TypeOK, Sids, Points, Outcomes
<1>3. SessionKnown
  BY <1>1 DEF Init, SessionKnown, LoggingIn, Probing, Sids, NoSid
<1>4. OperationKnown
  BY <1>1 DEF Init, OperationKnown, LoggingIn, Probing
<1>5. WriteKnown
  BY <1>1
     DEF Init, WriteKnown, PerformedAtMostOnce, EvidenceIsHonest,
         LoginsBounded, Over
<1>6. FlagKnown({}) /\ OutcomeMatchesSession
  BY <1>1
     DEF Init, FlagKnown, OutcomeMatchesSession, Probing, Over, HasSession
<1>q. QED
  BY <1>2, <1>3, <1>4, <1>5, <1>6 DEF ClientInv

\* In every behaviour of the client the inductive invariant holds.
THEOREM ClientInvariant == Spec => []ClientInv
<1>1. Init => ClientInv
  BY InitInv
<1>2. ClientInv /\ [Next]_vars => ClientInv'
  BY TypeStep, SessionStep, OperationStep, WriteStep, FlagStep, OutcomeStep
     DEF ClientInv
<1>q. QED
  BY <1>1, <1>2, PTL DEF Spec

\* post_form: the gateway performs a write at most once, although the write
\* may be sent twice.
THEOREM WritePerformedAtMostOnce == Spec => []PerformedAtMostOnce
BY ClientInvariant, PTL DEF ClientInv, WriteKnown

\* post_form and observe_post: a failed write that may have been performed has
\* a POST without an answer, or an HTTP error as its last answer.
THEOREM EvidenceOfWriteIsHonest == Spec => []EvidenceIsHonest
BY ClientInvariant, PTL DEF ClientInv, WriteKnown

\* get_cgi_page, post_form and login: how often an operation logs in, and how
\* often a write leaves.
THEOREM LoginsAreBounded == Spec => []LoginsBounded
BY ClientInvariant, PTL DEF ClientInv, WriteKnown

\* The session that an operation leaves, for each way it can end.
THEOREM OutcomeAgreesWithSession == Spec => []OutcomeMatchesSession
BY ClientInvariant, PTL DEF ClientInv

-----------------------------------------------------------------------------
(* The coordinator: a step is of one of three shapes.  An operation goes   *)
(* on while a command runs (Working, on the lemmas of the client above); a *)
(* command ends, and the disk it leaves is Settled; or something happens   *)
(* beside the commands (Besides), which either settles the disk as an end  *)
(* does or lets what is on it grow older.                                  *)

\* The disk without its cached session: _forget_cached_session.
LEMMA EmptiedFields ==
  ASSUME NEW d \in Disks
  PROVE  /\ Emptied(d) \in Disks
         /\ Emptied(d).cache = NoSid /\ Emptied(d).fresh = FALSE
         /\ Emptied(d).cooldown = d.cooldown
BY DEF Emptied, Disks

\* The disk with another cooldown.
LEMMA CooldownFields ==
  ASSUME NEW d \in Disks, NEW k \in Cooldowns
  PROVE  /\ WithCooldown(d, k) \in Disks
         /\ WithCooldown(d, k).cache = d.cache
         /\ WithCooldown(d, k).fresh = d.fresh
         /\ WithCooldown(d, k).cooldown = k
BY DEF WithCooldown, Disks

\* What the disk must be when no command runs, whoever wrote it last: the live
\* sessions are the cached one or excused, the cached one was not refused, and
\* a recorded full pool has emptied the cache.
Settled ==
  /\ disk' \in Disks /\ backoff' \in BOOLEAN
  /\ excused' \subseteq Sids /\ excused \subseteq excused'
  /\ gw.live \subseteq {disk'.cache} \cup excused'
  /\ disk'.fresh =>
       disk'.cache # NoSid /\ disk'.cache \notin refused \ excused'
  /\ ~disk'.fresh => disk'.cache \in {NoSid} \cup excused'
  /\ disk'.cache \in Sids => disk'.cache <= gw.dealt
  /\ backoff' => disk'.cooldown = "live" /\ disk'.cache = NoSid

\* The values between two commands are of their types.
LEMMA NoCommandTyped == NoCommand \in Commands /\ NoOp \in Ops
BY CoordinatorAssumption
   DEF NoCommand, Commands, NoOp, Ops, Kinds, Points, Answers

\* A command that ends with the disk settled leaves the invariant: nothing of
\* its client is left.
LEMMA CommandOverStep ==
  ASSUME CoordinatorInv, CommandOver, Settled
  PROVE  CoordinatorInv'
<1> USE DEF CoordinatorInv, CommandOver, OnlyDisk
<1>0. /\ cmd' = NoCommand /\ ~cmd'.on /\ pc' = "idle" /\ jar' = NoSid
      /\ ~auth'
      /\ UNCHANGED <<gw, refused, reader>>
      /\ op'.kind = "get" /\ op'.logins = 0 /\ op'.sends = 0
      /\ op'.answers = 0
      /\ op'.held = NoSid /\ op'.flag = FALSE /\ performed' = 0
  BY DEF NoCommand, NoOp
<1>1. CoordinatorTypeOK'
  BY NoCommandTyped
     DEF Settled, CoordinatorTypeOK, TypeOK, NoOptions, Points, Outcomes
<1>2. SessionKnown' /\ OperationKnown' /\ WriteKnown' /\ FlagKnown(excused)'
  <2>1. SessionKnown'
    BY <1>0 DEF SessionKnown, LoggingIn, Probing, Sids, NoSid
  <2>2. OperationKnown' /\ FlagKnown(excused)'
    BY <1>0 DEF OperationKnown, FlagKnown, LoggingIn, Probing
  <2>3. WriteKnown'
    BY <1>0
       DEF WriteKnown, PerformedAtMostOnce, EvidenceIsHonest, LoginsBounded,
           Over
  <2>q. QED
    BY <2>1, <2>2, <2>3
<1>3. CommandKnown' /\ InitialKnown' /\ CacheIsWorthIt' /\ PoolFullBacksOff'
  BY <1>0
     DEF Settled, CommandKnown, InitialKnown, CacheIsWorthIt, PoolFullBacksOff
<1>4. SlotsKnown'
  BY <1>0
     DEF Settled, SlotsKnown, NoOrphanedSlot, CoordinatorTypeOK, TypeOK, Sids,
         NoSid
<1>q. QED
  BY <1>1, <1>2, <1>3, <1>4

\* What a running command knows of its session and of the cache: no live
\* session is left but the one it counts on, the rest being excused, and the
\* cached one is the one it imported.
LEMMA HeldSession ==
  ASSUME CoordinatorInv, cmd.on
  PROVE  /\ jar \in Sids \cup {NoSid} /\ NoSid \notin Sids
         /\ disk \in Disks /\ disk.cache \in Sids \cup {NoSid}
         /\ disk.fresh \in BOOLEAN /\ gw.live \subseteq Sids
         /\ excused \subseteq Sids /\ backoff = FALSE
         /\ gw.live \subseteq {jar} \cup excused
         /\ ~HasSession => gw.live \subseteq excused
         /\ HasSession => jar \notin refused \ excused
         /\ HasSession => jar \in Sids /\ jar <= gw.dealt
         /\ disk.fresh => disk.cache # NoSid /\ disk.cache = cmd.initial
         /\ ~disk.fresh => disk.cache \in {NoSid} \cup excused
         /\ disk.cache \in Sids => disk.cache <= gw.dealt
         /\ cmd.initial \in {NoSid, disk.cache}
<1> USE DEF CoordinatorInv
<1>1. /\ jar \in Sids \cup {NoSid} /\ NoSid \notin Sids
      /\ disk \in Disks /\ disk.cache \in Sids \cup {NoSid}
      /\ disk.fresh \in BOOLEAN /\ gw.live \subseteq Sids
      /\ excused \subseteq Sids /\ backoff = FALSE
  BY DEF CoordinatorTypeOK, TypeOK, Disks, Sids, NoSid, PoolFullBacksOff
<1>2. gw.live \subseteq {jar} \cup excused
  BY DEF SlotsKnown, NoOrphanedSlot
<1>3. ~HasSession => gw.live \subseteq excused
  BY <1>1, <1>2 DEF SlotsKnown, HasSession
<1>4. HasSession => jar \notin refused \ excused
  BY DEF FlagKnown, HasSession
<1>5. HasSession => jar \in Sids /\ jar <= gw.dealt
  BY <1>1 DEF SessionKnown, HasSession, CoordinatorTypeOK, TypeOK
<1>6. /\ disk.fresh => disk.cache # NoSid /\ disk.cache = cmd.initial
      /\ ~disk.fresh => disk.cache \in {NoSid} \cup excused
      /\ disk.cache \in Sids => disk.cache <= gw.dealt
      /\ cmd.initial \in {NoSid, disk.cache}
  BY DEF CommandKnown, SlotsKnown
<1>q. QED
  BY <1>1, <1>2, <1>3, <1>4, <1>5, <1>6

\* _remember_session_pool_full settles the disk, also when the cache, the
\* cooldown or both could not be written, if the session dropped was the only
\* one.
LEMMA RememberSettles ==
  ASSUME CoordinatorInv, NEW dropped, gw.live \subseteq dropped \cup excused,
         Remember(dropped)
  PROVE  Settled
<1>0. /\ disk \in Disks /\ disk.cooldown \in Cooldowns /\ "live" \in Cooldowns
      /\ disk.cache \in Sids \cup {NoSid} /\ disk.fresh \in BOOLEAN
      /\ gw.live \subseteq Sids /\ excused \subseteq Sids
      /\ backoff \in BOOLEAN
      /\ NoSid \notin Sids
  BY DEF CoordinatorInv, CoordinatorTypeOK, TypeOK, Disks, Cooldowns, Sids,
         NoSid
<1>1. /\ Emptied(disk) \in Disks /\ Emptied(disk).cooldown = disk.cooldown
      /\ Emptied(disk).cache = NoSid /\ Emptied(disk).fresh = FALSE
  BY <1>0, EmptiedFields
<1>2. CASE /\ disk' = WithCooldown(Emptied(disk), "live")
           /\ Excuse(dropped) /\ backoff' = TRUE
  <2>1. /\ disk' \in Disks /\ disk'.cooldown = "live"
        /\ disk'.cache = NoSid /\ disk'.fresh = FALSE
    BY <1>0, <1>1, <1>2, CooldownFields
  <2>q. QED
    BY <1>0, <1>2, <2>1 DEF Settled, Excuse
<1>3. CASE /\ \E d \in {disk, Emptied(disk)}, k \in {disk.cooldown, "live"} :
                disk' = WithCooldown(d, k)
           /\ Excuse(dropped \cup {disk.cache}) /\ UNCHANGED backoff
  <2>1. PICK d \in {disk, Emptied(disk)}, k \in {disk.cooldown, "live"} :
          disk' = WithCooldown(d, k)
    BY <1>3
  <2>2. d \in Disks /\ k \in Cooldowns
    BY <1>0, <1>1
  <2>3. /\ disk' \in Disks /\ disk'.cooldown = k
        /\ disk'.cache = d.cache /\ disk'.fresh = d.fresh
    BY <2>1, <2>2, CooldownFields
  <2>4. \/ disk'.cache = disk.cache /\ disk'.fresh = disk.fresh
        \/ disk'.cache = NoSid /\ disk'.fresh = FALSE
    BY <1>1, <2>3
  <2>5. excused' = excused \cup ((dropped \cup {disk.cache}) \cap Sids)
    BY <1>3 DEF Excuse
  <2>6. /\ disk.fresh => disk.cache # NoSid
        /\ disk.cache \in Sids => disk.cache <= gw.dealt
        /\ backoff => disk.cooldown = "live" /\ disk.cache = NoSid
    BY DEF CoordinatorInv, CommandKnown, PoolFullBacksOff
  <2>q. QED
    BY <1>0, <1>3, <2>3, <2>4, <2>5, <2>6 DEF Settled
<1>q. QED
  BY <1>2, <1>3 DEF Remember

\* _persist_session settles the disk, also when it fails.
LEMMA PersistSettles ==
  ASSUME CoordinatorInv, cmd.on, HasSession, Persist, UNCHANGED backoff
  PROVE  Settled
<1>1. CASE disk' \in [cache : {jar}, fresh : {TRUE},
                      cooldown : {"none", disk.cooldown}] /\ UNCHANGED excused
  <2>1. disk' \in Disks /\ disk'.cache = jar /\ disk'.fresh = TRUE
    BY <1>1, HeldSession DEF Disks, Cooldowns
  <2>q. QED
    BY <1>1, <2>1, HeldSession DEF Settled
<1>2. CASE UNCHANGED disk /\ Excuse({jar, disk.cache})
  BY <1>2, HeldSession DEF Settled, Excuse
<1>q. QED
  BY <1>1, <1>2 DEF Persist

\* _forget_cached_session settles the disk for a client without a session.
LEMMA ForgetSettles ==
  ASSUME CoordinatorInv, cmd.on, ~HasSession, Forget, UNCHANGED backoff
  PROVE  Settled
<1>1. CASE disk' = Emptied(disk) /\ UNCHANGED excused
  BY <1>1, HeldSession, EmptiedFields DEF Settled
<1>2. CASE UNCHANGED disk /\ Excuse({disk.cache})
  BY <1>2, HeldSession DEF Settled, Excuse
<1>q. QED
  BY <1>1, <1>2 DEF Forget

\* The disk needs no write if the client holds what it imported, or nothing
\* and imported nothing.
LEMMA UnchangedSettles ==
  ASSUME CoordinatorInv, cmd.on, SessionCookie = cmd.initial,
         UNCHANGED <<disk, excused, backoff>>
  PROVE  Settled
<1>1. CASE HasSession
  BY <1>1, HeldSession DEF Settled, SessionCookie
<1>2. CASE ~HasSession
  BY <1>2, HeldSession DEF Settled, SessionCookie
<1>q. QED
  BY <1>1, <1>2

\* Each of the six ways a command can end keeps the invariant: the branches of
\* with_router_session, and the kill that runs none of them.
LEMMA EndStep ==
  ASSUME CoordinatorInv,
         \/ EndPoolFull \/ EndAuthError \/ EndForbidden \/ EndOtherError
         \/ EndNormally \/ Killed
  PROVE  CoordinatorInv'
<1>0. cmd.on /\ CommandOver
  BY DEF EndPoolFull, EndAuthError, EndForbidden, EndOtherError, EndNormally,
         Killed, AtEnd
<1>1. CASE EndPoolFull
  BY <1>0, <1>1, HeldSession, RememberSettles, CommandOverStep DEF EndPoolFull
<1>2. CASE EndAuthError
  <2>1. /\ UNCHANGED backoff
        /\ \/ disk' = Emptied(disk) /\ Excuse({jar})
           \/ UNCHANGED disk /\ Excuse({jar, disk.cache})
    BY <1>2 DEF EndAuthError
  <2>2. CASE disk' = Emptied(disk) /\ Excuse({jar})
    <3>1. /\ disk' \in Disks
          /\ disk'.cache = NoSid /\ disk'.fresh = FALSE
      BY <1>0, <2>2, HeldSession, EmptiedFields
    <3>q. QED
      BY <1>0, <2>1, <2>2, <3>1, HeldSession, CommandOverStep
         DEF Settled, Excuse
  <2>3. CASE UNCHANGED disk /\ Excuse({jar, disk.cache})
    BY <1>0, <2>1, <2>3, HeldSession, CommandOverStep DEF Settled, Excuse
  <2>q. QED
    BY <2>1, <2>2, <2>3
<1>3. SessionCookie # cmd.initial /\ ~LostSession => HasSession
  BY DEF SessionCookie, LostSession
<1>4. CASE EndForbidden
  <2>1. CASE LostSession
    <3>1. /\ ~HasSession /\ UNCHANGED <<disk, backoff>>
          /\ Excuse({cmd.initial})
      BY <1>4, <2>1 DEF EndForbidden, LostSession
    <3>q. QED
      BY <1>0, <3>1, HeldSession, CommandOverStep DEF Settled, Excuse
  <2>2. CASE ~LostSession /\ SessionCookie # cmd.initial
    <3>1. Persist /\ UNCHANGED backoff
      BY <1>4, <2>2 DEF EndForbidden
    <3>q. QED
      BY <1>0, <1>3, <2>2, <3>1, PersistSettles, CommandOverStep
  <2>3. CASE ~LostSession /\ SessionCookie = cmd.initial
    <3>1. UNCHANGED <<disk, excused, backoff>>
      BY <1>4, <2>3 DEF EndForbidden
    <3>q. QED
      BY <1>0, <2>3, <3>1, UnchangedSettles, CommandOverStep
  <2>q. QED
    BY <2>1, <2>2, <2>3
<1>5. CASE EndOtherError
  <2>1. CASE LostSession
    <3>1. ~HasSession /\ Forget /\ UNCHANGED backoff
      BY <1>5, <2>1 DEF EndOtherError, LostSession
    <3>q. QED
      BY <1>0, <3>1, ForgetSettles, CommandOverStep
  <2>2. CASE ~LostSession /\ SessionCookie # cmd.initial
    <3>1. Persist /\ UNCHANGED backoff
      BY <1>5, <2>2 DEF EndOtherError
    <3>q. QED
      BY <1>0, <1>3, <2>2, <3>1, PersistSettles, CommandOverStep
  <2>3. CASE ~LostSession /\ SessionCookie = cmd.initial
    <3>1. UNCHANGED <<disk, excused, backoff>>
      BY <1>5, <2>3 DEF EndOtherError
    <3>q. QED
      BY <1>0, <2>3, <3>1, UnchangedSettles, CommandOverStep
  <2>q. QED
    BY <2>1, <2>2, <2>3
<1>6. CASE EndNormally
  <2>1. CASE ~HasSession
    <3>1. Forget /\ UNCHANGED backoff
      BY <1>6, <2>1 DEF EndNormally
    <3>q. QED
      BY <1>0, <2>1, <3>1, ForgetSettles, CommandOverStep
  <2>2. CASE HasSession /\ WorthKeeping
    <3>1. Persist /\ UNCHANGED backoff
      BY <1>6, <2>2 DEF EndNormally
    <3>q. QED
      BY <1>0, <2>2, <3>1, PersistSettles, CommandOverStep
  <2>3. CASE HasSession /\ ~WorthKeeping
    <3>1. SessionCookie = cmd.initial /\ UNCHANGED <<disk, excused, backoff>>
      BY <1>6, <2>3 DEF EndNormally, WorthKeeping
    <3>q. QED
      BY <1>0, <3>1, UnchangedSettles, CommandOverStep
  <2>q. QED
    BY <2>1, <2>2, <2>3
<1>7. CASE Killed
  <2>1. Settled
    BY <1>0, <1>7, HeldSession DEF Killed, Settled, Excuse
  <2>q. QED
    BY <1>0, <2>1, CommandOverStep
<1>q. QED
  BY <1>1, <1>2, <1>4, <1>5, <1>6, <1>7

\* One step of an operation while a command runs, with what the command notes
\* of it left open: common to Works and to the requests of a sweep.
Working ==
  /\ cmd.on
  /\ \/ ~Single /\ BeginOperation
     \/ Request
  /\ cmd' \in Commands /\ cmd'.on /\ cmd'.initial = cmd.initial
  /\ cmd'.forced = (cmd.forced \/ op'.kind = "login")
  /\ Excuse(IF auth' THEN {} ELSE {jar'} \cap gw'.live)
  /\ UNCHANGED <<disk, reader, backoff>>

\* The steps of the client keep what is known of it, whatever sessions
\* are excused.
LEMMA ClientStep ==
  ASSUME CoordinatorInv, [Next]_vars
  PROVE  /\ TypeOK' /\ SessionKnown' /\ OperationKnown' /\ WriteKnown'
         /\ auth' => jar' \notin refused' \ excused
         /\ Probing' /\ op'.flag => op'.held \notin refused' \ excused
<1>1. /\ TypeOK /\ SessionKnown /\ OperationKnown /\ WriteKnown
      /\ FlagKnown(excused)
  BY DEF CoordinatorInv, CoordinatorTypeOK
<1>2. TypeOK' /\ SessionKnown' /\ OperationKnown' /\ WriteKnown'
  BY <1>1, TypeStep, SessionStep, OperationStep, WriteStep
<1>3. /\ auth' => jar' \notin refused' \ excused
      /\ Probing' /\ op'.flag => op'.held \notin refused' \ excused
  BY <1>1, FlagStep DEF FlagKnown
<1>q. QED
  BY <1>2, <1>3

\* One step of an operation keeps the invariant.  The session found in the
\* cache stays the one in use until it is refused or given up for a forced
\* login, so a login is never spent for nothing; and no step loses a live
\* session unexcused.
LEMMA WorkStep ==
  ASSUME CoordinatorInv, Working
  PROVE  CoordinatorInv'
<1>0. /\ cmd.on /\ cmd'.on /\ Next /\ backoff = FALSE
      /\ UNCHANGED <<disk, reader, backoff>>
  BY DEF Working, Next, CoordinatorInv, CoordinatorTypeOK, PoolFullBacksOff
<1>1. /\ TypeOK' /\ SessionKnown' /\ OperationKnown' /\ WriteKnown'
      /\ auth' => jar' \notin refused' \ excused
      /\ Probing' /\ op'.flag => op'.held \notin refused' \ excused
  BY <1>0, ClientStep
<1>2. /\ gw.dealt <= gw'.dealt
      /\ refused \subseteq refused'
      /\ \A s \in gw'.live : s \in gw.live \/ (s = jar /\ jar' = jar)
      /\ jar' # jar => jar \notin gw.live \/ ~auth
  BY <1>0, StepOfSessions DEF CoordinatorInv, CoordinatorTypeOK
<1>3. /\ excused \subseteq excused' /\ excused' \subseteq Sids
      /\ ~auth' /\ jar' \in gw'.live => jar' \in excused'
  BY <1>1 DEF Working, Excuse, CoordinatorInv, CoordinatorTypeOK, TypeOK
<1>4. CoordinatorTypeOK'
  BY <1>0, <1>1, <1>3 DEF Working, CoordinatorInv, CoordinatorTypeOK
<1>5. FlagKnown(excused)'
  BY <1>1, <1>3 DEF FlagKnown
<1>6. CommandKnown'
  <2>1. gw.dealt \in Nat /\ gw'.dealt \in Nat /\ disk.cache \in Nat
    BY <1>1 DEF CoordinatorInv, CoordinatorTypeOK, TypeOK, Disks, Sids, NoSid
  <2>q. QED
    BY <1>0, <1>2, <2>1 DEF Working, CoordinatorInv, CommandKnown
<1>7. SlotsKnown'
  <2>1. jar \in gw.live => auth \/ jar \in excused
    BY DEF CoordinatorInv, SlotsKnown
  <2>2. gw.live \subseteq {jar} \cup excused
    BY <1>0, HeldSession
  <2>3. gw'.live \subseteq {jar'} \cup excused
    BY <1>2, <2>1, <2>2
  <2>q. QED
    BY <1>0, <1>3, <2>3 DEF CoordinatorInv, SlotsKnown, NoOrphanedSlot
<1>8. InitialKnown'
  <2>1. /\ cmd'.initial = cmd.initial
        /\ cmd'.forced = (cmd.forced \/ op'.kind = "login")
    BY DEF Working
  <2>2. CASE Request
    <3>1. op'.kind = op.kind
      BY <2>2, RequestKeeps DEF CoordinatorInv, CoordinatorTypeOK
    <3>2. op.kind # "probe" /\ HasSession =>
            (auth' /\ jar' = jar) \/ jar \in refused'
      BY <2>2, SessionLostToRefusal DEF CoordinatorInv, CoordinatorTypeOK
    <3>q. QED
      BY <1>0, <1>2, <2>1, <3>1, <3>2
         DEF CoordinatorInv, InitialKnown, HasSession
  <2>3. CASE ~Single /\ BeginOperation
    <3>1. \/ UNCHANGED session
          \/ ~HasSession
          \/ op'.kind = "login"
          \/ op'.kind = "probe"
      <4>1. LoginCounted(New("login"), "idle").kind = "login"
        BY NewFields, LoginCountedFields DEF Kinds, Points
      <4>q. QED
        BY <2>3, <4>1
           DEF BeginOperation, BeginGet, BeginPost, BeginLogin, BeginProbe,
               session
    <3>q. QED
      BY <1>0, <1>2, <2>1, <2>3, <3>1
         DEF CoordinatorInv, InitialKnown, Single, HasSession, session
  <2>q. QED
    BY <2>2, <2>3 DEF Working
<1>9. CacheIsWorthIt'
  <2>1. /\ cmd'.initial = cmd.initial
        /\ cmd.forced \/ op'.kind = "login" => cmd'.forced
    BY DEF Working
  <2>2. cmd.initial \in Sids \cup {NoSid}
    BY DEF CoordinatorInv, CoordinatorTypeOK, Commands
  <2>3. CASE Request
    <3>1. \/ op'.logins = op.logins
          \/ op.kind # "probe" /\ {jar} \cap Sids \subseteq refused'
      BY <2>3, LoginAfterRefusal DEF CoordinatorInv, CoordinatorTypeOK
    <3>2. op.logins > 0 =>
            cmd.initial = NoSid \/ cmd.initial \in refused \/ cmd.forced
      BY <1>0 DEF CoordinatorInv, CacheIsWorthIt
    <3>3. op.kind # "probe" =>
            \/ jar = cmd.initial
            \/ cmd.initial = NoSid \/ cmd.initial \in refused \/ cmd.forced
      BY <1>0 DEF CoordinatorInv, InitialKnown
    <3>4. op'.logins > 0 =>
            cmd.initial = NoSid \/ cmd.initial \in refused' \/ cmd.forced
      BY <1>2, <2>2, <3>1, <3>2, <3>3
    <3>q. QED
      BY <1>0, <2>1, <3>4 DEF CacheIsWorthIt
  <2>4. CASE ~Single /\ BeginOperation
    <3>1. \/ op'.logins = 0
          \/ ~HasSession
          \/ op'.kind = "login"
      <4>1. LoginCounted(New("login"), "idle").kind = "login"
        BY NewFields, LoginCountedFields DEF Kinds, Points
      <4>2. \A k \in Kinds : Begun(k).logins = 0
        BY BegunFields DEF CoordinatorInv, CoordinatorTypeOK, TypeOK
      <4>q. QED
        BY <2>4, <4>1, <4>2
           DEF BeginOperation, BeginGet, BeginPost, BeginLogin, BeginProbe,
               Kinds
    <3>q. QED
      BY <1>0, <1>2, <2>1, <2>2, <2>4, <3>1
         DEF CoordinatorInv, CacheIsWorthIt, InitialKnown, Single
  <2>q. QED
    BY <2>3, <2>4 DEF Working
<1>10. PoolFullBacksOff'
  BY <1>0 DEF PoolFullBacksOff
<1>q. QED
  BY <1>1, <1>4, <1>5, <1>6, <1>7, <1>8, <1>9, <1>10 DEF CoordinatorInv

\* A command begins with the cached session, if it is fresh, or with none, and
\* never under a live cooldown.
LEMMA BeginCommandStep ==
  ASSUME CoordinatorInv, BeginCommand
  PROVE  CoordinatorInv'
<1>1. /\ ~cmd.on /\ disk.cooldown # "live" /\ backoff = FALSE
      /\ jar = NoSid
      /\ disk \in Disks /\ disk.cache \in Sids \cup {NoSid}
      /\ disk.fresh \in BOOLEAN /\ disk.cooldown \in Cooldowns
      /\ NoSid \notin Sids
      /\ disk.fresh =>
           disk.cache # NoSid /\ disk.cache \notin refused \ excused
      /\ ~disk.fresh => disk.cache \in {NoSid} \cup excused
      /\ disk.cache \in Sids => disk.cache <= gw.dealt
      /\ gw.live \subseteq {NoSid, disk.cache} \cup excused
  BY DEF CoordinatorInv, CoordinatorTypeOK, TypeOK, Disks, Sids, NoSid,
         BeginCommand, HeldBack, CommandKnown, SlotsKnown, NoOrphanedSlot,
         CacheIsWorthIt, PoolFullBacksOff
<1>2. /\ disk' \in Disks /\ disk'.cache = disk.cache
      /\ disk'.fresh = disk.fresh
      /\ disk'.cooldown \in {"none", disk.cooldown}
  <2>1. PICK k \in {"none", disk.cooldown} : disk' = WithCooldown(disk, k)
    BY DEF BeginCommand
  <2>q. QED
    BY <1>1, <2>1, CooldownFields DEF Cooldowns
<1>3. /\ jar' = Imported /\ auth' = (Imported # NoSid)
      /\ Imported \in {NoSid, disk.cache}
      /\ disk.fresh => Imported = disk.cache
      /\ ~disk.fresh => Imported = NoSid
  BY DEF BeginCommand, Imported
<1>4. /\ cmd' \in Commands /\ cmd'.on /\ cmd'.initial = Imported
  <2>1. Imported \in Sids \cup {NoSid}
    BY <1>1, <1>3
  <2>q. QED
    <3>1. cmd' = [on |-> TRUE, initial |-> Imported, met |-> {}, ops |-> 0,
                  forced |-> FALSE]
      BY DEF BeginCommand, NoCommand
    <3>q. QED
      BY <2>1, <3>1, CoordinatorAssumption DEF Commands
<1>5. /\ pc' = "idle" /\ UNCHANGED <<gw, refused, reader, excused, backoff>>
      /\ op' = NoOp /\ op' \in Ops
      /\ op'.kind = "get" /\ op'.logins = 0 /\ op'.sends = 0
      /\ op'.answers = 0
      /\ op'.held = NoSid /\ op'.flag = FALSE /\ performed' = 0
  BY NoCommandTyped DEF BeginCommand, NoOp
<1>6. CoordinatorTypeOK'
  <2>1. /\ opts' \in [code : BOOLEAN, wait : BOOLEAN] /\ used' = FALSE
        /\ outcome' = "ok" /\ jar' \in Sids \cup {NoSid} /\ auth' \in BOOLEAN
    BY <1>1, <1>3 DEF BeginCommand
  <2>q. QED
    BY <1>2, <1>4, <1>5, <2>1
       DEF CoordinatorInv, CoordinatorTypeOK, TypeOK, Points, Outcomes
<1>7. SessionKnown' /\ OperationKnown' /\ WriteKnown' /\ FlagKnown(excused)'
  <2>1. SessionKnown'
    BY <1>1, <1>3, <1>5
       DEF CoordinatorInv, SessionKnown, LoggingIn, Probing, Sids, NoSid
  <2>2. OperationKnown'
    BY <1>5 DEF OperationKnown, LoggingIn, Probing
  <2>3. WriteKnown'
    BY <1>5
       DEF WriteKnown, PerformedAtMostOnce, EvidenceIsHonest, LoginsBounded,
           Over
  <2>4. FlagKnown(excused)'
    BY <1>1, <1>3, <1>5 DEF FlagKnown, Probing
  <2>q. QED
    BY <2>1, <2>2, <2>3, <2>4
<1>8. CommandKnown' /\ SlotsKnown'
  <2>1. CommandKnown'
    BY <1>1, <1>2, <1>3, <1>4, <1>5 DEF CommandKnown
  <2>2. gw'.live \subseteq {jar'} \cup excused'
    BY <1>1, <1>3, <1>5 DEF CoordinatorInv, CoordinatorTypeOK, TypeOK
  <2>q. QED
    BY <1>1, <1>2, <1>3, <1>5, <2>1, <2>2
       DEF SlotsKnown, NoOrphanedSlot, CoordinatorInv, CoordinatorTypeOK,
           TypeOK
<1>9. InitialKnown' /\ CacheIsWorthIt' /\ PoolFullBacksOff'
  BY <1>1, <1>3, <1>4, <1>5
     DEF InitialKnown, CacheIsWorthIt, PoolFullBacksOff, HasSession
<1>q. QED
  BY <1>6, <1>7, <1>8, <1>9 DEF CoordinatorInv, CoordinatorTypeOK

\* Between commands, whoever settles the disk keeps the invariant.
LEMMA SettledBeside ==
  ASSUME CoordinatorInv, ~cmd.on, UNCHANGED <<vars, cmd>>,
         reader' \in {"idle", "full"}, Settled
  PROVE  CoordinatorInv'
<1>1. CoordinatorTypeOK'
  BY DEF CoordinatorInv, CoordinatorTypeOK, TypeOK, Settled, vars
<1>2. SessionKnown' /\ OperationKnown' /\ WriteKnown'
  BY DEF CoordinatorInv, vars, SessionKnown, OperationKnown, WriteKnown,
         LoggingIn, Probing, PerformedAtMostOnce, EvidenceIsHonest,
         LoginsBounded, Over, Unanswered
<1>3. FlagKnown(excused)'
  BY DEF CoordinatorInv, CommandKnown, SessionKnown, FlagKnown, Probing, vars
<1>4. CommandKnown' /\ InitialKnown' /\ CacheIsWorthIt' /\ PoolFullBacksOff'
  BY DEF CoordinatorInv, CommandKnown, InitialKnown, CacheIsWorthIt,
         PoolFullBacksOff, Settled, vars
<1>5. SlotsKnown'
  BY DEF CoordinatorInv, CoordinatorTypeOK, TypeOK, CommandKnown, SlotsKnown,
         NoOrphanedSlot, Settled, vars, Sids, NoSid
<1>q. QED
  BY <1>1, <1>2, <1>3, <1>4, <1>5 DEF CoordinatorInv, CoordinatorTypeOK

\* A disk that has only grown older keeps the invariant, commands running or
\* not: the cached session may no longer be fresh, the cooldown may be over.
LEMMA OnlyOlder ==
  ASSUME CoordinatorInv, UNCHANGED <<vars, cmd>>,
         reader' \in {"idle", "full"},
         disk' \in Disks, disk'.cache = disk.cache,
         disk'.fresh => disk.fresh,
         disk.fresh /\ ~disk'.fresh => disk.cache \in excused',
         excused \subseteq excused', excused' \subseteq Sids,
         backoff' \in BOOLEAN, backoff' => backoff,
         disk'.cooldown = "live" => disk.cooldown = "live",
         backoff' => disk'.cooldown = "live"
  PROVE  CoordinatorInv'
<1>1. CoordinatorTypeOK'
  BY DEF CoordinatorInv, CoordinatorTypeOK, TypeOK, vars
<1>2. SessionKnown' /\ OperationKnown' /\ WriteKnown'
  BY DEF CoordinatorInv, vars, SessionKnown, OperationKnown, WriteKnown,
         LoggingIn, Probing, PerformedAtMostOnce, EvidenceIsHonest,
         LoginsBounded, Over, Unanswered
<1>3. FlagKnown(excused)'
  BY DEF CoordinatorInv, FlagKnown, Probing, vars
<1>4. CommandKnown'
  BY DEF CoordinatorInv, CommandKnown, vars
<1>5. InitialKnown' /\ CacheIsWorthIt'
  BY DEF CoordinatorInv, InitialKnown, CacheIsWorthIt, HasSession, vars
<1>6. SlotsKnown' /\ PoolFullBacksOff'
  BY DEF CoordinatorInv, SlotsKnown, NoOrphanedSlot, PoolFullBacksOff, vars
<1>q. QED
  BY <1>1, <1>2, <1>3, <1>4, <1>5, <1>6 DEF CoordinatorInv, CoordinatorTypeOK

\* What happens beside the commands: a public read, session clear-cache, time,
\* the gateway.
Besides ==
  \/ ReaderMeetsFullPool \/ ReaderRecords \/ ReaderGivesUp
  \/ ClearSessionState \/ CacheExpires \/ CooldownExpires
  \/ Gateway /\ UNCHANGED coordination

\* What happens beside the commands keeps the invariant: a public read records
\* a full pool only between commands, and the gateway only ends sessions.
LEMMA BesidesStep ==
  ASSUME CoordinatorInv, Besides
  PROVE  CoordinatorInv'
<1>1. /\ TypeOK /\ disk \in Disks /\ disk.cache \in Sids \cup {NoSid}
      /\ disk.fresh \in BOOLEAN /\ disk.cooldown \in Cooldowns
      /\ gw.live \subseteq Sids /\ excused \subseteq Sids /\ NoSid \notin Sids
      /\ backoff \in BOOLEAN
      /\ disk.fresh => disk.cache # NoSid
      /\ ~disk.fresh => disk.cache \in {NoSid} \cup excused
      /\ disk.cache \in Sids => disk.cache <= gw.dealt
      /\ backoff => disk.cooldown = "live" /\ disk.cache = NoSid
  BY DEF CoordinatorInv, CoordinatorTypeOK, TypeOK, Disks, Sids, NoSid,
         CommandKnown, SlotsKnown, PoolFullBacksOff
<1>2. ~cmd.on => /\ gw.live \subseteq {disk.cache} \cup excused
                 /\ disk.fresh => disk.cache \notin refused \ excused
  BY <1>1
     DEF CoordinatorInv, SlotsKnown, NoOrphanedSlot, CommandKnown,
         CacheIsWorthIt
<1>3. CASE ReaderMeetsFullPool \/ ReaderGivesUp
  <2>1. /\ UNCHANGED <<vars, disk, cmd, excused, backoff>>
        /\ reader' \in {"idle", "full"}
    BY <1>3 DEF ReaderMeetsFullPool, ReaderGivesUp
  <2>q. QED
    BY <1>1, <2>1, OnlyOlder
<1>4. CASE ReaderRecords
  <2>1. /\ ~cmd.on /\ UNCHANGED <<vars, cmd>> /\ reader' = "idle"
        /\ Remember({disk.cache})
    BY <1>4 DEF ReaderRecords
  <2>q. QED
    BY <1>2, <2>1, RememberSettles, SettledBeside
<1>5. CASE ClearSessionState
  <2>1. PICK k \in {"none", disk.cooldown} :
          disk' = WithCooldown(Emptied(disk), k)
    BY <1>5 DEF ClearSessionState
  <2>2. /\ Emptied(disk) \in Disks /\ Emptied(disk).cache = NoSid
        /\ Emptied(disk).fresh = FALSE
    BY <1>1, EmptiedFields
  <2>3. disk' \in Disks /\ disk'.cache = NoSid /\ disk'.fresh = FALSE
    BY <1>1, <2>1, <2>2, CooldownFields DEF Cooldowns
  <2>4. /\ ~cmd.on /\ UNCHANGED <<vars, cmd, reader>>
        /\ backoff' = (backoff /\ disk'.cooldown = "live")
        /\ excused' = excused \cup ({disk.cache} \cap Sids)
    BY <1>5 DEF ClearSessionState, Excuse
  <2>5. Settled
    BY <1>1, <1>2, <2>3, <2>4 DEF Settled, vars
  <2>6. reader' \in {"idle", "full"}
    BY <2>4 DEF CoordinatorInv, CoordinatorTypeOK
  <2>q. QED
    BY <2>4, <2>5, <2>6, SettledBeside
<1>6. CASE CacheExpires
  <2>1. /\ disk' \in Disks /\ disk'.cache = disk.cache /\ disk'.fresh = FALSE
        /\ disk'.cooldown = disk.cooldown
    BY <1>1, <1>6 DEF CacheExpires, Disks
  <2>2. /\ UNCHANGED <<vars, cmd, reader, backoff>> /\ disk.cache # NoSid
        /\ excused' = excused \cup ({disk.cache} \cap Sids)
    BY <1>6 DEF CacheExpires, Excuse
  <2>3. reader' \in {"idle", "full"}
    BY <2>2 DEF CoordinatorInv, CoordinatorTypeOK
  <2>q. QED
    BY <1>1, <2>1, <2>2, <2>3, OnlyOlder
<1>7. CASE CooldownExpires
  <2>1. /\ disk' \in Disks /\ disk'.cache = disk.cache
        /\ disk'.fresh = disk.fresh /\ disk'.cooldown = "expired"
    BY <1>1, <1>7, CooldownFields DEF CooldownExpires, Cooldowns
  <2>2. UNCHANGED <<vars, cmd, reader, excused>> /\ backoff' = FALSE
    BY <1>7 DEF CooldownExpires
  <2>3. reader' \in {"idle", "full"}
    BY <2>2 DEF CoordinatorInv, CoordinatorTypeOK
  <2>q. QED
    BY <1>1, <2>1, <2>2, <2>3, OnlyOlder
<1>8. CASE Gateway /\ UNCHANGED coordination
  <2>1. /\ UNCHANGED <<disk, cmd, reader, excused, backoff>>
        /\ UNCHANGED <<jar, auth, pc, op, outcome, refused>>
        /\ gw'.live \subseteq gw.live /\ gw'.dealt = gw.dealt
    BY <1>1, <1>8
       DEF coordination, Gateway, SessionEnds, OthersChange, session, TypeOK
  <2>2. /\ TypeOK' /\ SessionKnown' /\ OperationKnown' /\ WriteKnown'
        /\ auth' => jar' \notin refused' \ excused
        /\ Probing' /\ op'.flag => op'.held \notin refused' \ excused
    BY <1>8, ClientStep DEF Next
  <2>3. CoordinatorTypeOK' /\ FlagKnown(excused)'
    BY <2>1, <2>2 DEF CoordinatorInv, CoordinatorTypeOK, FlagKnown
  <2>4. CommandKnown' /\ SlotsKnown' /\ PoolFullBacksOff'
    BY <2>1
       DEF CoordinatorInv, CommandKnown, SlotsKnown, NoOrphanedSlot,
           PoolFullBacksOff
  <2>5. InitialKnown' /\ CacheIsWorthIt'
    BY <2>1 DEF CoordinatorInv, InitialKnown, CacheIsWorthIt, HasSession
  <2>q. QED
    BY <2>2, <2>3, <2>4, <2>5 DEF CoordinatorInv
<1>q. QED
  BY <1>3, <1>4, <1>5, <1>6, <1>7, <1>8 DEF Besides

\* The program starts with nothing cached and no session open.
LEMMA CoordinatorInitInv == CoordinatorInit => CoordinatorInv
<1> SUFFICES ASSUME CoordinatorInit
             PROVE  CoordinatorInv
  OBVIOUS
<1>1. /\ ~cmd.on /\ pc = "idle" /\ jar = NoSid /\ auth = FALSE /\ refused = {}
      /\ op = NoOp /\ op.kind = "get" /\ op.logins = 0 /\ op.sends = 0
      /\ op.answers = 0 /\ op.held = NoSid /\ op.flag = FALSE /\ performed = 0
      /\ gw.live = {} /\ gw.dealt = 0 /\ excused = {} /\ backoff = FALSE
      /\ disk.cache = NoSid /\ disk.fresh = FALSE /\ disk.cooldown = "none"
  BY DEF CoordinatorInit, NoOp, NoCommand
<1>2. CoordinatorTypeOK
  <2>1. gw \in [live : SUBSET Sids, others : 0..Slots, dealt : 0..MaxSids]
    BY ClientAssumption DEF CoordinatorInit
  <2>2. disk \in Disks
    BY DEF CoordinatorInit, Disks, Cooldowns
  <2>3. /\ jar \in Sids \cup {NoSid} /\ auth \in BOOLEAN /\ used \in BOOLEAN
        /\ performed \in Nat /\ refused \subseteq Sids
    <3>1. /\ jar = NoSid /\ auth = FALSE /\ used = FALSE /\ performed = 0
          /\ refused = {}
      BY DEF CoordinatorInit
    <3>q. QED
      BY <3>1
  <2>7. pc \in Points /\ outcome \in Outcomes
    BY DEF CoordinatorInit, Points, Outcomes
  <2>6. opts \in [code : BOOLEAN, wait : BOOLEAN]
    BY DEF CoordinatorInit, NoOptions
  <2>5. cmd \in Commands /\ op \in Ops
    BY NoCommandTyped DEF CoordinatorInit
  <2>4. /\ reader \in {"idle", "full"} /\ excused \subseteq Sids
        /\ backoff \in BOOLEAN
    BY <1>1 DEF CoordinatorInit
  <2>q. QED
    BY <2>1, <2>2, <2>3, <2>4, <2>5, <2>6, <2>7 DEF CoordinatorTypeOK, TypeOK
<1>3. SessionKnown /\ OperationKnown /\ WriteKnown /\ FlagKnown(excused)
  <2>1. SessionKnown
    BY <1>1 DEF SessionKnown, LoggingIn, Probing, Sids, NoSid
  <2>2. OperationKnown /\ FlagKnown(excused)
    BY <1>1 DEF OperationKnown, FlagKnown, LoggingIn, Probing
  <2>3. WriteKnown
    BY <1>1
       DEF WriteKnown, PerformedAtMostOnce, EvidenceIsHonest, LoginsBounded,
           Over
  <2>q. QED
    BY <2>1, <2>2, <2>3
<1>4. CommandKnown /\ SlotsKnown /\ InitialKnown
  BY <1>1
     DEF CoordinatorInit, CommandKnown, SlotsKnown, NoOrphanedSlot,
         InitialKnown, Sids, NoSid
<1>5. CacheIsWorthIt /\ PoolFullBacksOff
  BY <1>1 DEF CacheIsWorthIt, PoolFullBacksOff
<1>q. QED
  BY <1>2, <1>3, <1>4, <1>5 DEF CoordinatorInv

\* Works notes what its operation meets, and stays within the types.
LEMMA WorksIsWorking ==
  ASSUME CoordinatorInv, Works
  PROVE  Working
<1>1. cmd \in Commands
  BY DEF CoordinatorInv, CoordinatorTypeOK
<1>2. pc = "idle" => cmd.ops < MaxOps
  BY RequestIsRunning DEF Works
<1>3. outcome' \in Outcomes
  BY ClientStep DEF Works, Next, TypeOK
<1> DEFINE worked(n, f, m) == [cmd EXCEPT !.ops = n, !.forced = f, !.met = m]
           ops == IF pc = "idle" THEN cmd.ops + 1 ELSE cmd.ops
           forced == cmd.forced \/ op'.kind = "login"
           met == IF pc' = "idle" THEN cmd.met \cup {outcome'} ELSE cmd.met
<1>4. ASSUME NEW n \in 0..MaxOps, NEW f \in BOOLEAN, NEW m \in SUBSET Outcomes
      PROVE  /\ worked(n, f, m) \in Commands
             /\ worked(n, f, m).on = cmd.on
             /\ worked(n, f, m).initial = cmd.initial
             /\ worked(n, f, m).forced = f
  BY <1>1 DEF Commands
<1>5. cmd' = worked(ops, forced, met)
  BY DEF Works
<1>6. ops \in 0..MaxOps /\ forced \in BOOLEAN /\ met \in SUBSET Outcomes
  BY <1>1, <1>2, <1>3, CoordinatorAssumption DEF Commands
<1> HIDE DEF worked
<1>7. /\ cmd' \in Commands /\ cmd'.on = cmd.on /\ cmd'.initial = cmd.initial
      /\ cmd'.forced = forced
  BY <1>4, <1>5, <1>6
<1>q. QED
  BY <1>7 DEF Works, Working

\* Every step keeps the invariant.
LEMMA CoordinatorStep ==
  ASSUME CoordinatorInv, [CoordinatorNext]_allVars
  PROVE  CoordinatorInv'
<1>1. CASE BeginCommand
  BY <1>1, BeginCommandStep
<1>2. CASE Works
  BY <1>2, WorksIsWorking, WorkStep
<1>3. CASE \/ EndPoolFull \/ EndAuthError \/ EndForbidden \/ EndOtherError
           \/ EndNormally \/ Killed
  BY <1>3, EndStep
<1>4. CASE Besides
  BY <1>4, BesidesStep
<1>5. CASE UNCHANGED allVars
  BY <1>5, OnlyOlder
     DEF allVars, coordination, CoordinatorInv, CoordinatorTypeOK,
         PoolFullBacksOff
<1>q. QED
  BY <1>1, <1>2, <1>3, <1>4, <1>5 DEF CoordinatorNext, Besides

\* CoordinatorInv holds of every command, killed or not, with public reads,
\* time and the gateway beside it: with_router_session (session.py) never
\* leaves a refused session in the cache, and never a slot behind.
THEOREM CoordinatorInvariant == CoordinatorSpec => []CoordinatorInv
BY CoordinatorInitInv, CoordinatorStep, PTL DEF CoordinatorSpec

-----------------------------------------------------------------------------
(* The sweep                                                               *)

\* The walk goes on to the next page.
LEMMA PageDoneFields ==
  ASSUME sweep \in Sweeps, sweep.at <= Len(Walk), NEW b \in BOOLEAN,
         PageDone(b)
  PROVE  /\ sweep' \in Sweeps
         /\ sweep'.on = sweep.on /\ sweep'.stop = sweep.stop
         /\ sweep'.got = FALSE
         /\ sweep'.ok => sweep.ok \/ b
<1> DEFINE done(n, f) == [sweep EXCEPT !.at = n, !.part = 0, !.got = FALSE,
                                       !.ok = f]
<1>1. Len(Walk) \in Nat
  BY SweepAssumption
<1>2. sweep.at + 1 \in 1..Len(Walk) + 1 /\ (sweep.ok \/ b) \in BOOLEAN
  BY <1>1 DEF Sweeps
<1>3. ASSUME NEW n \in 1..Len(Walk) + 1, NEW f \in BOOLEAN
      PROVE  /\ done(n, f) \in Sweeps
             /\ done(n, f).on = sweep.on /\ done(n, f).stop = sweep.stop
             /\ done(n, f).got = FALSE /\ done(n, f).ok = f
  BY DEF Sweeps
<1>4. sweep' = done(sweep.at + 1, sweep.ok \/ b)
  BY DEF PageDone
<1> HIDE DEF done
<1>q. QED
  BY <1>2, <1>3, <1>4

\* The walk goes on to the next fallback of its page, or to the next page.
LEMMA NextPartFields ==
  ASSUME sweep \in Sweeps, sweep.at <= Len(Walk), NEW b \in BOOLEAN,
         NextPart(b)
  PROVE  /\ sweep' \in Sweeps
         /\ sweep'.on = sweep.on /\ sweep'.stop = sweep.stop
         /\ sweep'.got => b
         /\ sweep'.ok => sweep.ok \/ b
<1>1. CASE sweep.part < Fallbacks
  <2> DEFINE next(n) == [sweep EXCEPT !.part = n, !.got = b]
  <2>1. sweep.part + 1 \in Nat
    BY DEF Sweeps
  <2>2. ASSUME NEW n \in Nat
        PROVE  /\ next(n) \in Sweeps
               /\ next(n).on = sweep.on /\ next(n).stop = sweep.stop
               /\ next(n).got = b /\ next(n).ok = sweep.ok
    BY DEF Sweeps
  <2>3. sweep' = next(sweep.part + 1)
    BY <1>1 DEF NextPart
  <2> HIDE DEF next
  <2>q. QED
    BY <2>1, <2>2, <2>3
<1>2. CASE ~(sweep.part < Fallbacks)
  BY <1>2, PageDoneFields DEF NextPart
<1>q. QED
  BY <1>1, <1>2

\* What one read does to the walk, for each way a read can end: an error that
\* concerns the session as a whole stops it, the other errors never do, and
\* only a served page makes it answered.
LEMMA SettleFields ==
  ASSUME sweep \in Sweeps, ~WalkOver,
         NEW out \in {"ok", "auth", "forbidden", "full", "fault"},
         Settle(out)
  PROVE  /\ sweep' \in Sweeps /\ sweep'.on = sweep.on
         /\ out \in {"auth", "full"} => sweep'.stop = out
         /\ out \notin {"auth", "full"} => sweep'.stop = "no"
         /\ sweep'.got \/ sweep'.ok => sweep.got \/ sweep.ok \/ out = "ok"
<1>1. sweep.at <= Len(Walk) /\ sweep.stop = "no" /\ sweep.got \in BOOLEAN
  BY SweepAssumption DEF WalkOver, Sweeps
<1>2. CASE out \in {"auth", "full"}
  <2>1. sweep' = [sweep EXCEPT !.stop = out]
    BY <1>2 DEF Settle, PageLevel
  <2>q. QED
    BY <1>2, <2>1 DEF Sweeps
<1>3. CASE out = "ok"
  <2>1. Usable \/ Unusable \/ (sweep.part = 0 /\ PageDone(FALSE))
    BY <1>3 DEF Settle, Served
  <2>2. \/ PageDone(TRUE) \/ NextPart(TRUE)
        \/ NextPart(sweep.got) \/ PageDone(FALSE)
    BY <2>1 DEF Usable, Unusable
  <2>q. QED
    BY <1>1, <1>3, <2>2, PageDoneFields, NextPartFields
<1>4. CASE out \in {"forbidden", "fault"}
  <2>1. NextPart(sweep.got)
    BY <1>4 DEF Settle, PageLevel, Unusable
  <2>q. QED
    BY <1>1, <1>4, <2>1, NextPartFields
<1>q. QED
  BY <1>2, <1>3, <1>4

\* No sweep is of the type of sweeps.
LEMMA NoSweepTyped == NoSweep \in Sweeps
BY SweepAssumption DEF NoSweep, Sweeps

\* A sweep begins as a command that has met nothing yet.
LEMMA BeginSweepStep ==
  ASSUME SweepInv, BeginSweep
  PROVE  SweepInv'
<1>1. CoordinatorInv'
  BY BeginCommandStep DEF SweepInv, BeginSweep
<1>2. PICK r \in BOOLEAN : sweep' = [NoSweep EXCEPT !.on = TRUE, !.raw = r]
  BY DEF BeginSweep
<1>3. /\ sweep'.on /\ sweep'.stop = "no" /\ ~sweep'.got /\ ~sweep'.ok
      /\ sweep' \in Sweeps
  BY <1>2, NoSweepTyped DEF NoSweep, Sweeps
<1>4. /\ cmd'.on /\ cmd'.ops = 0 /\ cmd'.met = {} /\ op'.kind = "get"
      /\ Over'
  BY DEF BeginSweep, BeginCommand, NoCommand, NoOp, Over
<1>5. SweepKnown'
  BY <1>3, <1>4 DEF SweepKnown
<1>q. QED
  BY <1>1, <1>3, <1>5 DEF SweepInv, SweepTypeOK

\* A request of the walk is a step of an operation of its command, and what it
\* meets is noted.
LEMMA NotedIsWorking ==
  ASSUME SweepInv, sweep.on, BeginGet \/ Request, SweepNoted
  PROVE  /\ Working
         /\ cmd'.ops = 0 /\ op'.kind = "get"
         /\ cmd'.met = IF pc' = "idle" THEN cmd.met \cup {outcome'}
                       ELSE cmd.met
<1>1. /\ CoordinatorInv /\ cmd \in Commands /\ TypeOK
      /\ cmd.on /\ cmd.ops = 0 /\ op.kind = "get" /\ ~Single
  BY DEF SweepInv, SweepKnown, CoordinatorInv, CoordinatorTypeOK, Single
<1>2. op'.kind = "get"
  <2>1. CASE BeginGet
    <3>1. op' = Begun("get")
      BY <2>1 DEF BeginGet
    <3>2. jar \in Sids \cup {NoSid} /\ auth \in BOOLEAN /\ "get" \in Kinds
      BY <1>1 DEF TypeOK, Kinds
    <3>q. QED
      BY <3>1, <3>2, BegunFields
  <2>2. CASE Request
    BY <1>1, <2>2, RequestKeeps
  <2>q. QED
    BY <2>1, <2>2
<1>3. outcome' \in Outcomes
  BY <1>1, ClientStep DEF Next, BeginOperation, TypeOK
<1> DEFINE met == IF pc' = "idle" THEN cmd.met \cup {outcome'} ELSE cmd.met
           noted(m) == [cmd EXCEPT !.met = m]
<1>4. ASSUME NEW m \in SUBSET Outcomes
      PROVE  /\ noted(m) \in Commands /\ noted(m).on = cmd.on
             /\ noted(m).initial = cmd.initial /\ noted(m).ops = cmd.ops
             /\ noted(m).forced = cmd.forced /\ noted(m).met = m
  BY <1>1 DEF Commands
<1>5. met \in SUBSET Outcomes
  BY <1>1, <1>3 DEF Commands
<1>6. cmd' = noted(met)
  BY DEF SweepNoted
<1> HIDE DEF noted
<1>7. /\ cmd' \in Commands /\ cmd'.on /\ cmd'.initial = cmd.initial
      /\ cmd'.ops = 0 /\ cmd'.forced = cmd.forced /\ cmd'.met = met
  BY <1>1, <1>4, <1>5, <1>6
<1>8. cmd'.forced = (cmd.forced \/ op'.kind = "login")
  <2>1. cmd.forced \in BOOLEAN
    BY <1>1 DEF Commands
  <2>q. QED
    BY <1>2, <1>7, <2>1
<1>9. /\ \/ ~Single /\ BeginOperation
         \/ Request
      /\ Excuse(IF auth' THEN {} ELSE {jar'} \cap gw'.live)
      /\ UNCHANGED <<disk, reader, backoff>>
  BY <1>1 DEF SweepNoted, BeginOperation
<1>q. QED
  BY <1>1, <1>2, <1>7, <1>8, <1>9 DEF Working

\* A page is asked for only while the walk goes on.
LEMMA ReadPageStep ==
  ASSUME SweepInv, ReadPage
  PROVE  SweepInv'
<1>1. /\ sweep.on /\ ~WalkOver /\ BeginGet /\ SweepNoted /\ UNCHANGED sweep
  BY DEF ReadPage
<1>2. CoordinatorInv'
  BY <1>1, NotedIsWorking, WorkStep DEF SweepInv
<1>3. pc' # "idle"
  BY <1>1 DEF BeginGet, Goto
<1>4. /\ cmd'.on /\ cmd'.ops = 0 /\ op'.kind = "get" /\ cmd'.met = cmd.met
  BY <1>1, <1>3, NotedIsWorking DEF Working
<1>5. SweepKnown'
  BY <1>1, <1>4 DEF SweepInv, SweepKnown, WalkOver
<1>q. QED
  BY <1>1, <1>2, <1>5 DEF SweepInv, SweepTypeOK

\* One request of a page read: if it ends the read, what it met is settled in
\* the same step.
LEMMA ReadGoesOnStep ==
  ASSUME SweepInv, ReadGoesOn
  PROVE  SweepInv'
<1>1. /\ sweep.on /\ Request /\ SweepNoted
      /\ IF pc' = "idle" THEN Settle(outcome') ELSE UNCHANGED sweep
  BY DEF ReadGoesOn
<1>2. CoordinatorInv'
  BY <1>1, NotedIsWorking, WorkStep DEF SweepInv
<1>3. /\ cmd'.on /\ cmd'.ops = 0 /\ op'.kind = "get"
      /\ cmd'.met = IF pc' = "idle" THEN cmd.met \cup {outcome'} ELSE cmd.met
  BY <1>1, NotedIsWorking DEF Working
<1>4. sweep \in Sweeps /\ ~WalkOver /\ sweep.stop = "no"
  BY <1>1, RequestIsRunning
     DEF SweepInv, SweepTypeOK, SweepKnown, Over, WalkOver
<1>5. cmd.met \cap {"full", "auth"} = {}
  BY <1>1, <1>4 DEF SweepInv, SweepKnown
<1>6. CASE pc' = "idle"
  <2>1. outcome' \in {"ok", "auth", "forbidden", "full", "fault"}
    BY <1>1, <1>6, OutcomesOfRead DEF SweepInv, SweepKnown, CoordinatorInv
  <2>2. Settle(outcome')
    BY <1>1, <1>6
  <2>3. /\ sweep' \in Sweeps /\ sweep'.on = sweep.on
        /\ outcome' \in {"auth", "full"} => sweep'.stop = outcome'
        /\ outcome' \notin {"auth", "full"} => sweep'.stop = "no"
        /\ sweep'.got \/ sweep'.ok => sweep.got \/ sweep.ok \/ outcome' = "ok"
    BY <1>4, <2>1, <2>2, SettleFields
  <2>4. cmd'.met = cmd.met \cup {outcome'} /\ Over'
    BY <1>3, <1>6 DEF Over
  <2>5. sweep.got \/ sweep.ok => "ok" \in cmd.met
    BY <1>1 DEF SweepInv, SweepKnown
  <2>6. SweepKnown'
    BY <1>1, <1>3, <1>5, <2>1, <2>3, <2>4, <2>5 DEF SweepKnown
  <2>q. QED
    BY <1>2, <2>3, <2>6 DEF SweepInv, SweepTypeOK
<1>7. CASE pc' # "idle"
  <2>1. UNCHANGED sweep /\ cmd'.met = cmd.met
    BY <1>1, <1>3, <1>7
  <2>2. ~WalkOver'
    BY <1>4, <2>1 DEF WalkOver
  <2>3. SweepKnown'
    BY <1>1, <1>3, <2>1, <2>2 DEF SweepInv, SweepKnown
  <2>q. QED
    BY <1>2, <2>1, <2>3 DEF SweepInv, SweepTypeOK
<1>q. QED
  BY <1>6, <1>7

\* A sweep ends as one of the ways a command ends.
LEMMA EndSweepStep ==
  ASSUME SweepInv, EndSweep
  PROVE  SweepInv'
<1>1. sweep' = NoSweep /\ sweep'.on = FALSE
  BY DEF EndSweep, NoSweep
<1>2. \/ EndPoolFull \/ EndAuthError \/ EndForbidden \/ EndOtherError
      \/ EndNormally \/ Killed
  BY DEF EndSweep, SweepPoolFull, SweepAuthError, SweepOver, SweepBroken
<1>3. CoordinatorInv'
  BY <1>2, EndStep DEF SweepInv
<1>q. QED
  BY <1>1, <1>3, NoSweepTyped DEF SweepInv, SweepTypeOK, SweepKnown

\* While no sweep runs, its invariant is that of the commands.
LEMMA NoSweepStep ==
  ASSUME SweepInv, ~sweep.on, UNCHANGED sweep, CoordinatorInv'
  PROVE  SweepInv'
BY DEF SweepInv, SweepTypeOK, SweepKnown

\* The commands that are no sweep keep the invariant.
LEMMA OtherCommandStep ==
  ASSUME SweepInv, OtherCommand
  PROVE  SweepInv'
<1>1. /\ ~sweep.on /\ UNCHANGED sweep
      /\ \/ BeginCommand \/ Works
         \/ EndPoolFull \/ EndAuthError \/ EndForbidden \/ EndOtherError
            \/ EndNormally \/ Killed
  BY DEF OtherCommand
<1>2. CoordinatorInv
  BY DEF SweepInv
<1>3. CoordinatorInv'
  BY <1>1, <1>2, BeginCommandStep, WorksIsWorking, WorkStep, EndStep
<1>q. QED
  BY <1>1, <1>3, NoSweepStep

\* So does what happens beside the commands: it touches neither the walk nor
\* the operation that runs.
LEMMA BesideStep ==
  ASSUME SweepInv, Beside \/ UNCHANGED sweepVars
  PROVE  SweepInv'
<1>1. CoordinatorInv'
  <2>1. CASE Beside
    BY <2>1, BesidesStep DEF Beside, Besides, SweepInv
  <2>2. CASE UNCHANGED sweepVars
    BY <2>2, CoordinatorStep DEF sweepVars, SweepInv
  <2>q. QED
    BY <2>1, <2>2
<1>2. UNCHANGED <<sweep, cmd, op, pc>>
  BY DEF Beside, sweepVars, allVars, coordination, vars, ReaderMeetsFullPool,
         ReaderRecords, ReaderGivesUp, ClearSessionState, CacheExpires,
         CooldownExpires, Gateway, SessionEnds, OthersChange
<1>q. QED
  BY <1>1, <1>2 DEF SweepInv, SweepTypeOK, SweepKnown, Over, WalkOver

\* SweepInv holds of every sweep (walk_pages and the layers under it).
THEOREM SweepInvariant == SweepSpec => []SweepInv
<1>1. SweepInit => SweepInv
  <2> SUFFICES ASSUME SweepInit
               PROVE  SweepInv
    OBVIOUS
  <2>1. CoordinatorInv
    BY CoordinatorInitInv DEF SweepInit
  <2>2. sweep = NoSweep /\ sweep.on = FALSE
    BY DEF SweepInit, NoSweep
  <2>q. QED
    BY <2>1, <2>2, NoSweepTyped DEF SweepInv, SweepTypeOK, SweepKnown
<1>2. SweepInv /\ [SweepNext]_sweepVars => SweepInv'
  BY BeginSweepStep, ReadPageStep, ReadGoesOnStep, EndSweepStep,
     OtherCommandStep, BesideStep
     DEF SweepNext
<1>q. QED
  BY <1>1, <1>2, PTL DEF SweepSpec

\* with_router_session: no refused session is left for the next command, and
\* no login is spent while the session found is good, sweeps included.
THEOREM CacheOfSweepIsWorthIt == SweepSpec => []CacheIsWorthIt
BY SweepInvariant, PTL DEF SweepInv, CoordinatorInv

\* Every live session the program opened is in use, in the cache, or excused.
THEOREM NoSlotOrphaned == SweepSpec => []NoOrphanedSlot
BY SweepInvariant, PTL DEF SweepInv, CoordinatorInv, SlotsKnown

\* walk_pages, _fetch_soft, fetch_device_list and _safe_sweep_page let a
\* session failure pass through all of them: nothing is sent after it, and
\* exit 0 needs a served page.
THEOREM RefusalStopsEverything == SweepSpec => []RefusalStopsAll
<1>1. SweepInv => RefusalStopsAll
  <2> SUFFICES ASSUME SweepInv
               PROVE  RefusalStopsAll
    OBVIOUS
  <2>1. PoolFullBacksOff
    BY DEF SweepInv, CoordinatorInv
  <2>2. ASSUME sweep.on, cmd.met \cap {"full", "auth"} # {}
        PROVE  Over /\ sweep.stop \in cmd.met
    <3>1. sweep.stop # "no" /\ sweep.stop \in cmd.met
      BY <2>2 DEF SweepInv, SweepKnown
    <3>q. QED
      BY <2>2, <3>1 DEF SweepInv, SweepKnown, WalkOver
  <2>3. sweep.on /\ sweep.ok => "ok" \in cmd.met
    BY DEF SweepInv, SweepKnown
  <2>q. QED
    BY <2>1, <2>2, <2>3 DEF RefusalStopsAll
<1>q. QED
  BY <1>1, SweepInvariant, PTL
===============================================================================
