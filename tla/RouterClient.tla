---------------------------- MODULE RouterClient ----------------------------
(***************************************************************************)
(* The HTTP client of client.py against the small pool of web sessions of  *)
(* the gateway.  One operation (a page read, a write, a login or a probe)  *)
(* runs at a time; each action is one request and its answer, so the pool  *)
(* can fill and a session can end between any two requests.                *)
(*                                                                         *)
(* The gateway is external, modelled as the client's code expects it to    *)
(* answer: a protected page is served to the cookie of a live session;     *)
(* any other request gets the pool-full page while all slots are taken,    *)
(* and otherwise the Login page (itself, or by a redirect), with a fresh   *)
(* cookie that becomes a live session by logging in.                       *)
(***************************************************************************)
EXTENDS Naturals, FiniteSets

CONSTANTS Slots,     \* size of the gateway's pool
          MaxSids    \* bound: cookies the gateway deals in a behaviour

ASSUME ClientAssumption == Slots \in Nat \ {0} /\ MaxSids \in Nat \ {0}

VARIABLES
  gw,        \* gateway: live sessions, slots others use, cookies dealt so far
  jar, auth, \* client: its session cookie (or NoSid), and its flag
  used,      \* client: its usage counters have moved
  opts,      \* client: it has an access code; it waits for a free session
  pc, op,    \* the operation: its point and its locals
  outcome,   \* how the last operation ended
  performed, \* history: how often the gateway performed the current write
  refused    \* history: the cookies the gateway has refused to serve

vars == <<gw, jar, auth, used, opts, pc, op, outcome, performed, refused>>
session == <<jar, auth>>

NoSid == 0
Sids == 1..MaxSids

Kinds == {"get", "post", "login", "probe"}
Points == {"idle", "get", "retry", "handshake", "wait", "submit", "write",
           "probe", "probeWait", "reprobe"}
Answers == {"none", "page", "forbidden", "error", "login"}

\* RouterAuthError is "auth", or "forbidden" when it concerns one page only;
\* "refused" is NoncePageRefusedError; "dead" and "unknown" are negative probes.
Outcomes == {"ok", "auth", "forbidden", "full", "fault", "refused", "dead",
             "unknown"}

NoOp == [kind |-> "get", after |-> "idle", logins |-> 0, sends |-> 0,
         answers |-> 0, last |-> "none", held |-> NoSid, flag |-> FALSE]

Ops == [kind : Kinds, after : Points, logins : Nat, sends : Nat,
        answers : Nat, last : Answers, held : Sids \cup {NoSid},
        flag : BOOLEAN]

TypeOK ==
  /\ gw \in [live : SUBSET Sids, others : 0..Slots, dealt : 0..MaxSids]
  /\ jar \in Sids \cup {NoSid} /\ auth \in BOOLEAN /\ used \in BOOLEAN
  /\ opts \in [code : BOOLEAN, wait : BOOLEAN]
  /\ pc \in Points
  /\ op \in Ops
  /\ outcome \in Outcomes
  /\ performed \in Nat /\ refused \subseteq Sids

Init ==
  /\ gw \in [live : {{}, {1}}, others : 0..Slots, dealt : {1}]
  /\ Cardinality(gw.live) + gw.others <= Slots
  /\ \/ jar = NoSid /\ auth = FALSE
     \/ jar = 1 /\ auth = TRUE   \* a cached session, which may be dead by now
  /\ opts \in [code : BOOLEAN, wait : BOOLEAN]
  /\ used = FALSE /\ pc = "idle" /\ op = NoOp /\ outcome = "ok"
  /\ performed = 0 /\ refused = {}

-----------------------------------------------------------------------------
(* Helpers                                                                 *)

Serves == jar \in gw.live
Full == Cardinality(gw.live) + gw.others >= Slots
PoolFull == ~Serves /\ Full
Bounces == ~Serves /\ ~Full

HasSession == auth /\ jar # NoSid
CanWait == opts.wait /\ opts.code

Goto(p) == pc' = p /\ UNCHANGED outcome
End(out) == pc' = "idle" /\ outcome' = out
ClearSession == jar' = NoSid /\ auth' = FALSE
NoteRefusal == refused' = refused \cup ({jar} \cap Sids)
Unread == UNCHANGED <<gw, used, opts, op, performed, refused>>

\* The Login page comes with a fresh cookie.
Deal ==
  /\ gw.dealt < MaxSids
  /\ gw' = [gw EXCEPT !.dealt = @ + 1]
  /\ jar' = gw.dealt + 1

\* A login of operation o, which goes on at a point after it.
LoginCounted(o, after) == [o EXCEPT !.logins = @ + 1, !.after = after]

\* Mutant of Login: a forced login leaves the flag of the lost session.
LoginKeepingFlag(start, after) ==
  /\ used' = TRUE /\ UNCHANGED auth
  /\ op' = LoginCounted(op, after)
  /\ IF opts.code THEN Goto(start) ELSE End("auth")

\* login(): it counts as usage before it looks for the access code.
Login(start, after) ==
  /\ auth' = FALSE /\ used' = TRUE
  /\ op' = LoginCounted(op, after)
  /\ IF opts.code THEN Goto(start) ELSE End("auth")

\* The page is read: a write goes on to its POST.
Read ==
  /\ used' = TRUE
  /\ IF op.kind = "post" THEN Goto("write") ELSE End("ok")

-----------------------------------------------------------------------------
(* Operations                                                              *)

New(kind) == [NoOp EXCEPT !.kind = kind]

\* A probe goes back to the session held before it.
Begun(kind) == [New(kind) EXCEPT !.held = jar, !.flag = auth]

BeginGet ==
  /\ pc = "idle"
  /\ op' = Begun("get") /\ Goto("get") /\ performed' = 0
  /\ UNCHANGED <<gw, session, used, opts, refused>>

\* Without a session a write logs in first: its nonce page may be public.
BeginPost ==
  /\ pc = "idle"
  /\ performed' = 0
  /\ IF HasSession THEN op' = Begun("post") /\ Goto("get") /\ UNCHANGED <<auth, used>>
     ELSE /\ auth' = FALSE /\ used' = TRUE
          /\ op' = LoginCounted(New("post"), "get")
          /\ IF opts.code THEN Goto("handshake") ELSE End("auth")
  /\ UNCHANGED <<gw, jar, opts, refused>>

\* login(force=True), the auth command: a held session is no proof.
BeginLogin ==
  /\ pc = "idle"
  /\ auth' = FALSE /\ used' = TRUE /\ performed' = 0
  /\ op' = LoginCounted(New("login"), "idle")
  /\ IF opts.code THEN Goto("handshake") ELSE End("auth")
  /\ UNCHANGED <<gw, jar, opts, refused>>

BeginProbe ==
  /\ pc = "idle"
  /\ HasSession
  /\ op' = Begun("probe") /\ Goto("probe") /\ performed' = 0
  /\ UNCHANGED <<gw, session, used, opts, refused>>

-----------------------------------------------------------------------------
(* get_cgi_page                                                            *)

PageServed ==
  /\ pc \in {"get", "retry"} /\ Serves
  /\ Read
  /\ UNCHANGED <<gw, session, opts, op, performed, refused>>

\* A 401/403 of the page itself says nothing about the session.
PageForbidden ==
  /\ pc \in {"get", "retry"} /\ Serves
  /\ End("forbidden")
  /\ UNCHANGED session /\ Unread

\* No answer, an HTTP error, or an answer over the size limit.
ReadFails ==
  /\ pc \in {"get", "retry"}
  /\ End("fault")
  /\ UNCHANGED session /\ Unread

\* A full pool is the answer, whatever code is held, unless it can be waited out.
PagePoolFull ==
  /\ pc = "get" /\ PoolFull
  /\ NoteRefusal
  /\ IF CanWait THEN Login("wait", "retry") /\ UNCHANGED jar
     ELSE ClearSession /\ End("full") /\ UNCHANGED <<used, op>>
  /\ UNCHANGED <<gw, opts, performed>>

\* The Login page, with or without its nonce: one forced login.
PageBounced ==
  /\ pc = "get" /\ Bounces
  /\ NoteRefusal /\ Deal
  /\ \E start \in {"submit", "handshake"} : Login(start, "retry")
  /\ UNCHANGED <<opts, performed>>

PageBouncedWithError ==
  /\ pc = "get" /\ Bounces
  /\ NoteRefusal
  /\ ClearSession /\ \E out \in {"auth", "fault"} : End(out)
  /\ UNCHANGED <<gw, used, opts, op, performed>>

\* Mutant of RetryBounced: an HTTP error status keeps the session.
RetryBouncedKept ==
  /\ pc = "retry" /\ ~Serves
  /\ NoteRefusal
  /\ IF Full THEN ClearSession /\ End("full") ELSE UNCHANGED session /\ End("fault")
  /\ UNCHANGED <<gw, used, opts, op, performed>>

\* After the fresh login the same answers are final.
RetryBounced ==
  /\ pc = "retry" /\ ~Serves
  /\ NoteRefusal
  /\ ClearSession
  /\ IF Full THEN End("full") ELSE \E out \in {"auth", "fault"} : End(out)
  /\ UNCHANGED <<gw, used, opts, op, performed>>

-----------------------------------------------------------------------------
(* login                                                                   *)

HandshakeFull ==
  /\ pc = "handshake" /\ PoolFull
  /\ IF opts.wait THEN Goto("wait") ELSE End("full")
  /\ UNCHANGED session /\ Unread

HandshakeAnswered ==
  /\ pc = "handshake" /\ ~PoolFull
  /\ IF Serves THEN UNCHANGED <<gw, jar>> ELSE Deal
  /\ Goto("submit")
  /\ UNCHANGED <<auth, used, opts, op, performed, refused>>

SessionFreed ==
  /\ pc = "wait" /\ Bounces
  /\ Deal /\ Goto("submit")
  /\ UNCHANGED <<auth, used, opts, op, performed, refused>>

WaitOver ==
  /\ pc = "wait"
  /\ End("full")
  /\ UNCHANGED session /\ Unread

\* No connection, a 401/403 of the login page, or no nonce on it in 8 tries.
HandshakeFails ==
  /\ pc \in {"handshake", "wait"}
  /\ \/ UNCHANGED session /\ \E out \in {"auth", "fault"} : End(out)
     \/ ClearSession /\ End("auth")
  /\ Unread

\* The redirect to home.ha, or an ordinary page and a probe that is served.
LoginAccepted ==
  /\ pc = "submit" /\ ~PoolFull
  /\ gw' = [gw EXCEPT !.live = @ \cup {jar}]
  /\ auth' = TRUE
  /\ IF op.after = "idle" THEN End("ok") ELSE Goto(op.after)
  /\ UNCHANGED <<jar, used, opts, op, performed, refused>>

LoginPoolFull ==
  /\ pc = "submit" /\ PoolFull
  /\ ClearSession /\ End("full")
  /\ Unread

LoginRefused ==
  /\ pc = "submit" /\ ~PoolFull
  /\ jar' \in {jar, NoSid} /\ UNCHANGED auth
  /\ End("auth")
  /\ Unread

\* The answer is lost: the gateway may have opened the session.
LoginLost ==
  /\ pc = "submit"
  /\ gw' \in {gw} \cup {g \in {[gw EXCEPT !.live = @ \cup {jar}]} : ~PoolFull}
  /\ End("fault")
  /\ UNCHANGED <<session, used, opts, op, performed, refused>>

-----------------------------------------------------------------------------
(* post_form                                                               *)

\* The nonce page is a page-not-found page, cut, or has no form.
NoncePageRefused ==
  /\ pc = "write"
  /\ End("refused")
  /\ UNCHANGED session /\ Unread

\* A POST and its answer ("none": it never came).
Sent(answer) ==
  [op EXCEPT !.sends = @ + 1, !.last = answer,
             !.answers = IF answer = "none" THEN @ ELSE @ + 1]

WriteAccepted ==
  /\ pc = "write" /\ Serves
  /\ op' = Sent("page") /\ performed' = performed + 1 /\ used' = TRUE
  /\ End("ok")
  /\ UNCHANGED <<gw, session, opts, refused>>

WriteForbidden ==
  /\ pc = "write" /\ Serves
  /\ op' = Sent("forbidden")
  /\ End("forbidden")
  /\ UNCHANGED <<gw, session, used, opts, performed, refused>>

\* An HTTP error does not say whether the change was made.
WriteErrored ==
  /\ pc = "write" /\ Serves
  /\ op' = Sent("error") /\ performed' \in {performed, performed + 1}
  /\ End("fault")
  /\ UNCHANGED <<gw, session, used, opts, refused>>

\* Mutant of WriteLost: a write without an answer is sent again.
WriteLostAndResent ==
  /\ pc = "write"
  /\ op' = Sent("none")
  /\ performed' \in {performed} \cup {n \in {performed + 1} : Serves}
  /\ IF op.sends = 0 THEN Goto("get") ELSE End("fault")
  /\ UNCHANGED <<gw, session, used, opts, refused>>

WriteLost ==
  /\ pc = "write"
  /\ op' = Sent("none")
  /\ performed' \in {performed} \cup {n \in {performed + 1} : Serves}
  /\ End("fault")
  /\ UNCHANGED <<gw, session, used, opts, refused>>

\* Mutant of SendsAgain: every Login page has the write sent again.
SendsAlways == op.kind = "post"

\* Only a Login page in answer to the first POST has the write sent again,
\* after one forced login and a fresh nonce.
SendsAgain == op.sends = 0

WritePoolFull ==
  /\ pc = "write" /\ PoolFull
  /\ NoteRefusal
  /\ IF SendsAgain /\ CanWait
     THEN /\ op' = LoginCounted(Sent("login"), "get")
          /\ auth' = FALSE /\ used' = TRUE /\ Goto("wait") /\ UNCHANGED jar
     ELSE op' = Sent("login") /\ ClearSession /\ End("full") /\ UNCHANGED used
  /\ UNCHANGED <<gw, opts, performed>>

WriteBounced ==
  /\ pc = "write" /\ Bounces
  /\ NoteRefusal
  /\ IF SendsAgain
     THEN /\ Deal
          /\ op' = LoginCounted(Sent("login"), "get")
          /\ auth' = FALSE /\ used' = TRUE
          /\ IF opts.code THEN \E p \in {"submit", "handshake"} : Goto(p)
             ELSE End("auth")
     ELSE /\ op' = Sent("login") /\ ClearSession /\ End("auth")
          /\ UNCHANGED <<gw, used>>
  /\ UNCHANGED <<opts, performed>>

\* A redirect to the login page is never followed by a second POST.
WriteRedirected ==
  /\ pc = "write" /\ Bounces
  /\ NoteRefusal
  /\ op' = Sent("login") /\ ClearSession /\ End("auth")
  /\ UNCHANGED <<gw, used, opts, performed>>

\* Mutant of Unanswered: one answer stands for all POSTs of the write.
UnansweredAtAll == op.sends > 0 /\ op.answers = 0

\* observe_post: the last POST has an answer only when every POST has one.
Unanswered == op.answers < op.sends

-----------------------------------------------------------------------------
(* probe_session_accepted                                                  *)

ProbeServed ==
  /\ pc \in {"probe", "reprobe"} /\ Serves
  /\ End("ok")
  /\ UNCHANGED session /\ Unread

\* After a wait the cookie may be a new one: the verdict is on the held session.
ProbeRefused ==
  /\ pc \in {"probe", "reprobe"} /\ Bounces
  /\ refused' = refused \cup ({jar, op.held} \cap Sids)
  /\ ClearSession /\ End("dead")
  /\ UNCHANGED <<gw, used, opts, op, performed>>

\* No answer about the session: it is restored as it was before the probe.
ProbeUnanswered ==
  /\ pc \in {"probe", "reprobe"}
  /\ jar' = op.held /\ auth' = op.flag
  /\ End("unknown")
  /\ Unread

ProbeFull ==
  /\ pc \in {"probe", "reprobe"} /\ PoolFull
  /\ IF pc = "probe" /\ opts.wait THEN Goto("probeWait") ELSE End("full")
  /\ UNCHANGED session /\ Unread

ProbeWaited ==
  /\ pc = "probeWait" /\ ~PoolFull
  /\ IF Serves THEN UNCHANGED <<gw, jar>> ELSE Deal
  /\ Goto("reprobe")
  /\ UNCHANGED <<auth, used, opts, op, performed, refused>>

ProbeWaitOver ==
  /\ pc = "probeWait"
  /\ \E out \in {"full", "fault"} : End(out)
  /\ UNCHANGED session /\ Unread

\* A 401/403 of the login page.
ProbeWaitRefused ==
  /\ pc = "probeWait" /\ ~Serves
  /\ NoteRefusal
  /\ ClearSession /\ End("auth")
  /\ UNCHANGED <<gw, used, opts, op, performed>>

-----------------------------------------------------------------------------
(* Environment: the gateway ends sessions, others come and go              *)

SessionEnds ==
  /\ \E s \in gw.live : gw' = [gw EXCEPT !.live = @ \ {s}]
  /\ UNCHANGED <<session, used, opts, pc, op, outcome, performed, refused>>

OthersChange ==
  /\ \E n \in 0..Slots :
       /\ n # gw.others /\ Cardinality(gw.live) + n <= Slots
       /\ gw' = [gw EXCEPT !.others = n]
  /\ UNCHANGED <<session, used, opts, pc, op, outcome, performed, refused>>

-----------------------------------------------------------------------------
Request ==
  \/ PageServed \/ PageForbidden \/ ReadFails \/ PagePoolFull \/ PageBounced
  \/ PageBouncedWithError \/ RetryBounced
  \/ HandshakeFull \/ HandshakeAnswered \/ SessionFreed \/ WaitOver
  \/ HandshakeFails \/ LoginAccepted \/ LoginPoolFull \/ LoginRefused
  \/ LoginLost
  \/ NoncePageRefused \/ WriteAccepted \/ WriteForbidden \/ WriteErrored
  \/ WriteLost \/ WritePoolFull \/ WriteBounced \/ WriteRedirected
  \/ ProbeServed \/ ProbeRefused \/ ProbeUnanswered \/ ProbeFull
  \/ ProbeWaited \/ ProbeWaitOver \/ ProbeWaitRefused

BeginOperation == BeginGet \/ BeginPost \/ BeginLogin \/ BeginProbe

Gateway == SessionEnds \/ OthersChange

Next == BeginOperation \/ Request \/ Gateway

Spec == Init /\ [][Next]_vars

-----------------------------------------------------------------------------
(* Properties                                                              *)

Over == pc = "idle"

\* One write is performed at most once by the gateway, also when its session
\* ends under it, the pool fills, or the write is sent again after a login.
PerformedAtMostOnce == performed <= 1

\* A failed write that the gateway may have performed always shows it: its
\* last POST has no answer, or the answer was an HTTP error.  So what is
\* reported as refused or not sent was not performed.
EvidenceIsHonest ==
  Over /\ op.kind = "post" /\ outcome # "ok" /\ performed > 0 =>
    Unanswered \/ op.last = "error"

\* The pool is small: a read logs in at most once and a write four times, and
\* no write leaves more than twice.
LoginsBounded ==
  /\ op.sends <= 2 /\ op.logins <= 4
  /\ op.kind # "post" => op.sends = 0 /\ op.logins <= 1
  /\ op.kind = "probe" => op.logins = 0

\* The outcome agrees with the session.  The client says it has one only for a
\* cookie that the gateway has not refused: a bounced or pool-full session is
\* never kept, or cached, as good.  A session-wide refusal leaves none, and no
\* answer about it changes nothing.
OutcomeMatchesSession ==
  Over =>
    /\ HasSession => jar \notin refused
    /\ outcome \in {"auth", "dead"} => ~HasSession
    /\ outcome = "full" /\ op.kind # "probe" => ~HasSession
    /\ outcome = "unknown" => jar = op.held /\ auth = op.flag

\* The inductive invariant behind these.  Whose session a cookie is, and where
\* the flag may be set; a probe holds the session it is about, or that one is
\* dead.
Probing == pc \in {"probe", "probeWait", "reprobe"}
LoggingIn == pc \in {"handshake", "wait", "submit"}

SessionKnown ==
  /\ auth => jar # NoSid
  /\ gw.live \cup refused \cup ({jar} \cap Sids) \subseteq 1..gw.dealt
  /\ gw.live \cap refused = {}
  /\ LoggingIn => ~auth
  /\ pc = "submit" => jar # NoSid /\ jar \notin refused
  /\ op.held \in Sids => op.held <= gw.dealt
  /\ Probing => /\ op.flag => op.held # NoSid
                /\ jar = op.held \/ {jar, op.held} \cap gw.live = {}

\* Which operation can be where.
OperationKnown ==
  /\ Probing => op.kind = "probe"
  /\ pc \in {"get", "retry"} => op.kind \in {"get", "post"}
  /\ pc = "write" => op.kind = "post"
  /\ LoggingIn => \/ op.kind = "get" /\ op.after = "retry"
                  \/ op.kind = "post" /\ op.after \in {"get", "retry"}
                  \/ op.kind = "login" /\ op.after = "idle"

\* What the operation has done so far, and so what is left of its logins.
WriteKnown ==
  /\ PerformedAtMostOnce /\ EvidenceIsHonest /\ LoginsBounded
  /\ ~Over => performed = 0 /\ op.answers = op.sends
  /\ pc = "get" /\ op.kind = "get" => op.logins = 0
  /\ ~Over /\ op.kind = "post" =>
       /\ op.sends <= 1
       /\ op.logins <= 2 * op.sends + IF "get" \in {pc, op.after} THEN 1 ELSE 2

\* The flag vouches for a session that was not refused, except for the sessions
\* in known, which nobody has told the client about.
FlagKnown(known) ==
  /\ auth => jar \notin refused \ known
  /\ Probing /\ op.flag => op.held \notin refused \ known

ClientInv ==
  /\ TypeOK
  /\ SessionKnown
  /\ OperationKnown
  /\ WriteKnown
  /\ FlagKnown({})
  /\ OutcomeMatchesSession
=============================================================================
