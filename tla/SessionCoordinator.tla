------------------------- MODULE SessionCoordinator -------------------------
(***************************************************************************)
(* with_router_session (session.py) around the operations of RouterClient: *)
(* what a command keeps of its session for the next one.  The cache holds  *)
(* one session, the cooldown keeps commands away from a full pool.         *)
(*                                                                         *)
(* Commands follow each other: each holds the lock of SessionLock from its *)
(* first look at the cooldown to its last write, and MutualExclusion there *)
(* is what justifies one command at a time here.  Public reads (sitemap,   *)
(* coverage) run beside them and take the lock only to record a full pool. *)
(* What a command does between its operations is left open: it may go on   *)
(* after a failed one, and it may fail for a reason of its own.            *)
(***************************************************************************)
EXTENDS RouterClient

CONSTANT MaxOps     \* bound: operations in one command

ASSUME CoordinatorAssumption == MaxOps \in Nat \ {0}

VARIABLES
  disk,     \* the cached session (or NoSid), whether it is live, the cooldown
  cmd,      \* the running command: what it imported, what it has met
  reader,   \* a public read: it has met a full pool, or not
  excused,  \* history: sessions lost to a kill, a storage fault or by design
  backoff   \* history: a full pool was recorded and its time is not over

coordination == <<disk, cmd, reader, excused, backoff>>
allVars == <<vars, coordination>>

Cooldowns == {"none", "live", "expired"}

NoCommand == [on |-> FALSE, initial |-> NoSid, met |-> {}, ops |-> 0,
              forced |-> FALSE]

NoOptions == [code |-> FALSE, wait |-> FALSE]

Disks == [cache : Sids \cup {NoSid}, fresh : BOOLEAN, cooldown : Cooldowns]

Commands == [on : BOOLEAN, initial : Sids \cup {NoSid},
             met : SUBSET Outcomes, ops : 0..MaxOps, forced : BOOLEAN]

CoordinatorTypeOK ==
  /\ TypeOK
  /\ disk \in Disks /\ cmd \in Commands
  /\ reader \in {"idle", "full"}
  /\ excused \subseteq Sids /\ backoff \in BOOLEAN

CoordinatorInit ==
  /\ gw \in [live : {{}}, others : 0..Slots, dealt : {0}]
  /\ jar = NoSid /\ auth = FALSE /\ used = FALSE
  /\ opts = NoOptions
  /\ pc = "idle" /\ op = NoOp /\ outcome = "ok"
  /\ performed = 0 /\ refused = {}
  /\ disk = [cache |-> NoSid, fresh |-> FALSE, cooldown |-> "none"]
  /\ cmd = NoCommand /\ reader = "idle" /\ excused = {}
  /\ backoff = FALSE

SessionCookie == IF HasSession THEN jar ELSE NoSid
Excuse(sids) == excused' = excused \cup (sids \cap Sids)
OnlyDisk == UNCHANGED <<gw, refused, reader>>
Emptied(d) == [d EXCEPT !.cache = NoSid, !.fresh = FALSE]
WithCooldown(d, k) == [d EXCEPT !.cooldown = k]

-----------------------------------------------------------------------------
(* A command begins                                                        *)

\* Mutant of HeldBack: the gate does not look at the cooldown.
HeldBackNever == FALSE

\* _apply_cooldown: a live cooldown ends the command before any request.  An
\* expired one is removed, if that works.
HeldBack == disk.cooldown = "live"

\* _cache_live, then import_session.
Imported == IF disk.fresh THEN disk.cache ELSE NoSid

BeginCommand ==
  /\ ~cmd.on /\ ~HeldBack
  /\ opts' \in [code : BOOLEAN, wait : BOOLEAN]
  /\ jar' = Imported /\ auth' = (Imported # NoSid) /\ used' = FALSE
  /\ cmd' = [NoCommand EXCEPT !.on = TRUE, !.initial = Imported]
  /\ \E k \in {"none", disk.cooldown} : disk' = WithCooldown(disk, k)
  /\ pc' = "idle" /\ op' = NoOp /\ outcome' = "ok" /\ performed' = 0
  /\ UNCHANGED <<gw, refused, reader, excused, backoff>>

\* The commands check and auth: a probe or a forced login is their only
\* operation, and its error is theirs.
Single == op.kind \in {"probe", "login"}

\* One step of an operation.  A session that is live while the client does not
\* count on it (a lost login answer, a forced login) is excused.
Works ==
  /\ cmd.on
  /\ \/ cmd.ops < MaxOps /\ ~Single /\ BeginOperation
     \/ Request
  /\ cmd' = [cmd EXCEPT !.ops = IF pc = "idle" THEN @ + 1 ELSE @,
                        !.forced = @ \/ op'.kind = "login",
                        !.met = IF pc' = "idle" THEN @ \cup {outcome'} ELSE @]
  /\ Excuse(IF auth' THEN {} ELSE {jar'} \cap gw'.live)
  /\ UNCHANGED <<disk, reader, backoff>>

-----------------------------------------------------------------------------
(* A command ends                                                          *)

CommandOver ==
  /\ cmd' = NoCommand
  /\ jar' = NoSid /\ auth' = FALSE /\ used' = FALSE
  /\ pc' = "idle" /\ op' = NoOp /\ outcome' = "ok" /\ performed' = 0
  /\ opts' = NoOptions /\ OnlyDisk

AtEnd == cmd.on /\ pc = "idle"

\* _persist_session.  Storage faults only warn: the command's outcome stands.
Persist ==
  \/ /\ HasSession
     /\ disk' \in [cache : {jar}, fresh : {TRUE},
                  cooldown : {"none", disk.cooldown}]
     /\ UNCHANGED excused
  \/ /\ HasSession /\ UNCHANGED disk /\ Excuse({jar, disk.cache})
  \/ /\ ~HasSession /\ UNCHANGED <<disk, excused>>

\* _forget_cached_session
Forget ==
  \/ disk' = Emptied(disk) /\ UNCHANGED excused
  \/ UNCHANGED disk /\ Excuse({disk.cache})

\* _remember_session_pool_full: the cache first, then the cooldown, and either
\* may fail on its own.
Remember(dropped) ==
  \/ /\ disk' = WithCooldown(Emptied(disk), "live")
     /\ Excuse(dropped) /\ backoff' = TRUE
  \/ /\ \E d \in {disk, Emptied(disk)}, k \in {disk.cooldown, "live"} :
          disk' = WithCooldown(d, k)
     /\ Excuse(dropped \cup {disk.cache}) /\ UNCHANGED backoff

\* RouterSessionPoolFullError, or a result that carries its flag.
EndPoolFull ==
  /\ AtEnd /\ "full" \in cmd.met
  /\ Remember({jar})
  /\ CommandOver

\* A session-wide RouterAuthError.  If the command has logged in again since,
\* that session is given up with the other.
EndAuthError ==
  /\ AtEnd /\ "auth" \in cmd.met
  /\ \/ disk' = Emptied(disk) /\ Excuse({jar})
     \/ UNCHANGED disk /\ Excuse({jar, disk.cache})
  /\ CommandOver /\ UNCHANGED backoff

\* Mutant of LostSession: a lost session is not told from one never held.
LostSessionNever == FALSE

LostSession == cmd.initial # NoSid /\ ~HasSession

\* A page-level RouterAuthError, of the last operation.  This branch forgets
\* nothing: a session lost before it (to a login whose answer was lost, the new
\* cookie being served all the same) stays in the cache and is excused.
EndForbidden ==
  /\ AtEnd /\ outcome = "forbidden" /\ "forbidden" \in cmd.met
  /\ IF LostSession THEN UNCHANGED disk /\ Excuse({cmd.initial})
     ELSE IF SessionCookie # cmd.initial THEN Persist
     ELSE UNCHANGED <<disk, excused>>
  /\ CommandOver /\ UNCHANGED backoff

\* Any other error: of the transport, of the page, of the command itself, or
\* an interrupt in the middle of an operation.
EndOtherError ==
  /\ cmd.on
  /\ pc = "idle" /\ Single => outcome = "fault"
  /\ IF LostSession THEN Forget
     ELSE IF SessionCookie # cmd.initial THEN Persist
     ELSE UNCHANGED <<disk, excused>>
  /\ CommandOver /\ UNCHANGED backoff

\* Mutant of WorthKeeping: only a used session is kept.
WorthKeepingIfCached == used /\ SessionCookie = cmd.initial

\* The session was used or replaced.
WorthKeeping == used \/ SessionCookie # cmd.initial

EndNormally ==
  /\ AtEnd
  /\ Single => outcome \in {"ok", "dead", "unknown"}
  /\ IF ~HasSession THEN Forget
     ELSE IF WorthKeeping THEN Persist
     ELSE UNCHANGED <<disk, excused>>
  /\ CommandOver /\ UNCHANGED backoff

\* The process is killed: nothing is settled.
Killed ==
  /\ cmd.on
  /\ Excuse({jar, disk.cache})
  /\ UNCHANGED <<disk, backoff>>
  /\ CommandOver

-----------------------------------------------------------------------------
(* Beside the commands                                                     *)

\* A public read without a cookie meets the pool-full page.
ReaderMeetsFullPool ==
  /\ reader = "idle" /\ Full
  /\ reader' = "full"
  /\ UNCHANGED <<vars, disk, cmd, excused, backoff>>

\* record_pool_full_cooldown, when it gets the lock or not at all.  A session
\* that a command has cached meanwhile goes with the rest.
ReaderRecords ==
  /\ reader = "full" /\ ~cmd.on
  /\ reader' = "idle"
  /\ Remember({disk.cache})
  /\ UNCHANGED <<vars, cmd>>

ReaderGivesUp ==
  /\ reader = "full"
  /\ reader' = "idle"
  /\ UNCHANGED <<vars, disk, cmd, excused, backoff>>

\* session clear-cache: both files, or an error after the first.
ClearSessionState ==
  /\ ~cmd.on
  /\ \E k \in {"none", disk.cooldown} :
       disk' = WithCooldown(Emptied(disk), k)
  /\ backoff' = (backoff /\ disk'.cooldown = "live")
  /\ Excuse({disk.cache})
  /\ UNCHANGED <<vars, cmd, reader>>

\* The recorded lifetime is over, or the clock says so.
CacheExpires ==
  /\ disk.cache # NoSid /\ disk.fresh
  /\ disk' = [disk EXCEPT !.fresh = FALSE]
  /\ Excuse({disk.cache})
  /\ UNCHANGED <<vars, cmd, reader, backoff>>

CooldownExpires ==
  /\ disk.cooldown = "live"
  /\ disk' = WithCooldown(disk, "expired")
  /\ backoff' = FALSE
  /\ UNCHANGED <<vars, cmd, reader, excused>>

CoordinatorNext ==
  \/ BeginCommand \/ Works
  \/ EndPoolFull \/ EndAuthError \/ EndForbidden \/ EndOtherError
  \/ EndNormally \/ Killed
  \/ ReaderMeetsFullPool \/ ReaderRecords \/ ReaderGivesUp
  \/ ClearSessionState \/ CacheExpires \/ CooldownExpires
  \/ Gateway /\ UNCHANGED coordination

CoordinatorSpec == CoordinatorInit /\ [][CoordinatorNext]_allVars

-----------------------------------------------------------------------------
(* Properties                                                              *)

\* The cache is worth what it costs.  A session that the gateway has refused is
\* not left for the next command, however the command that met the refusal
\* ended; and a command spends a login only if it found no usable session there,
\* the gateway refused that one, or the user asked for a fresh login.
CacheIsWorthIt ==
  /\ ~cmd.on /\ disk.fresh => disk.cache \notin refused \ excused
  /\ cmd.on /\ op.logins > 0 =>
       \/ cmd.initial = NoSid
       \/ cmd.initial \in refused
       \/ cmd.forced

\* No slot of the small pool is left behind: every live session that the
\* program opened is the one in use, the one in the cache, or excused.
NoOrphanedSlot ==
  gw.live \subseteq {jar, disk.cache} \cup excused

\* Once a full pool is recorded, no command sends anything and no session is
\* cached until the cooldown is over.
PoolFullBacksOff ==
  backoff => ~cmd.on /\ disk.cooldown = "live" /\ disk.cache = NoSid

\* The inductive invariant behind these: while a command runs nobody else
\* touches the cache it imported from, and between commands no client is left.
CommandKnown ==
  /\ cmd.on => cmd.initial \in {NoSid, disk.cache} /\ disk.cooldown # "live"
  /\ cmd.on /\ disk.fresh => cmd.initial = disk.cache
  /\ ~cmd.on => cmd = NoCommand /\ pc = "idle" /\ jar = NoSid
  /\ disk.fresh => disk.cache # NoSid
  /\ disk.cache \in Sids => disk.cache <= gw.dealt

\* A live session that the client does not count on, or that is no longer the
\* cached one, is excused.
SlotsKnown ==
  /\ NoOrphanedSlot
  /\ jar \in gw.live => auth \/ jar \in excused
  /\ cmd.on /\ disk.cache \in gw.live => disk.cache \in {jar} \cup excused
  /\ ~disk.fresh => disk.cache \in {NoSid} \cup excused

\* Until it is refused, or given up by the user, the command holds the session
\* it found.
InitialKnown ==
  cmd.on /\ op.kind # "probe" =>
    \/ HasSession /\ jar = cmd.initial
    \/ cmd.initial \in {NoSid} \cup refused
    \/ cmd.forced

CoordinatorInv ==
  /\ CoordinatorTypeOK
  /\ SessionKnown
  /\ OperationKnown
  /\ WriteKnown
  /\ FlagKnown(excused)
  /\ CommandKnown
  /\ SlotsKnown
  /\ InitialKnown
  /\ CacheIsWorthIt
  /\ PoolFullBacksOff

\* The comment of with_router_session in its branch for other errors: "The run
\* lost the imported session and did not replace it: the cached copy is dead."
ForgottenCopyIsDead ==
  [][EndOtherError /\ disk.cache # NoSid /\ disk'.cache = NoSid
       => disk.cache \notin gw.live]_allVars
=============================================================================
