------------------------- MODULE AutorestoreInvariant -------------------------
(***************************************************************************)
(* The inductive invariant behind the safety properties of Autorestore,    *)
(* part by part.  TLC checks it in a run, AutorestoreProofs proves it.     *)
(***************************************************************************)
EXTENDS Autorestore

BeforeWrites == {"read", "decide", "preflight", "prepareClear", "clear"}
InPass == {"preparePass", "pass", "first", "step"}
AfterPass == {"settle", "judge", "closing", "verdict"}
Points == {"idle", "refresh", "plan"} \cup BeforeWrites \cup InPass
            \cup AfterPass

\* A dry run never gets to these.
Committed == {"prepareClear", "clear", "refresh"} \cup InPass \cup AfterPass

Runs ==
  [commit : BOOLEAN, recovering : BOOLEAN, started : BOOLEAN,
   possible : BOOLEAN, sent : BOOLEAN, seen : SUBSET Items,
   acked : SUBSET Items, todo : SUBSET Items, pass : Nat,
   stop : Stops, item : Items \cup {NoItem}]

Logs == [wrote : BOOLEAN, verified : BOOLEAN, dirty : BOOLEAN,
         reset : BOOLEAN, posts : [Items -> Nat]]

Streaks == [shape : Failures \cup {NoFailure}, count : Nat]

TypeOK ==
  /\ missing \subseteq Items
  /\ holder \in {"free", "stale", "fixed"}
  /\ record \in Records
  /\ pc \in Points
  /\ run \in Runs
  /\ late \in BOOLEAN
  /\ status \in Statuses
  /\ calm \in BOOLEAN
  /\ log \in Logs
  /\ streak \in Streaks

\* The intent is there when the run counts on it or has left a trace.
IntentHeld ==
  /\ IntentCoversWrites
  /\ run.started \/ run.recovering => Active(record)
  /\ pc = "decide" => (run.recovering <=> Active(record))
  /\ run.recovering \/ run.sent => run.possible
  /\ log.dirty /\ pc \notin {"idle", "read"} => run.possible
  /\ pc \in {"clear", "refresh", "first", "step"} => run.started

\* A run that knows of no difference has just read that there is none.
CleanReadHolds ==
  /\ run.seen = {}
  /\ \/ pc \in {"decide", "preflight", "prepareClear", "clear", "plan",
                "preparePass", "pass", "first"}
     \/ pc = "verdict" /\ run.stop # "silentLost"
  => log.verified /\ ~log.dirty

\* What the run believes of its writes is what happened.
WritesKnown ==
  /\ QuietExitsAreVerified
  /\ pc # "idle" /\ log.wrote => run.sent
  /\ pc \in BeforeWrites => ~run.sent
  /\ pc \in BeforeWrites \cup {"refresh", "plan"} => run.pass = 0
  /\ pc \in InPass \cup {"closing", "verdict"} => run.pass > 0
  /\ pc \in {"settle", "judge"} /\ run.pass = 0 =>
       \/ run.stop \in {"transport", "lost", "refused"} /\ ~run.sent
       \/ run.stop = "unresolved"
  /\ pc \in {"closing", "verdict"} => ~Abrupt

\* What was posted is acknowledged, or stops the run.
PostsKnown ==
  \A i \in Items :
    /\ log.posts[i] <= 1
    /\ pc \in BeforeWrites \cup {"refresh", "plan"} => log.posts[i] = 0
    /\ pc \in InPass /\ log.posts[i] = 1 => i \in run.acked
    /\ pc \in AfterPass /\ log.posts[i] = 1 =>
         \/ i \in run.acked
         \/ run.stop \in {"rejected", "ackUnread", "moved"} \cup Unanswered
    /\ pc \in InPass \ {"pass"} /\ i \in run.todo => i \notin run.acked

\* A recovery started from a gateway that looked reset.
ResetKnown ==
  /\ WritesNeedReset
  /\ Active(record) => log.reset
  /\ pc \in Committed => run.commit /\ log.reset
  /\ pc = "plan" /\ run.commit => log.reset
  /\ pc = "preflight" /\ run.commit => log.reset

\* The count on disk is the true one, and a run that goes on is below it.
CountKnown ==
  /\ SameFailureBounded
  /\ Active(record) => /\ streak.shape = record.shape
                       /\ streak.count = record.count
  /\ ~Active(record) => streak = NoStreak
  /\ Active(record)
     /\ \/ pc \in Committed
        \/ pc \in {"preflight", "plan"} /\ run.commit
     => record.count < RETRY_LIMIT

RunInv ==
  /\ TypeOK
  /\ IntentHeld
  /\ CleanReadHolds
  /\ WritesKnown
  /\ PostsKnown
  /\ ResetKnown
  /\ CountKnown
=============================================================================
