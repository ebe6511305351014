--------------------------- MODULE RecoveryIntent ---------------------------
(***************************************************************************)
(* The recovery intent of recovery_state.py: the one record on disk by     *)
(* which an autorestore run knows that an earlier run may have left the    *)
(* gateway half restored.  Records are values here; Autorestore keeps one  *)
(* in a variable and says which of these operators each step applies.      *)
(***************************************************************************)
EXTENDS Naturals

CONSTANTS Shapes,       \* fingerprints of failures
          NoShape       \* the fingerprint of a record that has no failures

(* "mine" has the fingerprint of this dump and page selection; "other"     *)
(* belongs to a different dump or selection; "none" is no file, or a file  *)
(* that is not a record.                                                   *)
Owners == {"none", "mine", "other"}

Record(owner, shape, count) ==
  [owner |-> owner, shape |-> shape, count |-> count]

NoIntent == Record("none", NoShape, 0)

Records == [owner : Owners, shape : Shapes \cup {NoShape}, count : Nat]

Active(r) == r.owner = "mine"

\* Mutant of MayBegin: begin() does not look at whose record is there.
MayBeginOverAnother(r) == TRUE

\* begin() refuses to replace the intent of another dump.
MayBegin(r) == r.owner # "other"

\* Mutant of Begun: begin() always publishes a fresh record.
BegunAfresh(r) == Record("mine", NoShape, 0)

\* begin() keeps the failure history of the same intent.
Begun(r) == IF Active(r) THEN r ELSE Record("mine", NoShape, 0)

\* record_failure(): the same failure as last time counts up, another restarts.
Failed(r, shape) ==
  Record("mine", shape, IF r.shape = shape THEN r.count + 1 ELSE 1)

\* Mutant of Finished: a verified recovery leaves its record behind.
FinishedKept(r) == r

\* finish() removes only its own record.
Finished(r) == IF Active(r) THEN NoIntent ELSE r
=============================================================================
