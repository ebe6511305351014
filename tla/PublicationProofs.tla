-------------------------- MODULE PublicationProofs --------------------------
(***************************************************************************)
(* What holds of DumpPublication for every number of levels, of processes   *)
(* that record an intent and of processes that write a dump, whatever fails,*)
(* is killed or loses its power.                                            *)
(*                                                                         *)
(* The argument: a process goes on to a level only when the one above is   *)
(* published, that is on stable storage or beyond what is promised, and    *)
(* nothing but a power loss takes that away (Grows, PublishedStays). So a  *)
(* step of one process leaves true what the others know (StepKeeps), and   *)
(* each kind of step is checked for what it does itself: QuietStep leaves  *)
(* the disk alone, TreeStep works on directories and markers, FileStep on  *)
(* the files. Only rmdir and the power loss take something away.           *)
(***************************************************************************)
EXTENDS DumpPublication, SequenceTheorems, TLAPS

Marks == Procs \cup {NoOne}
Temps == {"none", "written", "flushed"}
Promises == {"unknown", "present", "absent"}

\* The constants and what is defined of them.
LEMMA Constants ==
  /\ Base \in Nat /\ Base >= 1 /\ Depth = Base + 1 /\ Depth \in Levels
  /\ Levels \subseteq Nat /\ 1..Base \subseteq Levels /\ Base # Depth
  /\ \A p \in Recoverers : p \in Procs /\ p \notin Dumpers /\ p # NoOne /\ File(p) = p
  /\ \A d \in Dumpers : d \in Procs /\ d \notin Recoverers /\ File(d) = NoOne
  /\ NoOne \notin Procs /\ NoOne \in Names /\ Recoverers \subseteq Names
BY PublicationAssumption DEF Depth, Levels, Procs, Names, File

\* TypeOK, part by part.
LEMMA TypeFacts ==
  ASSUME TypeOK
  PROVE  /\ dirs \subseteq Levels /\ open \subseteq dirs
         /\ foreign \subseteq Levels
         /\ marks \in [Levels -> Marks] /\ maker \in [Levels -> Marks]
         /\ files \in [Names -> Contents]
         /\ synced \in Stable /\ synced.dirs \subseteq dirs
         /\ synced.files \in [Names -> Contents]
         /\ synced.marks \in [Levels -> Marks]
         /\ stack \in [Procs -> Seq(Frame)] /\ pc \in [Procs -> Steps]
         /\ temp \in [Procs -> Temps] /\ promised \in [Recoverers -> Promises]
BY DEF TypeOK, Stable, Marks, Temps, Promises

-----------------------------------------------------------------------------
(* What one process does to the others                                     *)

Grows ==
  /\ dirs \subseteq dirs' \cup foreign'
  /\ foreign \subseteq foreign'
  /\ synced.dirs \subseteq synced.dirs' \cup foreign'
  /\ \A l \in 1..Base :
       marks[l] # NoOne => marks'[l] # NoOne \/ l \in dirs' \cup foreign'

\* Published levels stay so, whatever a process makes or removes.
LEMMA PublishedStays ==
  ASSUME TypeOK, Grows, NEW l \in Int, Published(l)
  PROVE  Published(l)'
<1> SUFFICES ASSUME NEW k \in 1..l
             PROVE  k \in synced.dirs' \/ \E m \in foreign' : k <= m
  BY DEF Published
<1>1. k \in synced.dirs \/ \E m \in foreign : k <= m
  BY DEF Published
<1>2. k <= k
  OBVIOUS
<1>3. QED
  BY <1>1, <1>2 DEF Grows

\* So does what a call relies on.
LEMMA ReachedStays ==
  ASSUME TypeOK, Grows, NEW frame \in Frame, frame.level \in 1..Base, Reached(frame)
  PROVE  Reached(frame)'
<1>1. frame.level - 1 \in Int
  BY Constants
<1>2. Published(frame.level - 1) => Published(frame.level - 1)'
  BY <1>1, PublishedStays
<1>3. QED
  BY <1>2 DEF Reached, Grows

\* An entry that is there has its ancestors published.
LEMMA ThereIsBelowPublished ==
  ASSUME TypeOK, TreeKnown, NEW l \in 1..Base, l \in dirs \cup foreign
  PROVE  Published(l - 1)
<1>1. CASE l \in dirs
  BY <1>1, Constants DEF TreeKnown
<1>2. CASE l \in foreign
  BY <1>2, Constants DEF Published
<1>3. QED
  BY <1>1, <1>2

\* So an entry on stable storage is published with all above it.
LEMMA SyncedIsPublished ==
  ASSUME TypeOK, TreeKnown, NEW l \in 1..Base, l \in synced.dirs \cup foreign
  PROVE  Published(l)
<1>1. l \in dirs \cup foreign
  BY TypeFacts
<1>2. Published(l - 1)
  BY <1>1, ThereIsBelowPublished
<1>3. l <= l /\ l \in Nat
  BY Constants
<1>4. \A k \in 1..l : k \in 1..(l - 1) \/ k = l
  BY <1>3
<1>5. QED
  BY <1>2, <1>3, <1>4 DEF Published

-----------------------------------------------------------------------------
(* The stack                                                               *)

Others(p) == \A q \in Procs \ {p} : stack'[q] = stack[q] /\ pc'[q] = pc[q]

Ats == {"look", "lookAgain", "mark", "mkdir", "access", "repair", "publish",
        "unmark", "erase"}

\* A call at another point.
LEMMA FrameWith ==
  ASSUME NEW f \in Frame, NEW at \in Ats
  PROVE  /\ [f EXCEPT !.at = at] \in Frame
         /\ [f EXCEPT !.at = at].at = at
         /\ [f EXCEPT !.at = at].level = f.level
BY DEF Frame, Ats

\* The innermost call.
LEMMA TopFacts ==
  ASSUME TypeOK, NEW p \in Procs, CallKnown(p), stack[p] # <<>>
  PROVE  /\ Inner(p) \in Nat /\ Inner(p) >= 1 /\ Inner(p) = Len(stack[p])
         /\ Top(p) = stack[p][Inner(p)] /\ Top(p) \in Frame
         /\ Level(p) = Base + 1 - Inner(p) /\ Level(p) \in 1..Base
         /\ Level(p) = Top(p).level
         /\ Reached(Top(p)) /\ stack[p] \in Seq(Frame) /\ pc[p] = "base"
<1>1. stack[p] \in Seq(Frame)
  BY TypeFacts
<1>2. Inner(p) \in Nat /\ Inner(p) >= 1 /\ Inner(p) = Len(stack[p])
  BY <1>1, EmptySeq, LenProperties DEF Inner
<1>3. Top(p) = stack[p][Inner(p)] /\ Top(p) \in Frame
  BY <1>1, <1>2, ElementOfSeq DEF Top, Last
<1>4. stack[p][Inner(p)].level = Base + 1 - Inner(p)
  <2>1. \A i \in 1..Len(stack[p]) : stack[p][i].level = Base + 1 - i
    BY DEF CallKnown
  <2>2. Inner(p) \in 1..Len(stack[p])
    BY <1>2
  <2>3. QED
    BY <2>1, <2>2
<1>5. Level(p) = Top(p).level
  BY DEF Level
<1>6. Level(p) = Base + 1 - Inner(p)
  BY <1>3, <1>4, <1>5
<1>7. Level(p) \in Levels
  BY <1>3, <1>5 DEF Frame
<1>8. Level(p) \in 1..Base
  BY <1>2, <1>6, <1>7, Constants DEF Levels
<1>9. Reached(Top(p)) /\ pc[p] = "base"
  BY DEF CallKnown
<1>10. QED
  BY <1>1, <1>2, <1>3, <1>5, <1>6, <1>8, <1>9

\* The innermost call is replaced, the others wait on.
LEMMA BecomesFacts ==
  ASSUME TypeOK, NEW p \in Procs, CallKnown(p), stack[p] # <<>>,
         NEW frame \in Frame, Becomes(p, frame)
  PROVE  /\ stack' \in [Procs -> Seq(Frame)]
         /\ \A q \in Procs \ {p} : stack'[q] = stack[q]
         /\ stack'[p] # <<>> /\ Len(stack'[p]) = Len(stack[p])
         /\ stack'[p][Len(stack[p])] = frame
         /\ \A i \in 1..(Len(stack[p]) - 1) : stack'[p][i] = stack[p][i]
<1>1. /\ stack[p] \in Seq(Frame) /\ Len(stack[p]) \in Nat
      /\ Len(stack[p]) >= 1
      /\ Inner(p) = Len(stack[p])
  BY TopFacts
<1> DEFINE s == stack[p]
           t == [s EXCEPT ![Len(s)] = frame]
<1>2. stack' = [stack EXCEPT ![p] = t]
  BY <1>1 DEF Becomes
<1>3. /\ t \in Seq(Frame) /\ Len(t) = Len(s)
      /\ \A j \in 1..Len(s) : t[j] = IF j = Len(s) THEN frame ELSE s[j]
  BY <1>1, ExceptSeq
<1>4. stack'[p] = t /\ stack' \in [Procs -> Seq(Frame)]
      /\ \A q \in Procs \ {p} : stack'[q] = stack[q]
  BY <1>2, <1>3, TypeFacts
<1>5. t # <<>>
  BY <1>1, <1>3, EmptySeq
<1>6. t[Len(s)] = frame /\ \A i \in 1..(Len(s) - 1) : t[i] = s[i]
  BY <1>1, <1>3
<1>7. QED
  BY <1>3, <1>4, <1>5, <1>6

\* It keeps what is known, if it may be at its new point.
LEMMA BecomesKnown ==
  ASSUME TypeOK, NEW p \in Procs, CallKnown(p), stack[p] # <<>>,
         NEW frame \in Frame, frame.level = Level(p), Becomes(p, frame),
         pc'[p] = pc[p], Reached(frame)'
  PROVE  CallKnown(p)'
<1>1. /\ stack[p] \in Seq(Frame) /\ Len(stack[p]) \in Nat
      /\ Len(stack[p]) >= 1
      /\ pc[p] = "base" /\ Level(p) = Base + 1 - Len(stack[p])
  BY TopFacts
<1>2. /\ stack'[p] # <<>> /\ Len(stack'[p]) = Len(stack[p])
      /\ stack'[p][Len(stack[p])] = frame
      /\ \A i \in 1..(Len(stack[p]) - 1) : stack'[p][i] = stack[p][i]
  BY BecomesFacts
<1>3. Top(p)' = frame
  BY <1>2 DEF Top, Last
<1>4. ASSUME NEW i \in 1..Len(stack'[p])
      PROVE  stack'[p][i].level = Base + 1 - i
  <2>1. CASE i = Len(stack[p])
    BY <2>1, <1>1, <1>2
  <2>2. CASE i \in 1..(Len(stack[p]) - 1)
    BY <2>2, <1>1, <1>2 DEF CallKnown
  <2>3. QED
    BY <2>1, <2>2, <1>1, <1>2
<1>5. ASSUME NEW i \in 1..(Len(stack'[p]) - 1)
      PROVE  stack'[p][i].at \in {"lookAgain", "mark"}
  BY <1>1, <1>2 DEF CallKnown
<1>6. pc'[p] = "base"
  BY <1>1
<1>7. Reached(Top(p))'
  BY <1>3
<1>8. QED
  BY <1>2, <1>4, <1>5, <1>6, <1>7 DEF CallKnown

\* A call for the level above is the innermost then.
LEMMA CallFacts ==
  ASSUME TypeOK, NEW p \in Procs, CallKnown(p), stack[p] # <<>>,
         NEW l \in 1..Base, l = Level(p), l # 1,
         NEW point \in {"lookAgain", "mark"}, Call(p, point), pc'[p] = pc[p]
  PROVE  /\ stack' \in [Procs -> Seq(Frame)]
         /\ \A q \in Procs \ {p} : stack'[q] = stack[q]
         /\ CallKnown(p)'
<1>1. PICK s \in Seq(Frame), n \in Nat :
        /\ s = stack[p] /\ n = Len(s) /\ n >= 1 /\ Inner(p) = n
        /\ l = Base + 1 - n
        /\ Top(p) \in Frame /\ Top(p).level = l /\ pc[p] = "base"
  BY TopFacts
<1>2. PICK waits \in Frame : /\ waits = [Top(p) EXCEPT !.at = point]
                             /\ waits.level = l /\ waits.at = point
  <2>1. point \in Ats /\ NoOne \in Marks
    BY DEF Ats, Marks
  <2>2. \A f \in Frame : /\ [f EXCEPT !.at = point] \in Frame
                         /\ [f EXCEPT !.at = point].level = f.level
                         /\ [f EXCEPT !.at = point].at = point
    BY <2>1, FrameWith
  <2>3. Top(p) \in Frame /\ Top(p).level = l
    BY <1>1
  <2>4. QED
    BY <2>2, <2>3
<1>3. l - 1 \in 1..Base /\ l - 1 \in Levels /\ l \in Nat /\ Base \in Nat
  <2>1. Base \in Nat /\ 1..Base \subseteq Levels
    BY Constants
  <2>2. l \in Nat /\ l - 1 \in 1..Base
    BY <2>1
  <2>3. QED
    BY <2>1, <2>2
<1>4. PICK asked \in Frame : /\ asked = Asked(l - 1) /\ asked.level = l - 1
                             /\ asked.at = "look"
  <2>1. /\ Asked(l - 1) \in Frame /\ Asked(l - 1).level = l - 1
        /\ Asked(l - 1).at = "look"
    BY <1>3 DEF Asked, Frame
  <2>2. QED
    BY <2>1
<1>5. PICK t \in Seq(Frame) :
        /\ t = [s EXCEPT ![n] = waits] /\ Len(t) = n
        /\ \A j \in 1..n : t[j] = IF j = n THEN waits ELSE s[j]
  <2>1. n \in 1..Len(s)
    BY <1>1
  <2>2. /\ [s EXCEPT ![n] = waits] \in Seq(Frame)
        /\ Len([s EXCEPT ![n] = waits]) = Len(s)
        /\ \A j \in 1..Len(s) :
             [s EXCEPT ![n] = waits][j] = IF j = n THEN waits ELSE s[j]
    BY <2>1, ExceptSeq
  <2>3. QED
    BY <1>1, <2>2
<1>6. PICK u \in Seq(Frame) :
        /\ u = Append(t, asked) /\ u # <<>> /\ Len(u) = n + 1
        /\ \A i \in 1..n : u[i] = t[i]
        /\ u[n + 1] = asked
  <2>1. /\ Append(t, asked) \in Seq(Frame) /\ Append(t, asked) # <<>>
        /\ Len(Append(t, asked)) = Len(t) + 1
        /\ \A i \in 1..Len(t) : Append(t, asked)[i] = t[i]
        /\ Append(t, asked)[Len(t) + 1] = asked
    BY AppendProperties
  <2>2. QED
    BY <1>5, <2>1
<1>7. stack' = [stack EXCEPT ![p] = u]
  BY <1>1, <1>2, <1>4, <1>5, <1>6 DEF Call
<1>8. stack'[p] = u /\ stack' \in [Procs -> Seq(Frame)]
      /\ \A q \in Procs \ {p} : stack'[q] = stack[q]
  BY <1>7, TypeFacts
<1>9. Top(p)' = asked
  BY <1>6, <1>8 DEF Top, Last
<1>10. \A frame \in Frame : frame.at = "look" => Reached(frame)'
  BY DEF Reached
<1>11. Reached(Top(p))'
  BY <1>4, <1>9, <1>10
<1>12. ASSUME NEW i \in 1..(n + 1)
       PROVE  u[i].level = Base + 1 - i
  <2>1. CASE i = n + 1
    BY <2>1, <1>1, <1>3, <1>4, <1>6
  <2>2. CASE i = n
    BY <2>2, <1>1, <1>2, <1>5, <1>6
  <2>3. CASE i \in 1..(n - 1)
    <3>1. \A j \in 1..n : s[j].level = Base + 1 - j
      BY <1>1 DEF CallKnown
    <3>2. i \in 1..n /\ i # n
      BY <2>3, <1>1
    <3>3. QED
      BY <3>1, <3>2, <1>5, <1>6
  <2>4. QED
    BY <2>1, <2>2, <2>3, <1>1
<1>13. ASSUME NEW i \in 1..n
       PROVE  u[i].at \in {"lookAgain", "mark"}
  <2>1. CASE i = n
    BY <2>1, <1>1, <1>2, <1>5, <1>6
  <2>2. CASE i \in 1..(n - 1)
    <3>1. \A j \in 1..(n - 1) : s[j].at \in {"lookAgain", "mark"}
      BY <1>1 DEF CallKnown
    <3>2. i \in 1..n /\ i # n
      BY <2>2, <1>1
    <3>3. QED
      BY <2>2, <3>1, <3>2, <1>5, <1>6
  <2>3. QED
    BY <2>1, <2>2, <1>1
<1>14. n + 1 - 1 = n
  OBVIOUS
<1>15. QED
  BY <1>1, <1>6, <1>8, <1>11, <1>12, <1>13, <1>14 DEF CallKnown

\* A return leads to the call that waits, or to the owned directory.
LEMMA ReturnFacts ==
  ASSUME TypeOK, NEW p \in Procs, CallKnown(p), stack[p] # <<>>, Return(p),
         NEW l \in 1..Base, l = Level(p), Published(l)'
  PROVE  /\ stack' \in [Procs -> Seq(Frame)] /\ pc' \in [Procs -> Steps]
         /\ Others(p)
         /\ CallKnown(p)'
         /\ \/ pc'[p] = "base"
            \/ pc'[p] = "own" /\ Published(Base)'
<1>1. PICK s \in Seq(Frame), n \in Nat :
        /\ s = stack[p] /\ n + 1 = Len(s) /\ l = Base - n /\ pc[p] = "base"
  <2>1. PICK s \in Seq(Frame), m \in Nat :
          /\ s = stack[p] /\ m = Len(s) /\ m >= 1
          /\ l = Base + 1 - m /\ pc[p] = "base"
    BY TopFacts
  <2>2. m - 1 \in Nat /\ m - 1 + 1 = Len(s) /\ l = Base - (m - 1)
    BY <2>1, Constants
  <2>3. QED
    BY <2>1, <2>2
<1>2. Base \in Nat /\ l \in Nat
  BY <1>1, Constants
<1>3. \A i \in 1..n : i \in 1..Len(s) /\ s[i] \in Frame
  <2>1. \A i \in 1..n : i \in 1..Len(s)
    BY <1>1
  <2>2. QED
    BY <2>1, ElementOfSeq
<1>4. PICK t \in Seq(Frame) :
        t = SubSeq(s, 1, n) /\ Len(t) = n /\ \A i \in 1..n : t[i] = s[i]
  <2>1. /\ SubSeq(s, 1, n) \in Seq(Frame)
        /\ Len(SubSeq(s, 1, n)) = IF 1 <= n THEN n - 1 + 1 ELSE 0
        /\ \A i \in 1..(n - 1 + 1) : SubSeq(s, 1, n)[i] = s[1 + i - 1]
    BY <1>3, SubSeqProperties
  <2>2. n - 1 + 1 = n /\ (IF 1 <= n THEN n - 1 + 1 ELSE 0) = n
    OBVIOUS
  <2>3. \A i \in 1..n : 1 + i - 1 = i
    OBVIOUS
  <2>4. QED
    BY <2>1, <2>2, <2>3
<1>5. stack' = [stack EXCEPT ![p] = t]
  <2>1. Len(stack[p]) - 1 = n
    BY <1>1
  <2>2. SubSeq(stack[p], 1, Len(stack[p]) - 1) = t
    BY <1>1, <1>4, <2>1
  <2>3. QED
    BY <2>2 DEF Return, Front
<1>6. /\ stack'[p] = t /\ stack' \in [Procs -> Seq(Frame)]
      /\ \A q \in Procs \ {p} : stack'[q] = stack[q]
  BY <1>5, TypeFacts
<1>7. pc' = [pc EXCEPT ![p] = IF n = 0 THEN "own" ELSE "base"]
  <2>1. Len(stack[p]) = 1 <=> n = 0
    <3>1. \A m \in Nat : m = n + 1 => (m = 1 <=> n = 0)
      OBVIOUS
    <3>2. Len(stack[p]) \in Nat /\ Len(stack[p]) = n + 1
      BY <1>1, LenProperties
    <3>3. QED
      BY <3>1, <3>2
  <2>2. QED
    BY <2>1, <1>1 DEF Return
<1>8. /\ pc' \in [Procs -> Steps] /\ \A q \in Procs \ {p} : pc'[q] = pc[q]
      /\ pc'[p] = IF n = 0 THEN "own" ELSE "base"
  BY <1>7, TypeFacts DEF Steps
<1>9. t = <<>> <=> n = 0
  BY <1>4, EmptySeq
<1>10. ASSUME n # 0
       PROVE  Reached(Top(p))'
  <2>1. n \in 1..n /\ n + 1 - 1 = n
    BY <1>10
  <2>2. Top(p)' = s[n]
    BY <2>1, <1>4, <1>6 DEF Top, Last
  <2>3. s[n].at \in {"lookAgain", "mark"}
    <3>1. \A i \in 1..(Len(s) - 1) : s[i].at \in {"lookAgain", "mark"}
      BY <1>1 DEF CallKnown
    <3>2. n \in 1..(Len(s) - 1)
      BY <2>1, <1>1
    <3>3. QED
      BY <3>1, <3>2
  <2>4. \A i \in 1..(n + 1) : s[i].level = Base + 1 - i
    BY <1>1 DEF CallKnown
  <2>5. s[n].level = l + 1
    BY <2>1, <2>4, <1>1, <1>2
  <2>6. l + 1 - 1 = l
    BY <1>2
  <2>7. Published(l)'
    OBVIOUS
  <2>8. PICK f \in Frame : f = s[n] /\ f.at \in {"lookAgain", "mark"} /\ f.level = l + 1
    BY <2>1, <2>3, <2>5, <1>3
  <2>9. Reached(f)'
    BY <2>6, <2>7, <2>8 DEF Reached
  <2>10. QED
    BY <2>2, <2>8, <2>9
<1>11. CallKnown(p)'
  <2>1. \A i \in 1..n : t[i].level = Base + 1 - i
    <3>1. \A i \in 1..(n + 1) : s[i].level = Base + 1 - i
      BY <1>1 DEF CallKnown
    <3>2. \A i \in 1..n : i \in 1..(n + 1)
      OBVIOUS
    <3>3. QED
      BY <3>1, <3>2, <1>4
  <2>2. \A i \in 1..(n - 1) : t[i].at \in {"lookAgain", "mark"}
    <3>1. \A i \in 1..(Len(s) - 1) : s[i].at \in {"lookAgain", "mark"}
      BY <1>1 DEF CallKnown
    <3>2. \A i \in 1..(n - 1) : i \in 1..(Len(s) - 1) /\ i \in 1..n
      BY <1>1
    <3>3. QED
      BY <3>1, <3>2, <1>4
  <2>3. pc'[p] = "base" <=> stack'[p] # <<>>
    BY <1>6, <1>8, <1>9
  <2>4. QED
    BY <2>1, <2>2, <2>3, <1>4, <1>6, <1>9, <1>10 DEF CallKnown
<1>12. ASSUME n = 0
       PROVE  Published(Base)'
  <2>1. l = Base
    BY <1>1, <1>2, <1>12
  <2>2. Published(l)'
    OBVIOUS
  <2>3. QED
    BY <2>1, <2>2
<1>13. QED
  BY <1>6, <1>8, <1>11, <1>12 DEF Others

-----------------------------------------------------------------------------
(* The invariant from its parts                                            *)

\* What a step of p leaves to the others.
Private(p) ==
  /\ \A q \in Procs \ {p} :
       stack'[q] = stack[q] /\ pc'[q] = pc[q] /\ temp'[q] = temp[q]
  /\ \A q \in Recoverers \ {p} :
       /\ files'[q] = files[q] /\ promised'[q] = promised[q]
       /\ \/ synced'.files[q] = synced.files[q]
          \/ synced'.files[q] = "none" /\ files[q] = "none"
  /\ \A d \in Dumpers \ {p} :
       /\ chain'[d] = chain[d]
       /\ \A l \in chain[d].created : l \in dirs' /\ maker'[l] = maker[l]

\* A step of another process keeps what this one's calls rely on,
LEMMA OthersCalls ==
  ASSUME TypeOK, NEW q \in Procs, CallKnown(q), Grows,
         stack'[q] = stack[q], pc'[q] = pc[q]
  PROVE  CallKnown(q)'
<1>1. CASE stack[q] = <<>>
  BY <1>1 DEF CallKnown
<1>2. CASE stack[q] # <<>>
  <2>1. PICK f \in Frame : f = Top(q) /\ f.level \in 1..Base /\ Reached(f)
    <3>1. Top(q) \in Frame /\ Top(q).level \in 1..Base /\ Reached(Top(q))
      BY <1>2, TopFacts
    <3>2. QED
      BY <3>1
  <2>2. Top(q)' = f
    BY <2>1 DEF Top
  <2>3. Reached(f)'
    BY <2>1, ReachedStays
  <2>4. Reached(Top(q))'
    BY <2>2, <2>3
  <2>5. QED
    BY <2>4, <1>2 DEF CallKnown
<1>3. QED
  BY <1>1, <1>2

\* what its own step relies on,
LEMMA OthersSteps ==
  ASSUME TypeOK, NEW q \in Recoverers, StepKnown(q), Grows,
         pc'[q] = pc[q], temp'[q] = temp[q], files'[q] = files[q]
  PROVE  StepKnown(q)'
<1>1. Published(Base) => Published(Base)'
  BY PublishedStays, Constants
<1>2. Published(Depth) => Published(Depth)'
  BY PublishedStays, Constants
<1>3. Depth \in dirs \cup foreign => Depth \in dirs' \cup foreign'
  BY DEF Grows
<1>4. QED
  BY <1>1, <1>2, <1>3 DEF StepKnown

\* and what it was promised.
LEMMA OthersPromises ==
  ASSUME TypeOK, NEW q \in Recoverers, PromiseKnown(q), Grows,
         files'[q] = files[q], promised'[q] = promised[q],
         \/ synced'.files[q] = synced.files[q]
         \/ synced'.files[q] = "none" /\ files[q] = "none"
  PROVE  PromiseKnown(q)'
<1>1. Published(Depth) => Published(Depth)'
  BY PublishedStays, Constants
<1>2. QED
  BY <1>1 DEF PromiseKnown

\* A step has to be checked for the process that takes it.
LEMMA StepKeeps ==
  ASSUME PublicationInv, NEW p \in Procs, Grows, Private(p),
         TypeOK', UnpublishedIsMarked', TreeKnown', FilesKnown',
         chain' \in [Dumpers -> Chains],
         CallKnown(p)',
         p \in Recoverers => StepKnown(p)' /\ PromiseKnown(p)',
         p \in Dumpers => DumpKnown(p)'
  PROVE  PublicationInv'
<1>1. TypeOK /\ CallsKnown /\ RecordKnown /\ PromisesKnown /\ DumpsKnown
  BY DEF PublicationInv
<1>2. CallsKnown'
  <2>1. ASSUME NEW q \in Procs \ {p}
        PROVE  CallKnown(q)'
    BY <1>1, OthersCalls DEF CallsKnown, Private
  <2>2. QED
    BY <2>1 DEF CallsKnown
<1>3. RecordKnown'
  <2>1. ASSUME NEW q \in Recoverers \ {p}
        PROVE  StepKnown(q)'
    BY <1>1, OthersSteps, Constants DEF RecordKnown, Private
  <2>2. QED
    BY <2>1 DEF RecordKnown
<1>4. PromisesKnown'
  <2>1. ASSUME NEW q \in Recoverers \ {p}
        PROVE  PromiseKnown(q)'
    BY <1>1, OthersPromises, Constants DEF PromisesKnown, Private
  <2>2. QED
    BY <2>1 DEF PromisesKnown
<1>5. DumpsKnown'
  <2>1. ASSUME NEW d \in Dumpers \ {p}
        PROVE  DumpKnown(d)'
    <3>1. DumpKnown(d) /\ d \in Procs \ {p}
      BY <1>1, Constants DEF DumpsKnown
    <3>2. QED
      BY <3>1 DEF DumpKnown, Private
  <2>2. QED
    BY <2>1 DEF DumpsKnown
<1>6. QED
  BY <1>2, <1>3, <1>4, <1>5 DEF PublicationInv

\* Steps that leave the disk alone.
LEMMA QuietStep ==
  ASSUME PublicationInv, NEW p \in Procs, UNCHANGED <<disk, history>>,
         Others(p),
         stack' \in [Procs -> Seq(Frame)], pc' \in [Procs -> Steps],
         temp' \in [Procs -> Temps],
         \A q \in Procs \ {p} : temp'[q] = temp[q],
         chain' \in [Dumpers -> Chains],
         \A d \in Dumpers \ {p} : chain'[d] = chain[d],
         temp'[p] # "none" => Depth \in dirs,
         CallKnown(p)',
         p \in Recoverers => StepKnown(p)',
         p \in Dumpers => DumpKnown(p)'
  PROVE  PublicationInv'
<1>1. /\ TypeOK /\ UnpublishedIsMarked /\ TreeKnown /\ FilesKnown
      /\ PromisesKnown /\ DumpsKnown
  BY DEF PublicationInv
<1>2. UNCHANGED <<dirs, open, marks, files, synced, promised, maker, foreign>>
  BY DEF disk, history
<1>3. TypeOK'
  BY <1>1, <1>2 DEF TypeOK, Temps
<1>4. Grows
  BY <1>2 DEF Grows
<1>5. Private(p)
  BY <1>1, <1>2 DEF Private, Others, DumpsKnown, DumpKnown
<1>6. UnpublishedIsMarked' /\ TreeKnown'
  BY <1>1, <1>2 DEF UnpublishedIsMarked, TreeKnown, Published
<1>7. FilesKnown'
  BY <1>1, <1>2 DEF FilesKnown
<1>8. p \in Recoverers => PromiseKnown(p)'
  BY <1>1, <1>2 DEF PromisesKnown, PromiseKnown, Published
<1>9. QED
  BY <1>3, <1>4, <1>5, <1>6, <1>7, <1>8, StepKeeps

\* Steps on the directories and their markers.
LEMMA TreeStep ==
  ASSUME PublicationInv, NEW p \in Procs, UNCHANGED <<files, promised, temp>>,
         Others(p),
         stack' \in [Procs -> Seq(Frame)], pc' \in [Procs -> Steps],
         chain' \in [Dumpers -> Chains],
         \A d \in Dumpers \ {p} : chain'[d] = chain[d],
         dirs' \subseteq Levels, dirs \subseteq dirs', open' \subseteq dirs',
         marks' \in [Levels -> Marks], maker' \in [Levels -> Marks],
         foreign' \subseteq Levels, foreign \subseteq foreign',
         synced' \in Stable, synced.dirs \subseteq synced'.dirs,
         synced'.dirs \subseteq dirs',
         synced'.files = synced.files,
         \A l \in dirs : maker'[l] = maker[l],
         \A l \in 1..Base : marks[l] # NoOne => marks'[l] # NoOne \/ l \in dirs' \cup foreign',
         UnpublishedIsMarked', TreeKnown', CallKnown(p)',
         p \in Recoverers => StepKnown(p)',
         p \in Dumpers => DumpKnown(p)'
  PROVE  PublicationInv'
<1>1. TypeOK /\ FilesKnown /\ PromisesKnown /\ DumpsKnown
  BY DEF PublicationInv
<1>2. UNCHANGED <<files, promised, temp>>
  OBVIOUS
<1>3. TypeOK'
  BY <1>1, <1>2 DEF TypeOK, Marks
<1>4. Grows
  BY DEF Grows
<1>5. Private(p)
  BY <1>1, <1>2 DEF Private, Others, DumpsKnown, DumpKnown
<1>6. FilesKnown'
  BY <1>1, <1>2 DEF FilesKnown
<1>7. p \in Recoverers => PromiseKnown(p)'
  BY <1>1, <1>2, <1>4, OthersPromises DEF PromisesKnown
<1>8. QED
  BY <1>3, <1>4, <1>5, <1>6, <1>7, StepKeeps

\* Steps on the files.
LEMMA FileStep ==
  ASSUME PublicationInv, NEW p \in Procs,
         UNCHANGED <<dirs, open, marks, maker, foreign>>,
         Others(p), UNCHANGED stack, pc' \in [Procs -> Steps],
         pc[p] # "base", pc'[p] # "base",
         temp' \in [Procs -> Temps],
         \A q \in Procs \ {p} : temp'[q] = temp[q],
         chain' \in [Dumpers -> Chains],
         \A d \in Dumpers \ {p} : chain'[d] = chain[d],
         files' \in [Names -> Contents],
         \A q \in Recoverers \ {p} : files'[q] = files[q],
         synced' \in Stable, synced'.dirs = synced.dirs,
         \A q \in Recoverers \ {p} : synced'.files[q] = synced.files[q],
         promised' \in [Recoverers -> Promises],
         \A q \in Recoverers \ {p} : promised'[q] = promised[q],
         FilesKnown',
         p \in Recoverers => StepKnown(p)' /\ PromiseKnown(p)',
         p \in Dumpers => DumpKnown(p)'
  PROVE  PublicationInv'
<1>1. TypeOK /\ UnpublishedIsMarked /\ TreeKnown /\ CallsKnown /\ DumpsKnown
  BY DEF PublicationInv
<1>2. /\ UNCHANGED <<dirs, open, marks, maker, foreign, stack>>
      /\ synced'.dirs = synced.dirs
  OBVIOUS
<1>3. TypeOK'
  BY <1>1, <1>2 DEF TypeOK, Temps, Promises
<1>4. Grows
  BY <1>2 DEF Grows
<1>5. Private(p)
  BY <1>1, <1>2 DEF Private, Others, DumpsKnown, DumpKnown
<1>6. UnpublishedIsMarked' /\ TreeKnown'
  BY <1>1, <1>2 DEF UnpublishedIsMarked, TreeKnown, Published
<1>7. CallKnown(p)'
  <2>1. stack[p] = <<>>
    BY <1>1 DEF CallsKnown, CallKnown
  <2>2. QED
    BY <1>2, <2>1, EmptySeq DEF CallKnown
<1>8. QED
  BY <1>3, <1>4, <1>5, <1>6, <1>7, StepKeeps

-----------------------------------------------------------------------------
(* ensure_directory, for the state base                                    *)

\* The invariant, part by part and process by process.
LEMMA Parts ==
  ASSUME PublicationInv
  PROVE  /\ TypeOK /\ UnpublishedIsMarked /\ TreeKnown /\ CallsKnown
         /\ RecordKnown
         /\ FilesKnown /\ PromisesKnown /\ DumpsKnown
         /\ chain \in [Dumpers -> Chains]
         /\ \A p \in Procs : CallKnown(p)
         /\ \A p \in Recoverers : StepKnown(p) /\ PromiseKnown(p)
         /\ \A d \in Dumpers : DumpKnown(d)
BY DEF PublicationInv, CallsKnown, RecordKnown, PromisesKnown, DumpsKnown

\* A call of ensure_directory that is at some point.
LEMMA InFacts ==
  ASSUME PublicationInv, NEW p \in Recoverers, NEW at, In(p, at)
  PROVE  \E l \in 1..Base, f \in Frame :
           /\ l = Level(p) /\ f = Top(p) /\ f.level = l /\ f.at = at
           /\ Reached(f) /\ stack[p] # <<>> /\ pc[p] = "base" /\ l \in Levels
<1>1. /\ p \in Procs /\ CallKnown(p) /\ stack[p] # <<>> /\ Top(p).at = at
      /\ TypeOK
  BY Constants, Parts DEF In
<1>2. /\ Top(p) \in Frame /\ Level(p) \in 1..Base /\ Level(p) = Top(p).level
      /\ Reached(Top(p)) /\ pc[p] = "base"
  BY <1>1, TopFacts
<1>3. QED
  BY <1>1, <1>2, Constants

\* A call goes on at another point.
LEMMA Moves ==
  ASSUME PublicationInv, NEW p \in Recoverers, stack[p] # <<>>,
         NEW at \in Ats, NEW mark \in Marks,
         GoTo(p, at) \/ GoWith(p, at, mark),
         pc' = pc, NEW l \in 1..Base, l = Level(p),
         \A g \in Frame : g.level = l /\ g.at = at => Reached(g)'
  PROVE  /\ stack' \in [Procs -> Seq(Frame)] /\ pc' \in [Procs -> Steps]
         /\ Others(p) /\ CallKnown(p)' /\ StepKnown(p)'
<1>1. p \in Procs /\ CallKnown(p) /\ TypeOK
  BY Constants, Parts
<1>2. Top(p) \in Frame /\ Top(p).level = l /\ pc[p] = "base"
  BY <1>1, TopFacts
<1>3. PICK g \in Frame : Becomes(p, g) /\ g.level = l /\ g.at = at
  <2>1. PICK f \in Frame : f = Top(p) /\ f.level = l
    BY <1>2
  <2>2. CASE GoTo(p, at)
    <3> DEFINE g == [f EXCEPT !.at = at]
    <3>1. g \in Frame /\ g.level = l /\ g.at = at
      BY <2>1, FrameWith
    <3>2. Becomes(p, g)
      BY <2>1, <2>2 DEF GoTo
    <3> HIDE DEF g
    <3>3. QED
      BY <3>1, <3>2
  <2>3. CASE GoWith(p, at, mark)
    <3> DEFINE g == [f EXCEPT !.at = at, !.mark = mark]
    <3>1. g \in Frame /\ g.level = l /\ g.at = at
      BY <2>1 DEF Frame, Ats, Marks
    <3>2. Becomes(p, g)
      BY <2>1, <2>3 DEF GoWith
    <3> HIDE DEF g
    <3>3. QED
      BY <3>1, <3>2
  <2>4. QED
    BY <2>2, <2>3
<1>4. Reached(g)'
  BY <1>3
<1>5. stack' \in [Procs -> Seq(Frame)] /\ Others(p)
  BY <1>1, <1>3, BecomesFacts DEF Others
<1>6. CallKnown(p)'
  BY <1>1, <1>3, <1>4, BecomesKnown
<1>7. pc' \in [Procs -> Steps] /\ pc'[p] = "base"
  BY <1>1, <1>2, TypeFacts
<1>8. StepKnown(p)'
  BY <1>7 DEF StepKnown
<1>9. QED
  BY <1>5, <1>6, <1>7, <1>8

\* A call returns to the one that waits for it, or to the run.
LEMMA Returns ==
  ASSUME PublicationInv, NEW p \in Recoverers, stack[p] # <<>>, Return(p),
         NEW l \in 1..Base, l = Level(p), Published(l)'
  PROVE  /\ stack' \in [Procs -> Seq(Frame)] /\ pc' \in [Procs -> Steps]
         /\ Others(p) /\ CallKnown(p)' /\ StepKnown(p)'
<1>1. p \in Procs /\ CallKnown(p) /\ TypeOK
  BY Constants, Parts
<1>2. /\ stack' \in [Procs -> Seq(Frame)] /\ pc' \in [Procs -> Steps]
      /\ Others(p) /\ CallKnown(p)'
      /\ \/ pc'[p] = "base"
         \/ pc'[p] = "own" /\ Published(Base)'
  BY <1>1, ReturnFacts
<1>3. StepKnown(p)'
  BY <1>2 DEF StepKnown
<1>4. QED
  BY <1>2, <1>3

\* A call ends, however it ends.
LEMMA Leaves ==
  ASSUME PublicationInv, NEW p \in Procs,
         stack' = [stack EXCEPT ![p] = <<>>], pc' = [pc EXCEPT ![p] = "idle"]
  PROVE  /\ stack' \in [Procs -> Seq(Frame)] /\ pc' \in [Procs -> Steps]
         /\ Others(p) /\ CallKnown(p)'
         /\ p \in Recoverers => StepKnown(p)'
<1>1. TypeOK
  BY Parts
<1>2. <<>> \in Seq(Frame) /\ Len(<<>>) = 0
  BY EmptySeq
<1>3. stack' \in [Procs -> Seq(Frame)] /\ stack'[p] = <<>>
  BY <1>1, <1>2, TypeFacts
<1>4. pc' \in [Procs -> Steps] /\ pc'[p] = "idle" /\ Others(p)
  BY <1>1, TypeFacts DEF Steps, Others
<1>5. CallKnown(p)' /\ StepKnown(p)'
  BY <1>2, <1>3, <1>4 DEF CallKnown, StepKnown
<1>6. QED
  BY <1>3, <1>4, <1>5

\* An error ends the call and removes the temporary file.
LEMMA Aborts ==
  ASSUME PublicationInv, NEW p \in Recoverers, Abort(p), chain' = chain
  PROVE  PublicationInv'
<1>1. /\ p \in Procs /\ p \notin Dumpers /\ TypeOK
      /\ chain \in [Dumpers -> Chains]
  BY Constants, Parts
<1>2. /\ stack' = [stack EXCEPT ![p] = <<>>]
      /\ pc' = [pc EXCEPT ![p] = "idle"]
      /\ temp' = [temp EXCEPT ![p] = "none"] /\ UNCHANGED <<disk, history>>
  BY DEF Abort
<1>3. temp' \in [Procs -> Temps] /\ \A q \in Procs \ {p} : temp'[q] = temp[q]
  BY <1>1, <1>2, TypeFacts DEF Temps
<1>4. temp'[p] = "none"
  BY <1>1, <1>2, TypeFacts
<1>5. QED
  BY <1>1, <1>2, <1>3, <1>4, Leaves, QuietStep

\* A kill leaves the temporary file.
LEMMA Kills ==
  ASSUME PublicationInv, NEW p \in Recoverers, Killed(p), chain' = chain
  PROVE  PublicationInv'
<1>1. /\ p \in Procs /\ p \notin Dumpers /\ TypeOK
      /\ chain \in [Dumpers -> Chains] /\ FilesKnown
  BY Constants, Parts
<1>2. /\ stack' = [stack EXCEPT ![p] = <<>>]
      /\ pc' = [pc EXCEPT ![p] = "idle"]
      /\ temp' = temp /\ UNCHANGED <<disk, history>>
  BY DEF Killed
<1>3. /\ temp' \in [Procs -> Temps]
      /\ temp'[p] # "none" => Depth \in dirs
  BY <1>1, <1>2, TypeFacts DEF FilesKnown
<1>4. QED
  BY <1>1, <1>2, <1>3, Leaves, QuietStep

\* begin() asks for the state base.
LEMMA BeginStep ==
  ASSUME PublicationInv, NEW p \in Recoverers, Begin(p), chain' = chain
  PROVE  PublicationInv'
<1>1. /\ p \in Procs /\ p \notin Dumpers /\ TypeOK
      /\ chain \in [Dumpers -> Chains]
  BY Constants, Parts
<1>2. /\ pc' = [pc EXCEPT ![p] = "base"]
      /\ stack' = [stack EXCEPT ![p] = <<Asked(Base)>>]
      /\ temp' = [temp EXCEPT ![p] = "none"] /\ UNCHANGED <<disk, history>>
  BY DEF Begin
<1>3. PICK f \in Frame : f = Asked(Base) /\ f.level = Base /\ f.at = "look"
  <2>1. /\ Asked(Base) \in Frame /\ Asked(Base).level = Base
        /\ Asked(Base).at = "look"
    BY Constants DEF Asked, Frame, Levels
  <2>2. QED
    BY <2>1
<1>4. /\ <<f>> \in Seq(Frame) /\ Len(<<f>>) = 1 /\ <<f>>[1] = f
      /\ <<f>> # <<>>
  OBVIOUS
<1>5. /\ stack' \in [Procs -> Seq(Frame)] /\ stack'[p] = <<f>>
      /\ pc' \in [Procs -> Steps] /\ pc'[p] = "base" /\ Others(p)
      /\ temp' \in [Procs -> Temps] /\ temp'[p] = "none"
      /\ \A q \in Procs \ {p} : temp'[q] = temp[q]
  BY <1>1, <1>2, <1>3, <1>4, TypeFacts DEF Steps, Temps, Others
<1>6. Top(p)' = f
  BY <1>4, <1>5 DEF Top, Last
<1>7. Reached(f)'
  BY <1>3 DEF Reached
<1>8. CallKnown(p)'
  <2>1. \A i \in 1..1 : <<f>>[i].level = Base + 1 - i
    BY <1>3, <1>4, Constants
  <2>2. \A i \in 1..(1 - 1) : <<f>>[i].at \in {"lookAgain", "mark"}
    OBVIOUS
  <2>3. Reached(Top(p))'
    BY <1>6, <1>7
  <2>4. QED
    BY <2>1, <2>2, <2>3, <1>4, <1>5 DEF CallKnown
<1>9. StepKnown(p)'
  BY <1>5 DEF StepKnown
<1>10. QED
  BY <1>1, <1>2, <1>5, <1>8, <1>9, QuietStep

\* A closed ancestor is ensured first.
LEMMA LookDeniedStep ==
  ASSUME PublicationInv, NEW p \in Recoverers, LookDenied(p), chain' = chain
  PROVE  PublicationInv'
<1>1. /\ p \in Procs /\ p \notin Dumpers /\ TypeOK
      /\ chain \in [Dumpers -> Chains]
      /\ FilesKnown /\ CallKnown(p)
  BY Constants, Parts
<1>2. /\ In(p, "look") /\ Denied(Level(p)) /\ Call(p, "lookAgain") /\ pc' = pc
      /\ temp' = temp /\ UNCHANGED <<disk, history>>
  BY DEF LookDenied
<1>3. PICK l \in 1..Base : l = Level(p) /\ stack[p] # <<>> /\ pc[p] = "base"
  BY <1>2, InFacts
<1>4. l # 1
  <2>1. \E k \in 1..(l - 1) : k \in dirs
    BY <1>2, <1>3 DEF Denied
  <2>2. QED
    BY <2>1
<1>5. /\ stack' \in [Procs -> Seq(Frame)]
      /\ \A q \in Procs \ {p} : stack'[q] = stack[q]
      /\ CallKnown(p)'
  BY <1>1, <1>2, <1>3, <1>4, CallFacts
<1>6. pc' \in [Procs -> Steps] /\ temp' \in [Procs -> Temps] /\ Others(p)
  BY <1>1, <1>2, <1>5, TypeFacts DEF Others
<1>7. StepKnown(p)'
  BY <1>2, <1>3 DEF StepKnown
<1>8. temp'[p] # "none" => Depth \in dirs
  BY <1>1, <1>2 DEF FilesKnown
<1>9. QED
  BY <1>1, <1>2, <1>5, <1>6, <1>7, <1>8, QuietStep

\* What the parts say of the disk stays with it.
LEMMA SameDisk ==
  ASSUME UNCHANGED <<disk, history>>
  PROVE  /\ \A l : Published(l) <=> Published(l)'
         /\ \A f \in Frame : Reached(f) <=> Reached(f)'
BY DEF disk, history, Published, Reached

\* An unmarked entry is trusted: it is published.
LEMMA LookStep ==
  ASSUME PublicationInv, NEW p \in Recoverers, Look(p), chain' = chain
  PROVE  PublicationInv'
<1>1. /\ p \in Procs /\ p \notin Dumpers /\ TypeOK
      /\ chain \in [Dumpers -> Chains]
      /\ FilesKnown /\ CallKnown(p) /\ TreeKnown /\ UnpublishedIsMarked
  BY Constants, Parts
<1>2. PICK l \in 1..Base : /\ l = Level(p) /\ stack[p] # <<>> /\ pc[p] = "base"
                           /\ l \in Levels
  <2>1. In(p, "look") \/ In(p, "lookAgain")
    BY DEF Look
  <2>2. QED
    BY <2>1, InFacts
<1>3. temp' = temp /\ UNCHANGED <<disk, history>>
  BY DEF Look
<1>4. /\ stack' \in [Procs -> Seq(Frame)] /\ pc' \in [Procs -> Steps]
      /\ Others(p)
      /\ CallKnown(p)' /\ StepKnown(p)'
  <2>1. CASE l \in dirs /\ marks[l] = NoOne
    <3>1. Return(p)
      BY <2>1, <1>2 DEF Look
    <3>2. l \in synced.dirs \cup foreign
      BY <2>1, <1>1 DEF UnpublishedIsMarked
    <3>3. Published(l)
      BY <3>2, <1>1, SyncedIsPublished
    <3>4. Published(l)'
      BY <3>3, <1>3, SameDisk
    <3>5. QED
      BY <3>1, <3>4, <1>2, Returns
  <2>2. CASE l \in dirs /\ marks[l] # NoOne
    <3>1. GoWith(p, "repair", marks[l]) /\ pc' = pc
      BY <2>2, <1>2 DEF Look
    <3>2. marks[l] \in Marks /\ "repair" \in Ats
      BY <1>1, <1>2, TypeFacts DEF Ats
    <3>3. \A g \in Frame : g.level = l /\ g.at = "repair" => Reached(g)'
      BY <2>2, <1>3 DEF Reached, disk
    <3>4. QED
      BY <3>1, <3>2, <3>3, <1>2, Moves
  <2>3. CASE l \notin dirs /\ l = 1
    <3>1. GoTo(p, "mark") /\ pc' = pc
      BY <2>3, <1>2 DEF Look
    <3>2. NoOne \in Marks /\ "mark" \in Ats
      BY DEF Ats, Marks
    <3>3. \A g \in Frame : g.level = l /\ g.at = "mark" => Reached(g)'
      BY <2>3 DEF Reached, Published
    <3>4. QED
      BY <3>1, <3>2, <3>3, <1>2, Moves
  <2>4. CASE l \notin dirs /\ l # 1
    <3>1. Call(p, "mark") /\ pc' = pc
      BY <2>4, <1>2 DEF Look
    <3>2. /\ stack' \in [Procs -> Seq(Frame)] /\ CallKnown(p)'
          /\ \A q \in Procs \ {p} : stack'[q] = stack[q]
      BY <3>1, <2>4, <1>1, <1>2, CallFacts
    <3>3. QED
      BY <3>1, <3>2, <1>1, <1>2, TypeFacts DEF Others, StepKnown
  <2>5. QED
    BY <2>1, <2>2, <2>3, <2>4
<1>5. /\ temp' \in [Procs -> Temps]
      /\ temp'[p] # "none" => Depth \in dirs
  BY <1>1, <1>3, TypeFacts DEF FilesKnown
<1>6. QED
  BY <1>1, <1>3, <1>4, <1>5, QuietStep

\* fsync of the parent adds the entry, if it is there, and no more.
LEMMA SyncFacts ==
  ASSUME TypeOK, NEW l \in Levels, Synchronize(l)
  PROVE  /\ synced' \in Stable
         /\ synced.dirs \subseteq synced'.dirs /\ synced'.dirs \subseteq dirs
         /\ synced'.files = synced.files
         /\ l \in dirs => l \in synced'.dirs
<1>1. /\ synced \in Stable /\ dirs \subseteq Levels
      /\ synced.dirs \subseteq dirs
      /\ marks[l] \in Marks
  BY TypeFacts
<1> DEFINE more == IF l \in dirs THEN synced.dirs \cup {l} ELSE synced.dirs
           kept == [synced.marks EXCEPT ![l] = marks[l]]
<1>2. synced' = [dirs |-> more, marks |-> kept, files |-> synced.files]
  BY <1>1 DEF Synchronize, Stable
<1>3. more \in SUBSET Levels /\ kept \in [Levels -> Marks]
  BY <1>1, TypeFacts
<1>4. synced.files \in [Names -> Contents]
  BY TypeFacts
<1>5. synced' \in Stable
  BY <1>2, <1>3, <1>4 DEF Stable, Marks
<1>6. synced'.dirs = more /\ synced'.files = synced.files
  BY <1>2
<1>7. QED
  BY <1>1, <1>5, <1>6

\* A level is made below one that is reached.
LEMMA Deeper ==
  ASSUME TypeOK, TreeKnown, Grows, NEW l \in Levels, Reachable(l),
         dirs' = dirs \cup {l}, l \in dirs \/ (l <= Base => Published(l - 1)')
  PROVE  TreeKnown'
<1>1. Levels \subseteq Nat /\ dirs \subseteq Levels
  BY Constants, TypeFacts
<1>2. ASSUME NEW m \in dirs', NEW k \in 1..m
      PROVE  k \in dirs'
  <2>1. CASE m \in dirs
    BY <2>1, <1>2 DEF TreeKnown
  <2>2. CASE m = l
    BY <2>2, <1>1, <1>2 DEF Reachable
  <2>3. QED
    BY <2>1, <2>2, <1>2
<1>3. ASSUME NEW m \in dirs', m <= Base
      PROVE  Published(m - 1)'
  <2>1. CASE m \in dirs
    <3>1. Published(m - 1) /\ m - 1 \in Int
      BY <2>1, <1>1, <1>3 DEF TreeKnown
    <3>2. QED
      BY <3>1, PublishedStays
  <2>2. CASE m = l
    <3>1. CASE l \in dirs
      BY <3>1, <2>1, <2>2
    <3>2. CASE l <= Base => Published(l - 1)'
      BY <3>2, <2>2, <1>3
    <3>3. QED
      BY <3>1, <3>2
  <2>3. QED
    BY <2>1, <2>2, <1>3
<1>4. QED
  BY <1>2, <1>3 DEF TreeKnown

\* No level is made or lost: what is published stays so.
LEMMA NoDeeper ==
  ASSUME TypeOK, TreeKnown, Grows, dirs' = dirs
  PROVE  TreeKnown'
<1>1. Levels \subseteq Nat /\ dirs \subseteq Levels
  BY Constants, TypeFacts
<1>2. ASSUME NEW m \in dirs', m <= Base
      PROVE  Published(m - 1)'
  <2>1. Published(m - 1) /\ m - 1 \in Int
    BY <1>1, <1>2 DEF TreeKnown
  <2>2. QED
    BY <2>1, PublishedStays
<1>3. QED
  BY <1>2 DEF TreeKnown

\* Owner access is restored, by the maker or by who adopts the entry.
LEMMA OpensStep ==
  ASSUME PublicationInv, NEW p \in Recoverers, Repair(p) \/ Access(p), chain' = chain
  PROVE  PublicationInv'
<1>1. /\ p \in Procs /\ p \notin Dumpers /\ TypeOK
      /\ chain \in [Dumpers -> Chains]
      /\ TreeKnown /\ UnpublishedIsMarked
  BY Constants, Parts
<1>2. PICK l \in 1..Base : l = Level(p) /\ stack[p] # <<>> /\ l \in Levels
  <2>1. In(p, "repair") \/ In(p, "access")
    BY DEF Repair, Access
  <2>2. QED
    BY <2>1, InFacts
<1>3. /\ l \in dirs /\ open' = open \cup {l} /\ GoTo(p, "publish") /\ pc' = pc
      /\ UNCHANGED <<dirs, marks, files, synced, temp, promised, maker, foreign>>
  BY <1>2 DEF Repair, Access, history
<1>4. Grows
  BY <1>3 DEF Grows
<1>5. /\ stack' \in [Procs -> Seq(Frame)] /\ pc' \in [Procs -> Steps]
      /\ Others(p) /\ CallKnown(p)' /\ StepKnown(p)'
  <2>1. NoOne \in Marks /\ "publish" \in Ats
    BY DEF Marks, Ats
  <2>2. \A g \in Frame : g.level = l /\ g.at = "publish" => Reached(g)'
    BY <1>3 DEF Reached
  <2>3. QED
    BY <2>1, <2>2, <1>2, <1>3, Moves
<1>6. UnpublishedIsMarked' /\ TreeKnown'
  BY <1>1, <1>3, <1>4, NoDeeper DEF UnpublishedIsMarked
<1>7. open' \subseteq dirs'
  BY <1>1, <1>3, TypeFacts
<1>8. QED
  BY <1>1, <1>3, <1>5, <1>6, <1>7, TreeStep, TypeFacts

\* The marker is there before the entry is.
LEMMA MarkStep ==
  ASSUME PublicationInv, NEW p \in Recoverers, Mark(p), chain' = chain
  PROVE  PublicationInv'
<1>1. /\ p \in Procs /\ p \notin Dumpers /\ TypeOK
      /\ chain \in [Dumpers -> Chains]
      /\ TreeKnown /\ UnpublishedIsMarked
  BY Constants, Parts
<1>2. PICK l \in 1..Base, f \in Frame :
        /\ l = Level(p) /\ stack[p] # <<>> /\ l \in Levels
        /\ f.level = l /\ f.at = "mark" /\ Reached(f)
  BY InFacts DEF Mark
<1>3. PICK mark \in Procs :
        /\ marks' = [marks EXCEPT ![l] = mark] /\ GoWith(p, "mkdir", mark)
        /\ pc' = pc
        /\ UNCHANGED <<dirs, open, files, synced, temp, promised, maker, foreign>>
  <2>1. (IF marks[l] = NoOne THEN p ELSE marks[l]) \in Procs
    BY <1>1, <1>2, TypeFacts DEF Marks
  <2>2. QED
    BY <2>1, <1>2 DEF Mark, history
<1>4. /\ marks' \in [Levels -> Marks] /\ marks'[l] # NoOne
      /\ \A k \in Levels : marks[k] # NoOne => marks'[k] # NoOne
  BY <1>1, <1>2, <1>3, TypeFacts, Constants DEF Marks
<1>5. Grows
  BY <1>3, <1>4, Constants DEF Grows
<1>6. /\ stack' \in [Procs -> Seq(Frame)] /\ pc' \in [Procs -> Steps]
      /\ Others(p) /\ CallKnown(p)' /\ StepKnown(p)'
  <2>1. mark \in Marks /\ "mkdir" \in Ats
    BY DEF Marks, Ats
  <2>2. Published(l - 1)'
    <3>1. Published(l - 1) /\ l - 1 \in Int
      BY <1>2 DEF Reached
    <3>2. QED
      BY <3>1, <1>1, <1>5, PublishedStays
  <2>3. \A g \in Frame : g.level = l /\ g.at = "mkdir" => Reached(g)'
    BY <2>2, <1>4 DEF Reached
  <2>4. QED
    BY <2>1, <2>3, <1>2, <1>3, Moves
<1>7. UnpublishedIsMarked' /\ TreeKnown'
  BY <1>1, <1>3, <1>4, <1>5, NoDeeper, Constants DEF UnpublishedIsMarked
<1>8. \A k \in 1..Base : marks[k] # NoOne => marks'[k] # NoOne
  BY <1>4, Constants
<1>9. QED
  BY <1>1, <1>3, <1>4, <1>6, <1>7, <1>8, TreeStep, TypeFacts

\* The entry is there, under its marker.
LEMMA MkdirStep ==
  ASSUME PublicationInv, NEW p \in Recoverers, Mkdir(p), chain' = chain
  PROVE  PublicationInv'
<1>1. /\ p \in Procs /\ p \notin Dumpers /\ TypeOK
      /\ chain \in [Dumpers -> Chains]
      /\ TreeKnown /\ UnpublishedIsMarked
  BY Constants, Parts
<1>2. PICK l \in 1..Base, f \in Frame :
        /\ l = Level(p) /\ stack[p] # <<>> /\ l \in Levels
        /\ f.level = l /\ f.at = "mkdir" /\ Reached(f)
  BY InFacts DEF Mkdir
<1>3. /\ Reachable(l) /\ dirs' = dirs \cup {l} /\ pc' = pc
      /\ open' = IF l \in dirs \/ p \in Strict THEN open ELSE open \cup {l}
      /\ maker' = IF l \in dirs THEN maker ELSE [maker EXCEPT ![l] = p]
      /\ GoTo(p, IF l \in dirs THEN "publish" ELSE "access")
      /\ UNCHANGED <<marks, files, synced, temp, promised, foreign>>
  BY <1>2 DEF Mkdir
<1>4. /\ dirs' \subseteq Levels /\ dirs \subseteq dirs'
      /\ open' \subseteq dirs'
      /\ maker' \in [Levels -> Marks] /\ \A k \in dirs : maker'[k] = maker[k]
      /\ synced'.dirs \subseteq dirs'
  BY <1>1, <1>2, <1>3, TypeFacts DEF Marks
<1>5. Grows
  BY <1>3 DEF Grows
<1>6. Published(l - 1)' /\ (marks[l] # NoOne \/ l \in dirs \cup foreign)
  <2>1. Published(l - 1) /\ l - 1 \in Int /\ (marks[l] # NoOne \/ l \in dirs \cup foreign)
    BY <1>2 DEF Reached
  <2>2. QED
    BY <2>1, <1>1, <1>5, PublishedStays
<1>7. /\ stack' \in [Procs -> Seq(Frame)] /\ pc' \in [Procs -> Steps]
      /\ Others(p) /\ CallKnown(p)' /\ StepKnown(p)'
  <2>1. PICK at \in Ats : GoTo(p, at) /\ at \in {"publish", "access"}
    BY <1>3 DEF Ats
  <2>2. \A g \in Frame : g.level = l /\ g.at = at => Reached(g)'
    BY <2>1, <1>3 DEF Reached
  <2>3. NoOne \in Marks
    BY DEF Marks
  <2>4. QED
    BY <2>1, <2>2, <2>3, <1>2, <1>3, Moves
<1>8. UnpublishedIsMarked'
  BY <1>1, <1>3, <1>6 DEF UnpublishedIsMarked
<1>9. TreeKnown'
  BY <1>1, <1>2, <1>3, <1>5, <1>6, Deeper
<1>10. QED
  BY <1>1, <1>3, <1>4, <1>7, <1>8, <1>9, TreeStep, TypeFacts

\* The entry is on stable storage.
LEMMA PublishStep ==
  ASSUME PublicationInv, NEW p \in Recoverers, Publish(p), chain' = chain
  PROVE  PublicationInv'
<1>1. /\ p \in Procs /\ p \notin Dumpers /\ TypeOK
      /\ chain \in [Dumpers -> Chains]
      /\ TreeKnown /\ UnpublishedIsMarked
  BY Constants, Parts
<1>2. PICK l \in 1..Base, f \in Frame :
        /\ l = Level(p) /\ stack[p] # <<>> /\ l \in Levels
        /\ f.level = l /\ f.at = "publish" /\ Reached(f)
  BY InFacts DEF Publish
<1>3. /\ Synchronize(l) /\ pc' = pc /\ GoTo(p, "unmark")
      /\ UNCHANGED <<dirs, open, marks, files, temp, promised, maker, foreign>>
  BY <1>2 DEF Publish, history
<1>4. /\ synced' \in Stable /\ synced.dirs \subseteq synced'.dirs
      /\ synced'.dirs \subseteq dirs'
      /\ synced'.files = synced.files
      /\ l \in dirs => l \in synced'.dirs
  BY <1>1, <1>2, <1>3, SyncFacts
<1>5. Grows
  BY <1>3, <1>4 DEF Grows
<1>6. /\ stack' \in [Procs -> Seq(Frame)] /\ pc' \in [Procs -> Steps]
      /\ Others(p) /\ CallKnown(p)' /\ StepKnown(p)'
  <2>1. NoOne \in Marks /\ "unmark" \in Ats
    BY DEF Marks, Ats
  <2>2. l \in dirs \cup foreign
    BY <1>2 DEF Reached
  <2>3. \A g \in Frame : g.level = l /\ g.at = "unmark" => Reached(g)'
    BY <2>2, <1>3, <1>4 DEF Reached
  <2>4. QED
    BY <2>1, <2>3, <1>2, <1>3, Moves
<1>7. UnpublishedIsMarked' /\ TreeKnown'
  BY <1>1, <1>3, <1>4, <1>5, NoDeeper DEF UnpublishedIsMarked
<1>8. QED
  BY <1>1, <1>3, <1>4, <1>6, <1>7, TreeStep, TypeFacts

\* The marker may go: the entry is on stable storage.
LEMMA UnmarkStep ==
  ASSUME PublicationInv, NEW p \in Recoverers, Unmark(p), chain' = chain
  PROVE  PublicationInv'
<1>1. /\ p \in Procs /\ p \notin Dumpers /\ TypeOK
      /\ chain \in [Dumpers -> Chains]
      /\ TreeKnown /\ FilesKnown
  BY Constants, Parts
<1>2. PICK l \in 1..Base, f \in Frame :
        /\ l = Level(p) /\ stack[p] # <<>> /\ l \in Levels
        /\ f.level = l /\ f.at = "unmark" /\ Reached(f)
  BY InFacts DEF Unmark
<1>3. l \in synced.dirs \cup foreign
  BY <1>2 DEF Reached
<1>4. CASE Abort(p)
  BY <1>4, Aborts
<1>5. CASE ~Abort(p)
  <2>1. temp' = temp /\ UNCHANGED <<disk, history>>
    BY <1>5, <1>2 DEF Unmark
  <2>2. /\ stack' \in [Procs -> Seq(Frame)] /\ pc' \in [Procs -> Steps]
        /\ Others(p) /\ CallKnown(p)' /\ StepKnown(p)'
    <3>1. CASE Return(p)
      <4>1. Published(l)
        BY <1>1, <1>3, SyncedIsPublished
      <4>2. Published(l)'
        BY <4>1, <2>1, SameDisk
      <4>3. QED
        BY <3>1, <4>2, <1>2, Returns
    <3>2. CASE GoTo(p, "erase") /\ pc' = pc
      <4>1. NoOne \in Marks /\ "erase" \in Ats
        BY DEF Marks, Ats
      <4>2. \A g \in Frame : g.level = l /\ g.at = "erase" => Reached(g)'
        BY <1>3, <2>1 DEF Reached, disk, history
      <4>3. QED
        BY <3>2, <4>1, <4>2, <1>2, Moves
    <3>3. QED
      BY <3>1, <3>2, <1>2, <1>5 DEF Unmark
  <2>3. /\ temp' \in [Procs -> Temps]
        /\ temp'[p] # "none" => Depth \in dirs
    BY <1>1, <2>1, TypeFacts DEF FilesKnown
  <2>4. QED
    BY <1>1, <2>1, <2>2, <2>3, QuietStep
<1>6. QED
  BY <1>4, <1>5

\* The marker goes.
LEMMA EraseStep ==
  ASSUME PublicationInv, NEW p \in Recoverers, Erase(p), chain' = chain
  PROVE  PublicationInv'
<1>1. /\ p \in Procs /\ p \notin Dumpers /\ TypeOK
      /\ chain \in [Dumpers -> Chains]
      /\ TreeKnown /\ UnpublishedIsMarked
  BY Constants, Parts
<1>2. PICK l \in 1..Base, f \in Frame :
        /\ l = Level(p) /\ stack[p] # <<>> /\ l \in Levels
        /\ f.level = l /\ f.at = "erase" /\ Reached(f)
  BY InFacts DEF Erase
<1>3. /\ marks' = [marks EXCEPT ![l] = NoOne] /\ Return(p)
      /\ UNCHANGED <<dirs, open, files, synced, temp, promised, maker, foreign>>
  BY <1>2 DEF Erase, history
<1>4. l \in synced.dirs \cup foreign /\ l \in dirs \cup foreign
  BY <1>1, <1>2, TypeFacts DEF Reached
<1>5. /\ marks' \in [Levels -> Marks]
      /\ \A k \in Levels \ {l} : marks'[k] = marks[k]
  BY <1>1, <1>2, <1>3, TypeFacts DEF Marks
<1>6. \A k \in 1..Base : marks[k] # NoOne => marks'[k] # NoOne \/ k \in dirs' \cup foreign'
  BY <1>3, <1>4, <1>5, Constants
<1>7. Grows
  BY <1>3, <1>6 DEF Grows
<1>8. /\ stack' \in [Procs -> Seq(Frame)] /\ pc' \in [Procs -> Steps]
      /\ Others(p) /\ CallKnown(p)' /\ StepKnown(p)'
  <2>1. Published(l) /\ l \in Int
    BY <1>1, <1>4, SyncedIsPublished
  <2>2. Published(l)'
    BY <2>1, <1>1, <1>7, PublishedStays
  <2>3. QED
    BY <2>2, <1>2, <1>3, Returns
<1>9. UnpublishedIsMarked' /\ TreeKnown'
  BY <1>1, <1>3, <1>4, <1>5, <1>7, NoDeeper, Constants DEF UnpublishedIsMarked
<1>10. QED
  BY <1>1, <1>3, <1>5, <1>6, <1>8, <1>9, TreeStep, TypeFacts

-----------------------------------------------------------------------------
(* The owned directory, and the record in it                               *)

\* A process that is in no call of ensure_directory goes to a step that is
\* none.
LEMMA Goes ==
  ASSUME PublicationInv, NEW p \in Procs, pc[p] # "base",
         NEW step \in Steps \ {"base"}, pc' = [pc EXCEPT ![p] = step], stack' = stack
  PROVE  /\ stack' \in [Procs -> Seq(Frame)] /\ pc' \in [Procs -> Steps]
         /\ Others(p) /\ CallKnown(p)' /\ pc'[p] = step
<1>1. TypeOK /\ CallKnown(p)
  BY Parts
<1>2. stack[p] = <<>>
  BY <1>1 DEF CallKnown
<1>3. pc' \in [Procs -> Steps] /\ pc'[p] = step /\ Others(p)
  BY <1>1, TypeFacts DEF Others
<1>4. CallKnown(p)'
  BY <1>2, <1>3, EmptySeq DEF CallKnown
<1>5. QED
  BY <1>1, <1>3, <1>4, TypeFacts

\* The owned directory is made, or found.
LEMMA OwnMkdirStep ==
  ASSUME PublicationInv, NEW p \in Recoverers, OwnMkdir(p), chain' = chain
  PROVE  PublicationInv'
<1>1. /\ p \in Procs /\ p \notin Dumpers /\ TypeOK
      /\ chain \in [Dumpers -> Chains]
      /\ TreeKnown /\ UnpublishedIsMarked /\ StepKnown(p)
  BY Constants, Parts
<1>2. /\ pc[p] = "own" /\ Reachable(Depth) /\ dirs' = dirs \cup {Depth}
      /\ open' = IF Depth \in dirs \/ p \in Strict THEN open ELSE open \cup {Depth}
      /\ maker' = IF Depth \in dirs THEN maker ELSE [maker EXCEPT ![Depth] = p]
      /\ pc' = [pc EXCEPT ![p] = "ownAccess"] /\ stack' = stack
      /\ UNCHANGED <<marks, files, synced, temp, promised, foreign>>
  BY DEF OwnMkdir, Doing, Then
<1>3. /\ dirs' \subseteq Levels /\ dirs \subseteq dirs'
      /\ open' \subseteq dirs'
      /\ maker' \in [Levels -> Marks] /\ \A k \in dirs : maker'[k] = maker[k]
      /\ synced'.dirs \subseteq dirs'
  BY <1>1, <1>2, TypeFacts, Constants DEF Marks
<1>4. Grows
  BY <1>2 DEF Grows
<1>5. /\ stack' \in [Procs -> Seq(Frame)] /\ pc' \in [Procs -> Steps]
      /\ Others(p) /\ CallKnown(p)' /\ pc'[p] = "ownAccess"
  BY <1>1, <1>2, Goes DEF Steps
<1>6. Published(Base)'
  BY <1>1, <1>2, <1>4, PublishedStays, Constants DEF StepKnown
<1>7. StepKnown(p)'
  BY <1>2, <1>5, <1>6 DEF StepKnown
<1>8. TreeKnown'
  <2>1. ~(Depth <= Base)
    BY Constants
  <2>2. QED
    BY <2>1, <1>1, <1>2, <1>4, Deeper, Constants
<1>9. UnpublishedIsMarked'
  <2>1. Depth \notin 1..Base
    BY Constants
  <2>2. QED
    BY <2>1, <1>1, <1>2 DEF UnpublishedIsMarked
<1>10. QED
  BY <1>1, <1>2, <1>3, <1>5, <1>7, <1>8, <1>9, TreeStep, TypeFacts

\* Its owner may enter it.
LEMMA OwnAccessStep ==
  ASSUME PublicationInv, NEW p \in Recoverers, OwnAccess(p), chain' = chain
  PROVE  PublicationInv'
<1>1. /\ p \in Procs /\ p \notin Dumpers /\ TypeOK
      /\ chain \in [Dumpers -> Chains]
      /\ TreeKnown /\ UnpublishedIsMarked /\ StepKnown(p)
  BY Constants, Parts
<1>2. /\ pc[p] = "ownAccess" /\ Depth \in dirs /\ open' = open \cup {Depth}
      /\ pc' = [pc EXCEPT ![p] = "ownSync"] /\ stack' = stack
      /\ UNCHANGED <<dirs, marks, files, synced, temp, promised, maker, foreign>>
  BY DEF OwnAccess, Doing, Then, history
<1>3. open' \subseteq dirs'
  BY <1>1, <1>2, TypeFacts
<1>4. Grows
  BY <1>2 DEF Grows
<1>5. /\ stack' \in [Procs -> Seq(Frame)] /\ pc' \in [Procs -> Steps]
      /\ Others(p) /\ CallKnown(p)' /\ pc'[p] = "ownSync"
  BY <1>1, <1>2, Goes DEF Steps
<1>6. Published(Base)'
  BY <1>1, <1>2, <1>4, PublishedStays, Constants DEF StepKnown
<1>7. StepKnown(p)'
  BY <1>2, <1>5, <1>6 DEF StepKnown
<1>8. UnpublishedIsMarked' /\ TreeKnown'
  BY <1>1, <1>2, <1>4, NoDeeper DEF UnpublishedIsMarked
<1>9. QED
  BY <1>1, <1>2, <1>3, <1>5, <1>7, <1>8, TreeStep, TypeFacts

\* It is synchronized, whoever made it.
LEMMA OwnSyncStep ==
  ASSUME PublicationInv, NEW p \in Recoverers, OwnSync(p), chain' = chain
  PROVE  PublicationInv'
<1>1. /\ p \in Procs /\ p \notin Dumpers /\ TypeOK
      /\ chain \in [Dumpers -> Chains]
      /\ TreeKnown /\ UnpublishedIsMarked /\ StepKnown(p)
  BY Constants, Parts
<1>2. /\ pc[p] = "ownSync" /\ Synchronize(Depth)
      /\ pc' = [pc EXCEPT ![p] = "write"] /\ stack' = stack
      /\ UNCHANGED <<dirs, open, marks, files, temp, promised, maker, foreign>>
  BY DEF OwnSync, Doing, Then, history
<1>3. /\ synced' \in Stable /\ synced.dirs \subseteq synced'.dirs
      /\ synced'.dirs \subseteq dirs'
      /\ synced'.files = synced.files
      /\ Depth \in dirs => Depth \in synced'.dirs
  BY <1>1, <1>2, SyncFacts, Constants
<1>4. Grows
  BY <1>2, <1>3 DEF Grows
<1>5. /\ stack' \in [Procs -> Seq(Frame)] /\ pc' \in [Procs -> Steps]
      /\ Others(p) /\ CallKnown(p)' /\ pc'[p] = "write"
  BY <1>1, <1>2, Goes DEF Steps
<1>6. Published(Base)' /\ Depth \in synced'.dirs \cup foreign'
  BY <1>1, <1>2, <1>3, <1>4, PublishedStays, Constants DEF StepKnown
<1>7. Published(Depth)'
  <2>1. \A k \in 1..Depth : k \in 1..Base \/ k = Depth
    BY Constants
  <2>2. Depth <= Depth
    BY Constants
  <2>3. QED
    BY <2>1, <2>2, <1>6 DEF Published
<1>8. StepKnown(p)'
  BY <1>5, <1>7 DEF StepKnown
<1>9. UnpublishedIsMarked' /\ TreeKnown'
  BY <1>1, <1>2, <1>3, <1>4, NoDeeper DEF UnpublishedIsMarked
<1>10. QED
  BY <1>1, <1>2, <1>3, <1>5, <1>8, <1>9, TreeStep, TypeFacts

\* The record is written and flushed beside its name.
LEMMA WriteStep ==
  ASSUME PublicationInv, NEW p \in Recoverers, Write(p), chain' = chain
  PROVE  PublicationInv'
<1>1. /\ p \in Procs /\ p \notin Dumpers /\ TypeOK
      /\ chain \in [Dumpers -> Chains]
      /\ StepKnown(p)
  BY Constants, Parts
<1>2. /\ pc[p] = "write" /\ Depth \in open
      /\ temp' = [temp EXCEPT ![p] = "flushed"]
      /\ pc' = [pc EXCEPT ![p] = "replace"] /\ stack' = stack
      /\ UNCHANGED <<disk, history>>
  BY DEF Write, Doing, Then
<1>3. /\ temp' \in [Procs -> Temps] /\ temp'[p] = "flushed" /\ Depth \in dirs
      /\ \A q \in Procs \ {p} : temp'[q] = temp[q]
  BY <1>1, <1>2, TypeFacts DEF Temps
<1>4. /\ stack' \in [Procs -> Seq(Frame)] /\ pc' \in [Procs -> Steps]
      /\ Others(p) /\ CallKnown(p)' /\ pc'[p] = "replace"
  BY <1>1, <1>2, Goes DEF Steps
<1>5. Published(Depth)'
  BY <1>1, <1>2, SameDisk DEF StepKnown
<1>6. StepKnown(p)'
  BY <1>3, <1>4, <1>5 DEF StepKnown
<1>7. QED
  BY <1>1, <1>2, <1>3, <1>4, <1>6, QuietStep

\* fsync of the owned directory stores the process's file, and nothing else.
LEMMA SyncFilesFacts ==
  ASSUME TypeOK, NEW p \in Recoverers, SynchronizeFiles(p)
  PROVE  /\ synced' \in Stable /\ synced'.dirs = synced.dirs
         /\ synced'.files[p] = files[p]
         /\ \A f \in Names \ {p} : synced'.files[f] = synced.files[f]
<1>1. /\ synced \in Stable /\ files[p] \in Contents /\ p \in Names
      /\ File(p) = p
      /\ synced.files \in [Names -> Contents]
  BY TypeFacts, Constants
<1> DEFINE kept == [synced.files EXCEPT ![p] = files[p]]
<1>2. synced' = [dirs |-> synced.dirs, marks |-> synced.marks, files |-> kept]
  BY <1>1 DEF SynchronizeFiles, Stable
<1>3. kept \in [Names -> Contents] /\ kept[p] = files[p]
      /\ \A f \in Names \ {p} : kept[f] = synced.files[f]
  BY <1>1
<1>4. synced' \in Stable
  BY <1>1, <1>2, <1>3 DEF Stable
<1>5. QED
  BY <1>2, <1>3, <1>4

\* The record is under its name.
LEMMA ReplaceStep ==
  ASSUME PublicationInv, NEW p \in Recoverers, Replace(p), chain' = chain
  PROVE  PublicationInv'
<1>1. /\ p \in Procs /\ p \notin Dumpers /\ TypeOK
      /\ chain \in [Dumpers -> Chains]
      /\ FilesKnown /\ StepKnown(p) /\ PromiseKnown(p) /\ p \in Names
      /\ File(p) = p
  BY Constants, Parts
<1>2. /\ pc[p] = "replace" /\ temp[p] = "flushed"
      /\ temp' = [temp EXCEPT ![p] = "none"]
      /\ promised' = [promised EXCEPT ![p] = IF @ = "absent" THEN "unknown" ELSE @]
      /\ pc' = [pc EXCEPT ![p] = "syncFile"] /\ stack' = stack
      /\ UNCHANGED <<dirs, open, marks, synced, maker, foreign>>
  BY <1>1 DEF Replace, Doing, Then, Renamed, StepKnown
<1>3. files' = [files EXCEPT ![p] = "whole"]
  BY <1>1, <1>2 DEF Replace, Renamed
<1>4. /\ files' \in [Names -> Contents] /\ files'[p] = "whole"
      /\ \A f \in Names \ {p} : files'[f] = files[f]
  BY <1>1, <1>3, TypeFacts DEF Contents
<1>5. /\ temp' \in [Procs -> Temps] /\ temp'[p] = "none"
      /\ \A q \in Procs \ {p} : temp'[q] = temp[q]
  BY <1>1, <1>2, TypeFacts DEF Temps
<1>6. /\ promised' \in [Recoverers -> Promises]
      /\ \A q \in Recoverers \ {p} : promised'[q] = promised[q]
      /\ promised'[p] # "absent"
      /\ promised'[p] = "present" => promised[p] = "present"
  BY <1>1, <1>2, TypeFacts DEF Promises
<1>7. /\ pc' \in [Procs -> Steps] /\ Others(p) /\ pc'[p] = "syncFile"
  BY <1>1, <1>2, Goes DEF Steps
<1>8. (Published(Depth) <=> Published(Depth)')
  BY <1>2 DEF Published
<1>9. StepKnown(p)'
  BY <1>1, <1>2, <1>4, <1>7, <1>8 DEF StepKnown
<1>10. PromiseKnown(p)'
  BY <1>1, <1>2, <1>4, <1>6, <1>8 DEF PromiseKnown
<1>11. FilesKnown'
  <2>1. Depth \in dirs'
    BY <1>1, <1>2 DEF FilesKnown
  <2>2. ASSUME NEW f \in Names
        PROVE  /\ files'[f] \in {"none", "whole"}
               /\ synced'.files[f] \in {"none", "whole"}
    BY <1>1, <1>2, <1>4 DEF FilesKnown
  <2>3. QED
    BY <2>1, <2>2 DEF FilesKnown
<1>12. /\ synced' \in Stable /\ synced'.dirs = synced.dirs
       /\ \A q \in Recoverers \ {p} : synced'.files[q] = synced.files[q]
       /\ \A q \in Recoverers \ {p} : files'[q] = files[q]
  BY <1>1, <1>2, <1>4, TypeFacts, Constants
<1>13. QED
  BY <1>1, <1>2, <1>4, <1>5, <1>6, <1>7, <1>9, <1>10, <1>11, <1>12, FileStep

\* The record is promised.
LEMMA SyncFileStep ==
  ASSUME PublicationInv, NEW p \in Recoverers, SyncFile(p), chain' = chain
  PROVE  PublicationInv'
<1>1. /\ p \in Procs /\ p \notin Dumpers /\ TypeOK
      /\ chain \in [Dumpers -> Chains]
      /\ FilesKnown /\ StepKnown(p) /\ p \in Names
  BY Constants, Parts
<1>2. /\ pc[p] = "syncFile" /\ SynchronizeFiles(p)
      /\ promised' = [promised EXCEPT ![p] = "present"]
      /\ pc' = [pc EXCEPT ![p] = "idle"] /\ stack' = stack
      /\ UNCHANGED <<dirs, open, marks, files, temp, maker, foreign>>
  BY DEF SyncFile, Doing, Then
<1>3. /\ synced' \in Stable /\ synced'.dirs = synced.dirs
      /\ synced'.files[p] = files[p]
      /\ \A f \in Names \ {p} : synced'.files[f] = synced.files[f]
  BY <1>1, <1>2, SyncFilesFacts
<1>4. /\ promised' \in [Recoverers -> Promises] /\ promised'[p] = "present"
      /\ \A q \in Recoverers \ {p} : promised'[q] = promised[q]
  BY <1>1, <1>2, TypeFacts DEF Promises
<1>5. /\ pc' \in [Procs -> Steps] /\ Others(p) /\ pc'[p] = "idle"
  BY <1>1, <1>2, Goes DEF Steps
<1>6. Published(Depth) <=> Published(Depth)'
  BY <1>2, <1>3 DEF Published
<1>7. StepKnown(p)'
  BY <1>5 DEF StepKnown
<1>8. PromiseKnown(p)'
  BY <1>1, <1>2, <1>3, <1>4, <1>6 DEF PromiseKnown, StepKnown
<1>9. FilesKnown'
  <2>1. ASSUME NEW f \in Names
        PROVE  /\ files'[f] \in {"none", "whole"}
               /\ synced'.files[f] \in {"none", "whole"}
    BY <1>1, <1>2, <1>3 DEF FilesKnown
  <2>2. QED
    BY <2>1, <1>1, <1>2 DEF FilesKnown
<1>10. QED
  BY <1>1, <1>2, <1>3, <1>4, <1>5, <1>7, <1>8, <1>9, FileStep, TypeFacts,
     Constants

\* The record is removed,
LEMMA UnlinkStep ==
  ASSUME PublicationInv, NEW p \in Recoverers, Unlink(p), chain' = chain
  PROVE  PublicationInv'
<1>1. /\ p \in Procs /\ p \notin Dumpers /\ TypeOK
      /\ chain \in [Dumpers -> Chains]
      /\ FilesKnown /\ p \in Names
  BY Constants, Parts
<1>2. /\ pc[p] = "idle" /\ Depth \in dirs
      /\ files' = [files EXCEPT ![p] = "none"]
      /\ promised' = [promised EXCEPT ![p] = "unknown"]
      /\ pc' = [pc EXCEPT ![p] = "syncGone"] /\ stack' = stack
      /\ UNCHANGED <<dirs, open, marks, synced, temp, maker, foreign>>
  BY DEF Unlink, Doing, Then
<1>3. /\ files' \in [Names -> Contents] /\ files'[p] = "none"
      /\ \A f \in Names \ {p} : files'[f] = files[f]
  BY <1>1, <1>2, TypeFacts DEF Contents
<1>4. /\ promised' \in [Recoverers -> Promises] /\ promised'[p] = "unknown"
      /\ \A q \in Recoverers \ {p} : promised'[q] = promised[q]
  BY <1>1, <1>2, TypeFacts DEF Promises
<1>5. /\ pc' \in [Procs -> Steps] /\ Others(p) /\ pc'[p] = "syncGone"
  BY <1>1, <1>2, Goes DEF Steps
<1>6. StepKnown(p)' /\ PromiseKnown(p)'
  BY <1>3, <1>4, <1>5 DEF StepKnown, PromiseKnown
<1>7. FilesKnown'
  <2>1. ASSUME NEW f \in Names
        PROVE  /\ files'[f] \in {"none", "whole"}
               /\ synced'.files[f] \in {"none", "whole"}
    BY <1>1, <1>2, <1>3 DEF FilesKnown
  <2>2. QED
    BY <2>1, <1>1, <1>2 DEF FilesKnown
<1>8. QED
  BY <1>1, <1>2, <1>3, <1>4, <1>5, <1>6, <1>7, FileStep, TypeFacts, Constants

\* and promised to be gone.
LEMMA SyncGoneStep ==
  ASSUME PublicationInv, NEW p \in Recoverers, SyncGone(p), chain' = chain
  PROVE  PublicationInv'
<1>1. /\ p \in Procs /\ p \notin Dumpers /\ TypeOK
      /\ chain \in [Dumpers -> Chains]
      /\ FilesKnown /\ StepKnown(p) /\ p \in Names
  BY Constants, Parts
<1>2. /\ pc[p] = "syncGone" /\ SynchronizeFiles(p)
      /\ promised' = [promised EXCEPT ![p] = "absent"]
      /\ pc' = [pc EXCEPT ![p] = "idle"] /\ stack' = stack
      /\ UNCHANGED <<dirs, open, marks, files, temp, maker, foreign>>
  BY DEF SyncGone, Doing, Then
<1>3. /\ synced' \in Stable /\ synced'.dirs = synced.dirs
      /\ synced'.files[p] = files[p]
      /\ \A f \in Names \ {p} : synced'.files[f] = synced.files[f]
  BY <1>1, <1>2, SyncFilesFacts
<1>4. /\ promised' \in [Recoverers -> Promises] /\ promised'[p] = "absent"
      /\ \A q \in Recoverers \ {p} : promised'[q] = promised[q]
  BY <1>1, <1>2, TypeFacts DEF Promises
<1>5. /\ pc' \in [Procs -> Steps] /\ Others(p) /\ pc'[p] = "idle"
  BY <1>1, <1>2, Goes DEF Steps
<1>6. StepKnown(p)' /\ PromiseKnown(p)'
  BY <1>1, <1>2, <1>3, <1>4, <1>5 DEF StepKnown, PromiseKnown
<1>7. FilesKnown'
  <2>1. ASSUME NEW f \in Names
        PROVE  /\ files'[f] \in {"none", "whole"}
               /\ synced'.files[f] \in {"none", "whole"}
    BY <1>1, <1>2, <1>3 DEF FilesKnown
  <2>2. QED
    BY <2>1, <1>1, <1>2 DEF FilesKnown
<1>8. QED
  BY <1>1, <1>2, <1>3, <1>4, <1>5, <1>6, <1>7, FileStep, TypeFacts, Constants

\* Every step of a process that records an intent.
LEMMA RecoveryStep ==
  ASSUME PublicationInv, NEW p \in Recoverers, Recovery(p) \/ Stops(p), chain' = chain
  PROVE  PublicationInv'
<1>1. CASE EnsureBase(p)
  BY <1>1, BeginStep, LookDeniedStep, LookStep, OpensStep, MarkStep,
     MkdirStep, PublishStep, UnmarkStep, EraseStep
     DEF EnsureBase
<1>2. CASE Record(p)
  BY <1>2, OwnMkdirStep, OwnAccessStep, OwnSyncStep, WriteStep, ReplaceStep,
     SyncFileStep, UnlinkStep, SyncGoneStep
     DEF Record
<1>3. CASE Stops(p)
  BY <1>3, Aborts, Kills DEF Stops, Fails
<1>4. QED
  BY <1>1, <1>2, <1>3 DEF Recovery

-----------------------------------------------------------------------------
(* The dumpers                                                             *)

\* What the invariant says of a dumper.
LEMMA DumperParts ==
  ASSUME PublicationInv, NEW d \in Dumpers
  PROVE  /\ d \in Procs /\ d \notin Recoverers /\ File(d) = NoOne
         /\ DumpKnown(d) /\ CallKnown(d) /\ pc[d] # "base"
         /\ chain[d].todo \in SUBSET Levels
         /\ chain[d].created \in SUBSET Levels
         /\ chain[d].created \subseteq dirs
         /\ \A l \in chain[d].created : maker[l] = d
<1>1. d \in Procs /\ d \notin Recoverers /\ File(d) = NoOne
  BY Constants
<1>2. DumpKnown(d) /\ CallKnown(d) /\ chain \in [Dumpers -> Chains]
  BY <1>1, Parts
<1>3. pc[d] # "base" /\ chain[d].created \subseteq dirs
      /\ \A l \in chain[d].created : maker[l] = d
  BY <1>2 DEF DumpKnown
<1>4. chain[d].todo \in SUBSET Levels /\ chain[d].created \in SUBSET Levels
  BY <1>2 DEF Chains
<1>5. QED
  BY <1>1, <1>2, <1>3, <1>4

\* What a chain becomes.
LEMMA ChainWith ==
  ASSUME PublicationInv, NEW d \in Dumpers,
         NEW todo \in SUBSET Levels, NEW created \in SUBSET Levels,
         NEW c, c = [todo |-> todo, created |-> created],
         chain' = [chain EXCEPT ![d] = c]
  PROVE  /\ chain' \in [Dumpers -> Chains]
         /\ \A e \in Dumpers \ {d} : chain'[e] = chain[e]
         /\ chain'[d].created = created
<1>1. chain \in [Dumpers -> Chains]
  BY Parts
<1>2. c \in Chains /\ c.created = created
  BY DEF Chains
<1>3. chain' \in [Dumpers -> Chains] /\ chain'[d] = c
      /\ \A e \in Dumpers \ {d} : chain'[e] = chain[e]
  <2>1. chain' = [chain EXCEPT ![d] = c]
    OBVIOUS
  <2>2. QED
    BY <2>1, <1>1, <1>2
<1>4. QED
  BY <1>2, <1>3

\* A dumper goes to its cleanup, or is done.
LEMMA CleansUp ==
  ASSUME PublicationInv, NEW d \in Dumpers, CleanUp(d)
  PROVE  /\ stack' \in [Procs -> Seq(Frame)] /\ pc' \in [Procs -> Steps]
         /\ Others(d) /\ CallKnown(d)' /\ pc'[d] \in {"idle", "cleanup"}
         /\ stack' = stack
         /\ chain' \in [Dumpers -> Chains]
         /\ \A e \in Dumpers \ {d} : chain'[e] = chain[e]
         /\ chain'[d].created = chain[d].created
<1>1. d \in Procs /\ pc[d] # "base" /\ chain \in [Dumpers -> Chains]
  BY DumperParts, Parts
<1>2. PICK step \in {"idle", "cleanup"} : pc' = [pc EXCEPT ![d] = step] /\ stack' = stack
  BY DEF CleanUp, GoOn
<1>3. /\ stack' \in [Procs -> Seq(Frame)] /\ pc' \in [Procs -> Steps]
      /\ Others(d) /\ CallKnown(d)' /\ pc'[d] = step
  BY <1>1, <1>2, Goes DEF Steps
<1>4. chain' = [chain EXCEPT ![d].todo = {}]
  BY DEF CleanUp
<1>5. /\ chain' \in [Dumpers -> Chains]
      /\ \A e \in Dumpers \ {d} : chain'[e] = chain[e]
      /\ chain'[d].created = chain[d].created
  BY <1>1, <1>4 DEF Chains
<1>6. QED
  BY <1>2, <1>3, <1>5

\* The missing components are noted.
LEMMA ScanStep ==
  ASSUME PublicationInv, NEW d \in Dumpers, Scan(d)
  PROVE  PublicationInv'
<1>1. d \in Procs /\ d \notin Recoverers /\ pc[d] # "base" /\ TypeOK
  BY DumperParts, Parts
<1>2. /\ pc' = [pc EXCEPT ![d] = "dumpMkdir"] /\ stack' = stack
      /\ chain' = [chain EXCEPT ![d] = [todo |-> Levels \ dirs, created |-> {}]]
      /\ temp' = [temp EXCEPT ![d] = "none"] /\ UNCHANGED <<disk, history>>
  BY DEF Scan, GoOn
<1>3. /\ stack' \in [Procs -> Seq(Frame)] /\ pc' \in [Procs -> Steps]
      /\ Others(d) /\ CallKnown(d)' /\ pc'[d] = "dumpMkdir"
  BY <1>1, <1>2, Goes DEF Steps
<1>4. /\ chain' \in [Dumpers -> Chains]
      /\ \A e \in Dumpers \ {d} : chain'[e] = chain[e]
      /\ chain'[d].created = {}
  <2>1. Levels \ dirs \in SUBSET Levels /\ {} \in SUBSET Levels
    OBVIOUS
  <2>2. PICK c : c = [todo |-> Levels \ dirs, created |-> {}]
    OBVIOUS
  <2>3. chain' = [chain EXCEPT ![d] = c]
    BY <2>2, <1>2
  <2>4. QED
    BY <2>1, <2>2, <2>3, ChainWith
<1>5. /\ temp' \in [Procs -> Temps] /\ temp'[d] = "none"
      /\ \A q \in Procs \ {d} : temp'[q] = temp[q]
  BY <1>1, <1>2, TypeFacts DEF Temps
<1>6. DumpKnown(d)'
  BY <1>3, <1>4 DEF DumpKnown
<1>7. QED
  BY <1>1, <1>2, <1>3, <1>4, <1>5, <1>6, QuietStep

\* A component is made, or was made by somebody else meanwhile.
LEMMA ComponentStep ==
  ASSUME PublicationInv, NEW d \in Dumpers, Component(d)
  PROVE  PublicationInv'
<1>1. /\ d \in Procs /\ d \notin Recoverers /\ TypeOK /\ TreeKnown
      /\ UnpublishedIsMarked /\ DumpKnown(d) /\ CallKnown(d)
      /\ chain[d].todo \in SUBSET Levels /\ chain[d].created \in SUBSET Levels
      /\ chain[d].created \subseteq dirs
      /\ \A k \in chain[d].created : maker[k] = d
  BY DumperParts, Parts
<1>2. PICK l \in chain[d].todo :
        /\ Reachable(l) /\ dirs' = dirs \cup {l}
        /\ open' = IF l \in dirs \/ d \in Strict THEN open ELSE open \cup {l}
        /\ maker' = IF l \in dirs THEN maker ELSE [maker EXCEPT ![l] = d]
        /\ foreign' = foreign \cup ({l} \ (dirs \cup {Depth}))
        /\ chain' = [chain EXCEPT ![d] = [todo |-> @.todo \ {l},
                                          created |-> @.created \cup ({l} \ dirs)]]
  BY DEF Component
<1>3. /\ pc[d] = "dumpMkdir"
      /\ UNCHANGED <<marks, files, synced, stack, pc, temp, promised>>
  BY DEF Component, Doing
<1>4. l \in Levels
  BY <1>1
<1>5. /\ dirs' \subseteq Levels /\ dirs \subseteq dirs'
      /\ open' \subseteq dirs'
      /\ maker' \in [Levels -> Marks] /\ \A k \in dirs : maker'[k] = maker[k]
      /\ synced'.dirs \subseteq dirs'
      /\ foreign' \subseteq Levels /\ foreign \subseteq foreign'
  BY <1>1, <1>2, <1>3, <1>4, TypeFacts DEF Marks
<1>6. Grows
  BY <1>2, <1>3 DEF Grows
<1>7. /\ chain' \in [Dumpers -> Chains]
      /\ \A e \in Dumpers \ {d} : chain'[e] = chain[e]
      /\ chain'[d].created = chain[d].created \cup ({l} \ dirs)
  <2>1. PICK c : c = [todo |-> chain[d].todo \ {l},
                      created |-> chain[d].created \cup ({l} \ dirs)]
    OBVIOUS
  <2>2. chain' = [chain EXCEPT ![d] = c]
    BY <2>1, <1>2
  <2>3. /\ chain[d].todo \ {l} \in SUBSET Levels
        /\ chain[d].created \cup ({l} \ dirs) \in SUBSET Levels
    BY <1>1, <1>4
  <2>4. QED
    BY <2>1, <2>2, <2>3, ChainWith
<1>8. /\ stack' \in [Procs -> Seq(Frame)] /\ pc' \in [Procs -> Steps]
      /\ Others(d)
  BY <1>1, <1>3, TypeFacts DEF Others
<1>9. CallKnown(d)'
  <2>1. stack[d] = <<>>
    BY <1>1, <1>3 DEF CallKnown
  <2>2. QED
    BY <2>1, <1>3, EmptySeq DEF CallKnown
<1>10. DumpKnown(d)'
  <2>1. ASSUME NEW k \in chain'[d].created
        PROVE  k \in dirs' /\ maker'[k] = d
    <3>1. CASE k \in chain[d].created
      BY <3>1, <1>1, <1>5
    <3>2. CASE k = l /\ l \notin dirs
      BY <3>2, <1>2, <1>4, <1>1, TypeFacts
    <3>3. QED
      BY <3>1, <3>2, <2>1, <1>7
  <2>2. QED
    BY <2>1, <1>3 DEF DumpKnown
<1>11. TreeKnown'
  <2>1. l \in dirs \/ (l <= Base => Published(l - 1)')
    <3>1. ASSUME l \notin dirs, l <= Base
          PROVE  Published(l - 1)'
      <4>1. l \in foreign' /\ l \in Nat
        BY <3>1, <1>2, <1>4, Constants
      <4>2. \A k \in 1..(l - 1) : k <= l
        BY <4>1
      <4>3. QED
        BY <4>1, <4>2 DEF Published
    <3>2. QED
      BY <3>1
  <2>2. QED
    BY <2>1, <1>1, <1>2, <1>4, <1>6, Deeper
<1>12. UnpublishedIsMarked'
  <2>1. Depth \notin 1..Base
    BY Constants
  <2>2. QED
    BY <2>1, <1>1, <1>2, <1>3 DEF UnpublishedIsMarked
<1>13. \A k \in 1..Base : marks[k] # NoOne => marks'[k] # NoOne
  BY <1>3
<1>14. QED
  BY <1>1, <1>3, <1>5, <1>7, <1>8, <1>9, <1>10, <1>11, <1>12, <1>13, TreeStep,
     TypeFacts

\* Access to what it created.
LEMMA ChmodStep ==
  ASSUME PublicationInv, NEW d \in Dumpers, Chmod(d)
  PROVE  PublicationInv'
<1>1. /\ d \in Procs /\ d \notin Recoverers /\ pc[d] # "base" /\ TypeOK
      /\ TreeKnown
      /\ UnpublishedIsMarked /\ DumpKnown(d) /\ chain \in [Dumpers -> Chains]
  BY DumperParts, Parts
<1>2. /\ chain[d].created \subseteq dirs /\ open' = open \cup chain[d].created
      /\ pc' = [pc EXCEPT ![d] = "dumpWrite"] /\ stack' = stack
      /\ UNCHANGED <<dirs, marks, files, synced, temp, promised, maker, foreign, chain>>
  BY DEF Chmod, GoOn, history
<1>3. /\ stack' \in [Procs -> Seq(Frame)] /\ pc' \in [Procs -> Steps]
      /\ Others(d) /\ CallKnown(d)' /\ pc'[d] = "dumpWrite"
  BY <1>1, <1>2, Goes DEF Steps
<1>4. Grows /\ open' \subseteq dirs'
  BY <1>1, <1>2, TypeFacts DEF Grows
<1>5. DumpKnown(d)'
  BY <1>1, <1>2, <1>3 DEF DumpKnown
<1>6. UnpublishedIsMarked' /\ TreeKnown'
  BY <1>1, <1>2, <1>4, NoDeeper DEF UnpublishedIsMarked
<1>7. QED
  BY <1>1, <1>2, <1>3, <1>4, <1>5, <1>6, TreeStep, TypeFacts

\* The dump is written and flushed beside its target.
LEMMA DumpWriteStep ==
  ASSUME PublicationInv, NEW d \in Dumpers, DumpWrite(d)
  PROVE  PublicationInv'
<1>1. /\ d \in Procs /\ d \notin Recoverers /\ pc[d] # "base" /\ TypeOK
      /\ DumpKnown(d) /\ chain \in [Dumpers -> Chains]
  BY DumperParts, Parts
<1>2. /\ Depth \in dirs /\ temp' = [temp EXCEPT ![d] = "flushed"]
      /\ pc' = [pc EXCEPT ![d] = "dumpReplace"] /\ stack' = stack
      /\ UNCHANGED <<disk, history, chain>>
  BY DEF DumpWrite, GoOn
<1>3. /\ stack' \in [Procs -> Seq(Frame)] /\ pc' \in [Procs -> Steps]
      /\ Others(d) /\ CallKnown(d)' /\ pc'[d] = "dumpReplace"
  BY <1>1, <1>2, Goes DEF Steps
<1>4. /\ temp' \in [Procs -> Temps] /\ temp'[d] = "flushed"
      /\ \A q \in Procs \ {d} : temp'[q] = temp[q]
  BY <1>1, <1>2, TypeFacts DEF Temps
<1>5. DumpKnown(d)'
  BY <1>1, <1>2, <1>3, <1>4 DEF DumpKnown, disk, history
<1>6. QED
  BY <1>1, <1>2, <1>3, <1>4, <1>5, QuietStep

\* The dump is under its name.
LEMMA DumpReplaceStep ==
  ASSUME PublicationInv, NEW d \in Dumpers, DumpReplace(d)
  PROVE  PublicationInv'
<1>1. /\ d \in Procs /\ d \notin Recoverers /\ pc[d] # "base" /\ TypeOK
      /\ File(d) = NoOne
      /\ DumpKnown(d) /\ chain \in [Dumpers -> Chains] /\ FilesKnown
      /\ NoOne \in Names /\ NoOne \notin Recoverers
  BY DumperParts, Parts, Constants
<1>2. /\ temp[d] = "flushed" /\ temp' = [temp EXCEPT ![d] = "none"]
      /\ UNCHANGED <<dirs, open, marks, synced, promised, maker, foreign>>
  BY <1>1 DEF DumpReplace, Doing, DumpKnown, Renamed, history
<1>3. files' = [files EXCEPT ![NoOne] = "whole"]
  BY <1>1, <1>2 DEF DumpReplace, Renamed
<1>4. /\ files' \in [Names -> Contents] /\ files'[NoOne] = "whole"
      /\ \A f \in Names \ {NoOne} : files'[f] = files[f]
  BY <1>1, <1>3, TypeFacts DEF Contents
<1>5. /\ temp' \in [Procs -> Temps] /\ temp'[d] = "none"
      /\ \A q \in Procs \ {d} : temp'[q] = temp[q]
  BY <1>1, <1>2, TypeFacts DEF Temps
<1>6. /\ pc' \in [Procs -> Steps] /\ Others(d) /\ stack' = stack
      /\ pc'[d] \in {"idle", "cleanup"}
      /\ chain' \in [Dumpers -> Chains]
      /\ \A e \in Dumpers \ {d} : chain'[e] = chain[e]
      /\ chain'[d].created \subseteq chain[d].created
  <2>1. CASE CleanUp(d)
    BY <2>1, CleansUp
  <2>2. CASE GoOn(d, "idle") /\ chain' = [chain EXCEPT ![d] = NoChain]
    <3>1. pc' = [pc EXCEPT ![d] = "idle"] /\ stack' = stack
      BY <2>2 DEF GoOn
    <3>2. pc' \in [Procs -> Steps] /\ Others(d) /\ pc'[d] = "idle"
      BY <3>1, <1>1, Goes DEF Steps
    <3>3. /\ chain' \in [Dumpers -> Chains]
          /\ \A e \in Dumpers \ {d} : chain'[e] = chain[e]
          /\ chain'[d].created = {}
      <4>1. {} \in SUBSET Levels
        OBVIOUS
      <4>2. PICK c : c = [todo |-> {}, created |-> {}]
        OBVIOUS
      <4>3. chain' = [chain EXCEPT ![d] = c]
        BY <4>2, <2>2 DEF NoChain
      <4>4. QED
        BY <4>1, <4>2, <4>3, ChainWith
    <3>4. QED
      BY <3>1, <3>2, <3>3
  <2>3. QED
    BY <2>1, <2>2 DEF DumpReplace
<1>7. DumpKnown(d)'
  BY <1>1, <1>2, <1>6 DEF DumpKnown
<1>8. FilesKnown'
  <2>1. Depth \in dirs'
    BY <1>1, <1>2 DEF FilesKnown
  <2>2. ASSUME NEW f \in Names
        PROVE  /\ files'[f] \in {"none", "whole"}
               /\ synced'.files[f] \in {"none", "whole"}
    BY <1>1, <1>2, <1>4 DEF FilesKnown
  <2>3. QED
    BY <2>1, <2>2 DEF FilesKnown
<1>9. /\ synced' \in Stable /\ synced'.dirs = synced.dirs
      /\ promised' \in [Recoverers -> Promises]
      /\ \A q \in Recoverers : files'[q] = files[q]
  BY <1>1, <1>2, <1>4, TypeFacts, Constants
<1>10. pc'[d] # "base"
  BY <1>6
<1>11. QED
  BY <1>1, <1>2, <1>4, <1>5, <1>6, <1>7, <1>8, <1>9, <1>10, FileStep

\* An error leads to the cleanup.
LEMMA DumpFailsStep ==
  ASSUME PublicationInv, NEW d \in Dumpers, DumpFails(d)
  PROVE  PublicationInv'
<1>1. d \in Procs /\ d \notin Recoverers /\ TypeOK /\ DumpKnown(d)
  BY DumperParts, Parts
<1>2. temp' = [temp EXCEPT ![d] = "none"] /\ UNCHANGED <<disk, history>>
  BY DEF DumpFails
<1>3. /\ stack' \in [Procs -> Seq(Frame)] /\ pc' \in [Procs -> Steps]
      /\ Others(d) /\ CallKnown(d)' /\ pc'[d] \in {"idle", "cleanup"}
      /\ chain' \in [Dumpers -> Chains]
      /\ \A e \in Dumpers \ {d} : chain'[e] = chain[e]
      /\ chain'[d].created = chain[d].created
  BY CleansUp DEF DumpFails
<1>4. /\ temp' \in [Procs -> Temps] /\ temp'[d] = "none"
      /\ \A q \in Procs \ {d} : temp'[q] = temp[q]
  BY <1>1, <1>2, TypeFacts DEF Temps
<1>5. DumpKnown(d)'
  BY <1>1, <1>2, <1>3 DEF DumpKnown, disk, history
<1>6. QED
  BY <1>1, <1>2, <1>3, <1>4, <1>5, QuietStep

\* A killed dump cleans up nothing.
LEMMA DumpKilledStep ==
  ASSUME PublicationInv, NEW d \in Dumpers, DumpKilled(d)
  PROVE  PublicationInv'
<1>1. /\ d \in Procs /\ d \notin Recoverers /\ pc[d] # "base" /\ TypeOK
      /\ FilesKnown
  BY DumperParts, Parts
<1>2. /\ pc' = [pc EXCEPT ![d] = "idle"] /\ stack' = stack /\ temp' = temp
      /\ chain' = [chain EXCEPT ![d] = [todo |-> {}, created |-> {}]]
      /\ UNCHANGED <<disk, history>>
  BY DEF DumpKilled, GoOn, NoChain
<1>3. /\ stack' \in [Procs -> Seq(Frame)] /\ pc' \in [Procs -> Steps]
      /\ Others(d) /\ CallKnown(d)' /\ pc'[d] = "idle"
  BY <1>1, <1>2, Goes DEF Steps
<1>4. /\ chain' \in [Dumpers -> Chains]
      /\ \A e \in Dumpers \ {d} : chain'[e] = chain[e]
      /\ chain'[d].created = {}
  <2>1. {} \in SUBSET Levels
    OBVIOUS
  <2>2. PICK c : c = [todo |-> {}, created |-> {}]
    OBVIOUS
  <2>3. chain' = [chain EXCEPT ![d] = c]
    BY <2>2, <1>2
  <2>4. QED
    BY <2>1, <2>2, <2>3, ChainWith
<1>5. temp'[d] # "none" => Depth \in dirs
  BY <1>1, <1>2 DEF FilesKnown
<1>6. DumpKnown(d)'
  BY <1>3, <1>4 DEF DumpKnown
<1>7. QED
  BY <1>1, <1>2, <1>3, <1>4, <1>5, <1>6, QuietStep, TypeFacts

\* Nothing is in what rmdir removes, and it is nobody else's.
LEMMA RemovedKeeps ==
  ASSUME PublicationInv, NEW d \in Dumpers,
         NEW l \in chain[d].created, Empty(l), Removed(l),
         UNCHANGED <<marks, files, temp, promised, stack>>,
         pc' \in [Procs -> Steps], Others(d), CallKnown(d)', DumpKnown(d)',
         chain' \in [Dumpers -> Chains],
         \A e \in Dumpers \ {d} : chain'[e] = chain[e]
  PROVE  PublicationInv'
<1>1. /\ d \in Procs /\ d \notin Recoverers /\ TypeOK /\ TreeKnown
      /\ FilesKnown
      /\ UnpublishedIsMarked /\ DumpsKnown /\ l \in Levels /\ l \in dirs
      /\ maker[l] = d
  BY DumperParts, Parts
<1>2. /\ dirs' = dirs \ {l} /\ open' = open \ {l}
      /\ foreign' = foreign \cup {l}
      /\ maker' = [maker EXCEPT ![l] = NoOne]
  BY DEF Removed
<1>3. /\ synced' \in Stable /\ synced'.dirs = synced.dirs \ {l}
      /\ \A f \in Names : synced'.files[f] = "none"
  <2> DEFINE left == [k \in Levels |-> IF k > l THEN NoOne ELSE synced.marks[k]]
             none == [f \in Names |-> "none"]
  <2>1. synced \in Stable /\ synced.marks \in [Levels -> Marks]
    BY <1>1, TypeFacts
  <2>2. synced' = [dirs |-> synced.dirs \ {l}, marks |-> left, files |-> none]
    BY <2>1 DEF Removed, Stable
  <2>3. left \in [Levels -> Marks] /\ none \in [Names -> Contents]
    BY <2>1 DEF Marks, Contents
  <2>4. synced.dirs \ {l} \in SUBSET Levels
    BY <2>1 DEF Stable
  <2>5. synced' \in Stable
    BY <2>2, <2>3, <2>4 DEF Stable, Marks
  <2>6. QED
    BY <2>2, <2>5
<1>4. (\A f \in Names : files[f] = "none") /\ (\A p \in Procs : temp[p] = "none")
  <2>1. CASE l = Depth
    BY <2>1 DEF Empty
  <2>2. CASE l # Depth
    <3>1. Depth \notin dirs
      <4>1. \A k \in dirs : k <= l
        BY DEF Empty
      <4>2. ~(Depth <= l)
        BY <2>2, <1>1, Constants DEF Levels
      <4>3. QED
        BY <4>1, <4>2
    <3>2. QED
      BY <3>1, <1>1 DEF FilesKnown
  <2>3. QED
    BY <2>1, <2>2
<1>5. /\ dirs' \subseteq Levels /\ open' \subseteq dirs'
      /\ foreign' \subseteq Levels
      /\ maker' \in [Levels -> Marks] /\ synced'.dirs \subseteq dirs'
      /\ \A k \in Levels \ {l} : maker'[k] = maker[k]
  BY <1>1, <1>2, <1>3, TypeFacts DEF Marks
<1>6. TypeOK'
  BY <1>1, <1>3, <1>5, TypeFacts DEF TypeOK, Marks
<1>7. Grows
  BY <1>2, <1>3 DEF Grows
<1>8. Private(d)
  <2>1. ASSUME NEW e \in Dumpers \ {d}, NEW k \in chain[e].created
        PROVE  k \in dirs' /\ maker'[k] = maker[k]
    <3>1. k \in dirs /\ maker[k] = e
      BY <2>1, <1>1 DEF DumpsKnown, DumpKnown
    <3>2. k # l
      BY <3>1, <1>1
    <3>3. k \in Levels
      BY <3>1, <1>1, TypeFacts
    <3>4. QED
      BY <3>1, <3>2, <3>3, <1>2, <1>5
  <2>2. \A q \in Recoverers : synced'.files[q] = "none" /\ files[q] = "none"
    BY <1>3, <1>4, Constants
  <2>3. QED
    BY <2>1, <2>2 DEF Private, Others
<1>9. UnpublishedIsMarked'
  BY <1>1, <1>2, <1>3 DEF UnpublishedIsMarked
<1>10. TreeKnown'
  <2>1. ASSUME NEW m \in dirs', NEW k \in 1..m
        PROVE  k \in dirs'
    <3>1. m \in dirs /\ m # l /\ m <= l /\ m \in Nat /\ l \in Nat
      BY <1>1, <1>2, TypeFacts, Constants DEF Empty
    <3>2. k \in dirs /\ k # l
      BY <3>1, <1>1 DEF TreeKnown
    <3>3. QED
      BY <3>2, <1>2
  <2>2. ASSUME NEW m \in dirs', m <= Base
        PROVE  Published(m - 1)'
    <3>1. m \in dirs /\ m - 1 \in Int
      BY <1>1, <1>2, TypeFacts, Constants
    <3>2. Published(m - 1)
      BY <3>1, <2>2, <1>1 DEF TreeKnown
    <3>3. QED
      BY <3>1, <3>2, <1>1, <1>7, PublishedStays
  <2>3. QED
    BY <2>1, <2>2 DEF TreeKnown
<1>11. FilesKnown'
  BY <1>3, <1>4 DEF FilesKnown
<1>12. QED
  BY <1>1, <1>6, <1>7, <1>8, <1>9, <1>10, <1>11, StepKeeps

\* The cleanup takes the deepest it has made, or passes it over.
LEMMA RmdirStep ==
  ASSUME PublicationInv, NEW d \in Dumpers, Rmdir(d)
  PROVE  PublicationInv'
<1>1. /\ d \in Procs /\ d \notin Recoverers /\ pc[d] # "base" /\ TypeOK
      /\ FilesKnown
      /\ DumpKnown(d) /\ chain \in [Dumpers -> Chains]
      /\ chain[d].created \in SUBSET Levels /\ chain[d].created \subseteq dirs
      /\ \A k \in chain[d].created : maker[k] = d
  BY DumperParts, Parts
<1>2. PICK l \in chain[d].created :
        /\ chain' = [chain EXCEPT ![d].created = @ \ {l}]
        /\ GoOn(d, IF chain[d].created = {l} THEN "idle" ELSE "cleanup")
        /\ IF l \in dirs /\ Reachable(l) /\ Empty(l)
           THEN Removed(l) ELSE UNCHANGED <<dirs, open, maker, foreign, synced>>
  BY DEF Rmdir
<1>3. UNCHANGED <<marks, files, temp, promised>>
  BY DEF Rmdir
<1>4. /\ chain' \in [Dumpers -> Chains]
      /\ \A e \in Dumpers \ {d} : chain'[e] = chain[e]
      /\ chain'[d].created = chain[d].created \ {l}
  BY <1>1, <1>2 DEF Chains
<1>5. PICK step \in {"idle", "cleanup"} : pc' = [pc EXCEPT ![d] = step] /\ stack' = stack
  BY <1>2 DEF GoOn
<1>6. /\ stack' \in [Procs -> Seq(Frame)] /\ pc' \in [Procs -> Steps]
      /\ Others(d) /\ CallKnown(d)' /\ pc'[d] = step
  BY <1>1, <1>5, Goes DEF Steps
<1>7. CASE Empty(l) /\ Removed(l)
  <2>1. /\ dirs' = dirs \ {l} /\ maker' = [maker EXCEPT ![l] = NoOne]
    BY <1>7 DEF Removed
  <2>2. ASSUME NEW k \in chain'[d].created
        PROVE  k \in dirs' /\ maker'[k] = d
    BY <2>1, <2>2, <1>1, <1>4, TypeFacts
  <2>3. DumpKnown(d)'
    BY <2>2, <1>6 DEF DumpKnown
  <2>4. QED
    BY <2>3, <1>3, <1>4, <1>5, <1>6, <1>7, RemovedKeeps
<1>8. CASE UNCHANGED <<dirs, open, maker, foreign, synced>>
  <2>1. DumpKnown(d)'
    BY <1>1, <1>4, <1>6, <1>8 DEF DumpKnown
  <2>2. UNCHANGED <<disk, history>>
    BY <1>3, <1>8 DEF disk, history
  <2>3. temp'[d] # "none" => Depth \in dirs
    BY <1>1, <1>3 DEF FilesKnown
  <2>4. /\ temp' \in [Procs -> Temps]
        /\ \A q \in Procs \ {d} : temp'[q] = temp[q]
    BY <1>1, <1>3, TypeFacts
  <2>5. QED
    BY <2>1, <2>2, <2>3, <2>4, <1>1, <1>4, <1>6, QuietStep
<1>9. QED
  BY <1>2, <1>7, <1>8

\* Every step of a dumper.
LEMMA DumpStep ==
  ASSUME PublicationInv, NEW d \in Dumpers, Dump(d) \/ DumpFails(d) \/ DumpKilled(d)
  PROVE  PublicationInv'
BY ScanStep, ComponentStep, ChmodStep, DumpWriteStep, DumpReplaceStep,
   RmdirStep, DumpFailsStep, DumpKilledStep
   DEF Dump

-----------------------------------------------------------------------------
(* The machine stops                                                       *)

\* What is left is what stable storage holds, and what was promised is there.
LEMMA MachineStopsStep ==
  ASSUME PublicationInv, MachineStops
  PROVE  PublicationInv'
<1>1. TypeOK /\ FilesKnown /\ PromisesKnown
  BY Parts
<1>2. PICK n \in 0..Depth :
        /\ 1..n \subseteq dirs /\ n + 1 \notin synced.dirs /\ dirs' = 1..n
        /\ promised' = IF \E l \in foreign : l > n
                       THEN [p \in Recoverers |-> "unknown"] ELSE promised
  BY DEF MachineStops, PowerLoss
<1>3. /\ open' = open \cap dirs' /\ foreign' = foreign \cap dirs'
      /\ maker' = [l \in Levels |-> IF l \in dirs' THEN maker[l] ELSE NoOne]
      /\ files' \in [Names -> {"none", "whole", "torn"}]
      /\ synced' = [dirs |-> dirs', marks |-> marks', files |-> files']
      /\ stack' = [p \in Procs |-> <<>>] /\ pc' = [p \in Procs |-> "idle"]
      /\ temp' = [p \in Procs |-> "none"]
      /\ chain' = [d \in Dumpers |-> NoChain]
  BY DEF MachineStops, PowerLoss
<1>4. \A f \in Names :
        files'[f] \in IF Depth \notin dirs' THEN {"none"}
                      ELSE UNION {IF c = "loose" THEN {"whole", "torn"} ELSE {c} :
                                    c \in {files[f], synced.files[f]}}
  BY DEF MachineStops, PowerLoss
<1>5. marks' \in [Levels -> Marks]
  <2>1. PICK kept :
          marks' = [l \in Levels |-> IF l - 1 \notin dirs' \cup {0} THEN NoOne
                                    ELSE IF l \in kept THEN marks[l] ELSE synced.marks[l]]
    BY DEF MachineStops, PowerLoss
  <2>2. /\ marks \in [Levels -> Marks] /\ synced.marks \in [Levels -> Marks]
        /\ NoOne \in Marks
    BY <1>1, TypeFacts DEF Marks
  <2>3. QED
    BY <2>1, <2>2
<1>6. /\ synced'.dirs = dirs' /\ synced'.files = files'
      /\ \A p \in Procs : stack'[p] = <<>> /\ pc'[p] = "idle" /\ temp'[p] = "none"
  BY <1>3
<1>7. ASSUME NEW f \in Names
      PROVE  /\ files'[f] \in {"none", "whole"}
             /\ files'[f] # "none" => Depth \in dirs'
             /\ (files[f] = "none" /\ synced.files[f] = "none")
                  => files'[f] = "none"
             /\ (files[f] = "whole" /\ synced.files[f] = "whole" /\ Depth \in dirs')
                  => files'[f] = "whole"
  <2>1. /\ files[f] \in {"none", "whole"}
        /\ synced.files[f] \in {"none", "whole"}
    BY <1>1 DEF FilesKnown
  <2>2. CASE Depth \notin dirs'
    BY <2>2, <1>4
  <2>3. CASE Depth \in dirs'
    <3>1. files'[f] \in UNION {IF c = "loose" THEN {"whole", "torn"} ELSE {c} :
                                 c \in {files[f], synced.files[f]}}
      BY <2>3, <1>4
    <3>2. PICK c \in {files[f], synced.files[f]} :
            files'[f] \in IF c = "loose" THEN {"whole", "torn"} ELSE {c}
      BY <3>1
    <3>3. files'[f] = c
      BY <2>1, <3>2
    <3>4. QED
      BY <2>1, <2>3, <3>3
  <2>4. QED
    BY <2>2, <2>3
<1>8. dirs' \subseteq Levels /\ \A l \in dirs' : \A k \in 1..l : k \in dirs'
  BY <1>2, Constants DEF Levels
<1>9. TypeOK'
  <2>1. files' \in [Names -> Contents]
    BY <1>3 DEF Contents
  <2>2. synced' \in Stable
    BY <1>3, <1>5, <1>8, <2>1 DEF Stable, Marks
  <2>3. promised' \in [Recoverers -> Promises]
    BY <1>1, <1>2, TypeFacts DEF Promises
  <2>4. maker' \in [Levels -> Marks]
    BY <1>1, <1>3, TypeFacts DEF Marks
  <2>5. stack' \in [Procs -> Seq(Frame)]
    BY <1>3, EmptySeq
  <2>6. pc' \in [Procs -> Steps] /\ temp' \in [Procs -> Temps]
    BY <1>3 DEF Steps, Temps
  <2>7. open' \subseteq dirs' /\ foreign' \subseteq Levels
    BY <1>3, <1>8
  <2>8. QED
    BY <2>1, <2>2, <2>3, <2>4, <2>5, <2>6, <2>7, <1>5, <1>6, <1>8
    DEF TypeOK, Marks, Temps, Promises
<1>10. UnpublishedIsMarked' /\ TreeKnown'
  <2>1. ASSUME NEW l \in dirs'
        PROVE  Published(l - 1)'
    <3>1. \A k \in 1..(l - 1) : k \in 1..l
      BY <2>1, <1>2
    <3>2. QED
      BY <2>1, <3>1, <1>6, <1>8 DEF Published
  <2>2. QED
    BY <2>1, <1>6, <1>8 DEF UnpublishedIsMarked, TreeKnown
<1>11. CallsKnown' /\ RecordKnown'
  <2>1. ASSUME NEW p \in Procs
        PROVE  CallKnown(p)'
    BY <2>1, <1>6, EmptySeq DEF CallKnown
  <2>2. ASSUME NEW p \in Recoverers
        PROVE  StepKnown(p)'
    BY <2>2, <1>6, Constants DEF StepKnown
  <2>3. QED
    BY <2>1, <2>2 DEF CallsKnown, RecordKnown
<1>12. FilesKnown'
  BY <1>6, <1>7 DEF FilesKnown
<1>13. PromisesKnown'
  <2>1. ASSUME NEW p \in Recoverers
        PROVE  PromiseKnown(p)'
    <3>1. p \in Names
      BY Constants
    <3>2. promised'[p] \in {"present", "absent"} =>
            promised'[p] = promised[p] /\ \A m \in foreign : ~(m > n)
      BY <1>2
    <3>3. ASSUME promised'[p] = "present"
          PROVE  files'[p] = "whole" /\ Published(Depth)'
      <4>1. /\ files[p] = "whole" /\ synced.files[p] = "whole"
            /\ Published(Depth)
        BY <3>2, <3>3, <1>1 DEF PromisesKnown, PromiseKnown
      <4>2. n = Depth
        <5>1. SUFFICES ASSUME n # Depth
                       PROVE  FALSE
          OBVIOUS
        <5>2. n + 1 \in 1..Depth /\ Depth \in Nat /\ n \in Nat
          BY <5>1, Constants
        <5>3. PICK m \in foreign : n + 1 <= m
          BY <4>1, <5>2, <1>2 DEF Published
        <5>4. m \in Nat
          BY <1>1, TypeFacts, Constants
        <5>5. m > n
          BY <5>2, <5>3, <5>4
        <5>6. QED
          BY <5>5, <3>2, <3>3
      <4>3. dirs' = 1..Depth /\ Depth \in dirs'
        BY <4>2, <1>2, Constants
      <4>4. QED
        BY <4>1, <4>3, <3>1, <1>6, <1>7 DEF Published
    <3>4. ASSUME promised'[p] = "absent"
          PROVE  files'[p] = "none"
      BY <3>1, <3>2, <3>4, <1>1, <1>7 DEF PromisesKnown, PromiseKnown
    <3>5. QED
      BY <3>3, <3>4, <1>6 DEF PromiseKnown
  <2>2. QED
    BY <2>1 DEF PromisesKnown
<1>14. DumpsKnown'
  <2>1. NoChain \in Chains /\ NoChain.created = {}
    BY DEF NoChain, Chains
  <2>2. ASSUME NEW d \in Dumpers
        PROVE  DumpKnown(d)'
    BY <2>1, <2>2, <1>3, <1>6, Constants DEF DumpKnown
  <2>3. QED
    BY <2>1, <2>2, <1>3 DEF DumpsKnown
<1>15. QED
  BY <1>9, <1>10, <1>11, <1>12, <1>13, <1>14 DEF PublicationInv

-----------------------------------------------------------------------------
(* The theorems                                                            *)

\* Nothing is pending at first.
LEMMA Initially ==
  ASSUME DumpInit
  PROVE  PublicationInv
<1>1. PICK n \in 0..Base : dirs = 1..n
  BY DEF DumpInit, Init
<1>2. /\ open = dirs /\ marks = [l \in Levels |-> NoOne]
      /\ files = [f \in Names |-> "none"]
      /\ synced = [dirs |-> dirs, marks |-> marks, files |-> files]
      /\ stack = [p \in Procs |-> <<>>] /\ pc = [p \in Procs |-> "idle"]
      /\ temp = [p \in Procs |-> "none"]
      /\ promised = [p \in Recoverers |-> "unknown"]
      /\ maker = [l \in Levels |-> NoOne] /\ foreign = {}
      /\ chain = [d \in Dumpers |-> NoChain]
  BY DEF DumpInit, Init
<1>3. dirs \subseteq Levels /\ \A l \in dirs : \A k \in 1..l : k \in dirs
  BY <1>1, Constants DEF Levels
<1>4. synced.dirs = dirs /\ synced.files = files /\ synced \in Stable
  BY <1>2, <1>3 DEF Stable, Contents
<1>5. TypeOK
  BY <1>2, <1>3, <1>4, EmptySeq DEF TypeOK, Contents, Steps
<1>6. UnpublishedIsMarked /\ TreeKnown
  <2>1. ASSUME NEW l \in dirs
        PROVE  Published(l - 1)
    <3>1. \A k \in 1..(l - 1) : k \in 1..l
      BY <2>1, <1>1
    <3>2. QED
      BY <2>1, <3>1, <1>3, <1>4 DEF Published
  <2>2. QED
    BY <2>1, <1>3, <1>4 DEF UnpublishedIsMarked, TreeKnown
<1>7. CallsKnown
  BY <1>2, EmptySeq DEF CallsKnown, CallKnown
<1>8. RecordKnown /\ PromisesKnown
  BY <1>2, Constants DEF RecordKnown, StepKnown, PromisesKnown, PromiseKnown
<1>9. FilesKnown
  BY <1>2, <1>4 DEF FilesKnown
<1>10. DumpsKnown
  <2>1. NoChain \in Chains /\ NoChain.created = {}
    BY DEF NoChain, Chains
  <2>2. QED
    BY <2>1, <1>2, Constants DEF DumpsKnown, DumpKnown
<1>11. QED
  BY <1>5, <1>6, <1>7, <1>8, <1>9, <1>10 DEF PublicationInv

\* Every step.
LEMMA Step ==
  ASSUME PublicationInv, [DumpNext]_dumpVars
  PROVE  PublicationInv'
<1>1. CASE \E p \in Procs : Works(p) \/ Breaks(p)
  BY <1>1, RecoveryStep, DumpStep DEF Works, Breaks
<1>2. CASE MachineStops
  BY <1>2, MachineStopsStep
<1>3. CASE UNCHANGED dumpVars
  <2>1. UNCHANGED <<dirs, open, marks, files, synced, stack, pc, temp, promised, maker,
                    foreign, chain>>
    BY <1>3 DEF dumpVars, vars, disk, history
  <2>2. TypeOK' /\ UnpublishedIsMarked' /\ TreeKnown' /\ FilesKnown'
    BY <2>1, Parts
       DEF TypeOK, UnpublishedIsMarked, TreeKnown, Published, FilesKnown
  <2>3. Grows
    BY <2>1 DEF Grows
  <2>4. CallsKnown'
    BY <2>1, <2>3, Parts, OthersCalls DEF CallsKnown
  <2>5. RecordKnown'
    BY <2>1, <2>3, Parts, OthersSteps, Constants DEF RecordKnown
  <2>6. PromisesKnown'
    BY <2>1, <2>3, Parts, OthersPromises DEF PromisesKnown
  <2>7. DumpsKnown'
    BY <2>1, Parts DEF DumpsKnown, DumpKnown
  <2>8. QED
    BY <2>2, <2>4, <2>5, <2>6, <2>7 DEF PublicationInv
<1>4. QED
  BY <1>1, <1>2, <1>3 DEF DumpNext

\* The inductive invariant of ensure_directory, begin, finish and
\* write_dump_file, system call by system call: types, that a base directory
\* the power could still take has its marker (UnpublishedIsMarked), what the
\* directories, each call and each process can rely on, that nothing torn is
\* under a name, and that what was promised is on stable storage on a path
\* that is (_find_publication_marker, sync_directory, _publish).
THEOREM PublicationInvariant == DumpSpec => []PublicationInv
<1>1. DumpInit => PublicationInv
  BY Initially
<1>2. PublicationInv /\ [DumpNext]_dumpVars => PublicationInv'
  BY Step
<1>3. QED
  BY <1>1, <1>2, PTL DEF DumpSpec

\* What begin() and finish() have returned for holds after every kill and
\* every power loss, although several processes create, adopt and synchronize
\* the same directories, and whoever reads the target of a dump finds a whole
\* one or none (recovery_state.py, filesystem.py, dumpfile.py).
THEOREM PromisesSurvive == DumpSpec => []FilesSurvive
<1>1. PublicationInv => FilesSurvive
  <2>1. ASSUME PublicationInv
        PROVE  FilesSurvive
    BY <2>1, Parts, Constants
       DEF PromiseKnown, FilesKnown, FilesSurvive, SavedSurvives
  <2>2. QED
    BY <2>1
<1>2. QED
  BY <1>1, PublicationInvariant, PTL

\* The cleanup of a failed write_dump_file removes directories that this very
\* dump has made, however many dumps and runs make the same ones meanwhile.
THEOREM CleanupIsItsOwn == DumpSpec => CleanupTakesOnlyItsOwn
<1> DEFINE Own == \A l \in dirs \ dirs' :
                    PowerLoss \/ \E d \in Dumpers : pc[d] = "cleanup" /\ maker[l] = d
<1>1. PublicationInv /\ [DumpNext]_dumpVars => [Own]_dumpVars
  <2>1. SUFFICES ASSUME PublicationInv, [DumpNext]_dumpVars, NEW l \in dirs \ dirs',
                        ~PowerLoss
                 PROVE  \E d \in Dumpers : pc[d] = "cleanup" /\ maker[l] = d
    OBVIOUS
  <2>2. PICK d \in Dumpers : Rmdir(d)
    <3>1. CASE \E p \in Recoverers : Recovery(p) \/ Stops(p)
      BY <3>1, <2>1
         DEF Recovery, EnsureBase, Begin, LookDenied, Look, Repair, Mark,
             Mkdir, Access, Publish, Unmark, Erase, Record, OwnMkdir,
             OwnAccess, OwnSync, Write, Replace, SyncFile, Unlink, SyncGone,
             Stops, Fails, Abort, Killed, disk
    <3>2. CASE \E d \in Dumpers : Dump(d) \/ DumpFails(d) \/ DumpKilled(d)
      BY <3>2, <2>1
         DEF Dump, Scan, Component, Chmod, DumpWrite, DumpReplace, DumpFails,
             DumpKilled, disk
    <3>3. CASE UNCHANGED dumpVars
      BY <3>3, <2>1 DEF dumpVars, vars, disk
    <3>4. QED
      BY <3>1, <3>2, <3>3, <2>1 DEF DumpNext, Works, Breaks, MachineStops
  <2>3. l \in chain[d].created /\ pc[d] = "cleanup"
    BY <2>1, <2>2 DEF Rmdir, Doing, Removed
  <2>4. maker[l] = d
    BY <2>1, <2>3, DumperParts
  <2>5. QED
    BY <2>3, <2>4
<1>2. QED
  BY <1>1, PublicationInvariant, PTL DEF DumpSpec, CleanupTakesOnlyItsOwn
=============================================================================
