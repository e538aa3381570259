---------------------- MODULE LifecycleRequestsProofs ----------------------
(***************************************************************************)
(* What a whole sequence of commands makes of a row, for any sub-statuses: *)
(* a row, in general, and step by step what the short sequences make of    *)
(* it that the workflows send.  Their modules commit a sequence in one     *)
(* step, so their invariants rest on these lemmas.                         *)
(***************************************************************************)
EXTENDS LifecycleRequests, SequenceTheorems, WellFoundedInduction, TLAPS

RowsOf(subs) == [status : Statuses, sub : subs, pause : PauseTypes \cup {Unset}]

ViewsOf(subs) == [status : Statuses, sub : subs]

EntriesOf(subs) ==
  [number : Nat, type : Snapshots \cup Transitions, before : ViewsOf(subs), after : ViewsOf(subs)]

TransactionsOf(subs) ==
  [number : Nat, locked : ViewsOf(subs), row : RowsOf(subs), current : ViewsOf(subs),
   log : Seq(EntriesOf(subs)), pause : PauseTypes \cup {Unset}, wrote : BOOLEAN,
   sent : Seq(Commands(subs)), todo : Seq(Commands(subs))]

(* A set of positions that is not empty has a least one.                    *)
LEMMA LeastOf ==
  ASSUME NEW S \in SUBSET Nat, S # {}
  PROVE  \E n \in S : \A m \in S : n <= m
<1> DEFINE Less == {p \in Nat \X Nat : p[1] < p[2]}
<1>1. OpToRel(<, Nat) = Less
  BY DEF OpToRel
<1>2. IsWellFoundedOn(Less, Nat)
  BY <1>1, NatLessThanWellFounded
<1> HIDE DEF Less
<1>3. PICK n \in S : \A m \in S : ~(<<m, n>> \in Less)
  BY <1>2, WFMin
<1>4. \A m \in S : ~(m < n)
  BY <1>3 DEF Less
<1>5. QED
  BY <1>4

(* The pause of a sequence is one of its commands', system_error or none.   *)
LEMMA PauseOfTyped ==
  ASSUME NEW subs, NEW s \in Seq(Commands(subs))
  PROVE  PauseOf(s) \in PauseTypes \cup {Unset}
<1> DEFINE failures == {n \in DOMAIN s : s[n].type = "exception"}
           named == {n \in failures : s[n].pause # Unset}
           first == CHOOSE n \in named : \A m \in named : n <= m
<1>1. named \in SUBSET Nat /\ named \subseteq DOMAIN s
  <2>1. DOMAIN s = 1..Len(s) /\ Len(s) \in Nat
    BY LenProperties
  <2>2. QED
    BY <2>1
<1>2. CASE named = {}
  BY <1>2 DEF PauseOf, PauseTypes
<1>3. CASE named # {}
  <2>1. \E n \in named : \A m \in named : n <= m
    BY <1>1, <1>3, LeastOf
  <2>2. first \in named
    BY <2>1
  <2>3. s[first] \in Commands(subs)
    BY <1>1, <2>2, ElementOfSeq, LenProperties
  <2>4. PauseOf(s) = s[first].pause
    BY <1>3 DEF PauseOf
  <2>5. s[first].pause \in PauseTypes \cup {Unset}
    BY <2>3 DEF Commands
  <2>6. QED
    BY <2>4, <2>5
<1>4. QED
  BY <1>2, <1>3

(* A transaction that has applied nothing is well typed.                    *)
LEMMA OpenTyped ==
  ASSUME NEW subs, NEW r \in RowsOf(subs), NEW s \in Seq(Commands(subs)), s # <<>>
  PROVE  /\ Open(1, r, <<>>, s) \in TransactionsOf(subs)
         /\ Open(1, r, <<>>, s).todo = s
<1>1. Head(s) \in Commands(subs)
  BY HeadTailProperties
<1>2. View(r) \in ViewsOf(subs)
  BY DEF View, RowsOf, ViewsOf
<1>3. Current(Head(s), r) \in ViewsOf(subs)
  BY <1>1, <1>2 DEF Current, OrElse, Commands, RowsOf, ViewsOf
<1>4. PauseOf(s) \in PauseTypes \cup {Unset}
  BY PauseOfTyped
<1>5. <<>> \in Seq(EntriesOf(subs))
  OBVIOUS
<1>6. QED
  BY <1>2, <1>3, <1>4, <1>5 DEF Open, TransactionsOf

(* A command, applied, takes a well-typed transaction to another.           *)
LEMMA ApplyTyped ==
  ASSUME NEW subs, NEW t \in TransactionsOf(subs), t.todo # <<>>
  PROVE  Apply(t) \in TransactionsOf(subs) /\ Apply(t).todo = Tail(t.todo)
<1> DEFINE c == Head(t.todo)
<1>1. c \in Commands(subs) /\ Tail(t.todo) \in Seq(Commands(subs))
  BY HeadTailProperties DEF TransactionsOf
<1>2. CASE IsSnapshot(c.type)
  <2> DEFINE e == Entry(t.number, c.type, t.locked, t.locked)
  <2>1. e \in EntriesOf(subs)
    BY <1>1, <1>2 DEF Entry, EntriesOf, TransactionsOf, IsSnapshot
  <2>2. Append(t.log, e) \in Seq(EntriesOf(subs))
    BY <2>1, AppendProperties DEF TransactionsOf
  <2> HIDE DEF e
  <2>3. Apply(t) = [t EXCEPT !.current = t.locked, !.log = Append(t.log, e),
                             !.todo = Tail(t.todo)]
    BY <1>2 DEF Apply, ApplySnapshot, TransactionsOf, e
  <2>4. QED
    BY <1>1, <2>2, <2>3 DEF TransactionsOf
<1>3. CASE ~IsSnapshot(c.type)
  <2> DEFINE status == TargetStatus(c, t.current, t.pause)
             after == [status |-> OrElse(status, t.current.status),
                       sub |-> OrElse(c.sub, t.current.sub)]
             writes == status # Unset \/ c.sub # Unset
             e == Entry(t.number, c.type, t.current, after)
             r == IF writes THEN Updated(t.row, status, c.sub, t.pause) ELSE t.row
  <2>1. status \in Statuses \cup {Unset}
    BY <1>1 DEF TargetStatus, Commands, Statuses
  <2>2. t.current \in ViewsOf(subs) /\ c.sub \in subs \cup {Unset} /\ t.row \in RowsOf(subs)
        /\ t.pause \in PauseTypes \cup {Unset}
    BY <1>1 DEF TransactionsOf, Commands
  <2> HIDE DEF status
  <2>3. after \in ViewsOf(subs)
    BY <2>1, <2>2 DEF OrElse, ViewsOf
  <2>4. r \in RowsOf(subs)
    BY <2>1, <2>2 DEF Updated, OrElse, RowsOf
  <2>5. e \in EntriesOf(subs)
    BY <1>1, <2>2, <2>3 DEF Entry, EntriesOf, TransactionsOf, Commands
  <2>6. Append(t.log, e) \in Seq(EntriesOf(subs))
    BY <2>5, AppendProperties DEF TransactionsOf
  <2>7. Apply(t) = [t EXCEPT !.current = after, !.log = Append(t.log, e), !.row = r,
                             !.wrote = t.wrote \/ writes, !.todo = Tail(t.todo)]
    BY <1>3 DEF Apply, ApplyTransition, TransactionsOf, status
  <2>8. (t.wrote \/ writes) \in BOOLEAN
    OBVIOUS
  <2> HIDE DEF after, writes, e, r
  <2>9. QED
    BY <1>1, <2>3, <2>4, <2>6, <2>7, <2>8 DEF TransactionsOf
<1>4. QED
  BY <1>2, <1>3

-----------------------------------------------------------------------------
(* The whole sequence.                                                      *)

\* f holds the transaction before each command up to the m-th.
Course(f, t, m) == f = [n \in 0..m |-> IF n = 0 THEN t ELSE Apply(f[n - 1])]

(* However long the sequence, its course exists.                            *)
LEMMA CourseExists ==
  ASSUME NEW t, NEW m \in Nat
  PROVE  \E f : Course(f, t, m)
<1> DEFINE Missing == {k \in Nat : ~ \E f : Course(f, t, k)}
<1>1. SUFFICES ASSUME Missing # {}
               PROVE  FALSE
  OBVIOUS
<1>2. PICK k \in Missing : \A j \in Missing : k <= j
  BY <1>1, LeastOf
<1>3. k # 0
  <2> DEFINE f == [n \in 0..0 |-> t]
  <2>1. f = [n \in 0..0 |-> IF n = 0 THEN t ELSE Apply(f[n - 1])]
    OBVIOUS
  <2>2. Course(f, t, 0)
    BY <2>1 DEF Course
  <2>3. QED
    BY <2>2
<1>4. k - 1 \in Nat /\ k - 1 \notin Missing
  BY <1>2, <1>3
<1>5. PICK f : Course(f, t, k - 1)
  BY <1>4
<1> DEFINE g == [n \in 0..k |-> IF n = k THEN Apply(f[k - 1]) ELSE f[n]]
<1>6. \A n \in 0..(k - 1) : g[n] = f[n]
  BY <1>4
<1>7. \A n \in 0..k : g[n] = IF n = 0 THEN t ELSE Apply(g[n - 1])
  <2>1. TAKE n \in 0..k
  <2>2. CASE n = k
    BY <1>3, <1>4, <1>6, <2>2
  <2>3. CASE n # k
    <3>1. n \in 0..(k - 1) /\ (n # 0 => n - 1 \in 0..(k - 1))
      BY <1>4, <2>3
    <3>2. f[n] = IF n = 0 THEN t ELSE Apply(f[n - 1])
      BY <1>5, <3>1 DEF Course
    <3>3. QED
      BY <1>6, <3>1, <3>2
  <2>4. QED
    BY <2>2, <2>3
<1>8. Course(g, t, k)
  <2> HIDE DEF g
  <2>1. g = [n \in 0..k |-> g[n]]
    BY DEF g
  <2>2. QED
    BY <1>7, <2>1 DEF Course
<1>9. QED
  BY <1>2, <1>8

(* Along its course a well-typed sequence stays well typed: the first       *)
(* transaction that is not would come from one that is.                     *)
LEMMA CourseTyped ==
  ASSUME NEW subs, NEW r \in RowsOf(subs), NEW s \in Seq(Commands(subs)), s # <<>>,
         NEW f, Course(f, Open(1, r, <<>>, s), Len(s))
  PROVE  f[Len(s)] \in TransactionsOf(subs)
<1> DEFINE Right(n) == /\ f[n] \in TransactionsOf(subs)
                       /\ Len(f[n].todo) = Len(s) - n
           Wrong == {n \in 0..Len(s) : ~Right(n)}
<1>1. Len(s) \in Nat
  BY LenProperties
<1>2. f[0] = Open(1, r, <<>>, s) /\ \A n \in 1..Len(s) : f[n] = Apply(f[n - 1])
  BY <1>1 DEF Course
<1>3. SUFFICES ASSUME Wrong # {}
               PROVE  FALSE
  BY <1>1
<1>4. PICK k \in Wrong : \A j \in Wrong : k <= j
  <2>1. Wrong \in SUBSET Nat
    BY <1>1
  <2> HIDE DEF Wrong
  <2>2. QED
    BY <1>3, <2>1, LeastOf
<1>5. k # 0
  BY <1>1, <1>2, OpenTyped
<1>6. k - 1 \in 0..Len(s) /\ Right(k - 1) /\ k \in 1..Len(s)
  <2> HIDE DEF Right
  <2>1. k \in 0..Len(s)
    OBVIOUS
  <2>2. k - 1 \in 0..Len(s) /\ k \in 1..Len(s) /\ ~(k <= k - 1)
    BY <1>1, <1>5, <2>1
  <2>3. k - 1 \notin Wrong
    BY <1>4, <2>2
  <2>4. QED
    BY <2>2, <2>3
<1> DEFINE u == f[k - 1]
<1>7. u \in TransactionsOf(subs) /\ Len(u.todo) = Len(s) - (k - 1)
  BY <1>6
<1>8. u.todo \in Seq(Commands(subs)) /\ u.todo # <<>>
  <2>1. Len(u.todo) # 0
    BY <1>1, <1>6, <1>7
  <2>2. QED
    BY <1>7, <2>1 DEF TransactionsOf
<1>9. f[k] = Apply(u)
  BY <1>2, <1>6
<1> HIDE DEF u
<1>10. f[k] \in TransactionsOf(subs) /\ f[k].todo = Tail(u.todo)
  BY <1>7, <1>8, <1>9, ApplyTyped
<1>11. Len(f[k].todo) = Len(s) - k
  <2>1. Len(Tail(u.todo)) = Len(u.todo) - 1
    BY <1>8, HeadTailProperties
  <2>2. QED
    BY <1>1, <1>6, <1>7, <1>10, <2>1
<1>12. QED
  BY <1>4, <1>10, <1>11

(* A sequence of commands takes a row to a row (record_sequence, which      *)
(* commits all of it or nothing).                                           *)
THEOREM AfterSequenceTyped ==
  ASSUME NEW subs, NEW r \in RowsOf(subs), NEW s \in Seq(Commands(subs))
  PROVE  AfterSequence(r, s) \in RowsOf(subs)
<1>1. CASE s = <<>>
  BY <1>1 DEF AfterSequence
<1>2. CASE s # <<>>
  <2> DEFINE f == CHOOSE f : Course(f, Open(1, r, <<>>, s), Len(s))
  <2>1. Course(f, Open(1, r, <<>>, s), Len(s))
    BY CourseExists, LenProperties
  <2>2. AfterSequence(r, s) = Paused(f[Len(s)])
    BY <1>2 DEF AfterSequence, Course
  <2> HIDE DEF f
  <2>3. f[Len(s)] \in TransactionsOf(subs)
    BY <1>2, <2>1, CourseTyped
  <2>4. QED
    BY <2>2, <2>3 DEF Paused, TransactionsOf, RowsOf
<1>3. QED
  BY <1>1, <1>2

-----------------------------------------------------------------------------
(* What short sequences leave.                                              *)

(* A sequence of one command applies it,                                    *)
LEMMA AfterOne ==
  ASSUME NEW r, NEW c
  PROVE  AfterSequence(r, <<c>>) = Paused(Apply(Open(1, r, <<>>, <<c>>)))
<1> DEFINE s == <<c>>
           t == Open(1, r, <<>>, s)
           f == CHOOSE f : Course(f, t, Len(s))
<1>1. Len(s) = 1 /\ s # <<>>
  OBVIOUS
<1>2. AfterSequence(r, s) = Paused(f[Len(s)])
  BY <1>1 DEF AfterSequence, Course
<1>3. Course(f, t, 1)
  BY <1>1, CourseExists
<1> HIDE DEF f, t
<1>4. f[0] = t /\ f[1] = Apply(f[0])
  BY <1>3 DEF Course
<1>5. QED
  BY <1>1, <1>2, <1>4 DEF t

(* and one of two commands the one after the other.                         *)
LEMMA AfterTwo ==
  ASSUME NEW r, NEW a, NEW c
  PROVE  AfterSequence(r, <<a, c>>) = Paused(Apply(Apply(Open(1, r, <<>>, <<a, c>>))))
<1> DEFINE s == <<a, c>>
           t == Open(1, r, <<>>, s)
           f == CHOOSE f : Course(f, t, Len(s))
<1>1. Len(s) = 2 /\ s # <<>>
  OBVIOUS
<1>2. AfterSequence(r, s) = Paused(f[Len(s)])
  BY <1>1 DEF AfterSequence, Course
<1>3. Course(f, t, 2)
  BY <1>1, CourseExists
<1> HIDE DEF f, t
<1>4. f[0] = t /\ f[1] = Apply(f[0]) /\ f[2] = Apply(f[1])
  BY <1>3 DEF Course
<1>5. QED
  BY <1>1, <1>2, <1>4 DEF t

(* One command is a sequence of commands, and so are two of them.           *)
LEMMA Joined1 ==
  ASSUME NEW S, NEW c \in S
  PROVE  <<c>> \in Seq(S) /\ <<c>> # <<>>
OBVIOUS

LEMMA Joined2 ==
  ASSUME NEW S, NEW a \in S, NEW c \in S
  PROVE  <<a, c>> \in Seq(S) /\ <<a, c>> # <<>>
OBVIOUS

(* What the last command of a sequence leaves if it is a transition.        *)
LEMMA Applied ==
  ASSUME NEW subs, NEW t \in TransactionsOf(subs), NEW r \in RowsOf(subs), t.row = r,
         NEW c \in Commands(subs), Head(t.todo) = c, ~IsSnapshot(c.type)
  PROVE  /\ c.status # Unset => Paused(Apply(t)).status = c.status
         /\ Paused(Apply(t)).sub = OrElse(c.sub, r.sub)
<1> DEFINE status == TargetStatus(c, t.current, t.pause)
           writes == status # Unset \/ c.sub # Unset
           new == IF writes THEN Updated(r, status, c.sub, t.pause) ELSE r
<1>1. c.status # Unset => status = c.status
  BY DEF TargetStatus
<1>2. status \in Statuses \cup {Unset}
  BY DEF TargetStatus, Commands, Statuses
<1>3. Apply(t).row = new
  BY DEF Apply, ApplyTransition, TransactionsOf
<1>4. c.sub \in subs \cup {Unset} /\ t.pause \in PauseTypes \cup {Unset}
  BY DEF Commands, TransactionsOf
<1>5. Paused(Apply(t)) \in {new, [new EXCEPT !.pause = Apply(t).pause]}
  BY <1>3 DEF Paused
<1> HIDE DEF status
<1>6. /\ new.sub = OrElse(c.sub, r.sub)
      /\ c.status # Unset => new.status = c.status
      /\ new \in RowsOf(subs)
  BY <1>1, <1>2, <1>4 DEF Updated, OrElse, RowsOf
<1> HIDE DEF new
<1>7. QED
  BY <1>5, <1>6 DEF RowsOf

(* A snapshot alone leaves both statuses.                                   *)
LEMMA AfterSnapshot ==
  ASSUME NEW subs, NEW r \in RowsOf(subs), NEW c \in Commands(subs), IsSnapshot(c.type)
  PROVE  AfterSequence(r, <<c>>).status = r.status /\ AfterSequence(r, <<c>>).sub = r.sub
<1> DEFINE t == Open(1, r, <<>>, <<c>>)
<1>1. t.row = r /\ Head(t.todo) = c
  BY DEF Open
<1>2. Apply(t).row = r
  <2>1. t \in TransactionsOf(subs)
    BY OpenTyped, Joined1
  <2> HIDE DEF t
  <2>2. QED
    BY <1>1, <2>1 DEF Apply, ApplySnapshot, TransactionsOf
<1>3. AfterSequence(r, <<c>>) = Paused(Apply(t))
  BY AfterOne
<1> HIDE DEF t
<1>4. QED
  BY <1>2, <1>3 DEF Paused, RowsOf

(* A transition that names both its statuses leaves the row there.          *)
LEMMA AfterTransition ==
  ASSUME NEW subs, NEW r \in RowsOf(subs), NEW c \in Commands(subs), ~IsSnapshot(c.type)
  PROVE  /\ c.status # Unset => AfterSequence(r, <<c>>).status = c.status
         /\ AfterSequence(r, <<c>>).sub = OrElse(c.sub, r.sub)
<1> DEFINE t == Open(1, r, <<>>, <<c>>)
<1>1. t \in TransactionsOf(subs) /\ t.row = r /\ Head(t.todo) = c
  <2>1. t \in TransactionsOf(subs)
    BY OpenTyped, Joined1
  <2>2. QED
    BY <2>1 DEF Open
<1>2. AfterSequence(r, <<c>>) = Paused(Apply(t))
  BY AfterOne
<1> HIDE DEF t
<1>3. QED
  BY <1>1, <1>2, Applied

(* So does one that comes after a snapshot.                                 *)
LEMMA AfterLogged ==
  ASSUME NEW subs, NEW r \in RowsOf(subs), NEW a \in Commands(subs), NEW c \in Commands(subs),
         IsSnapshot(a.type), ~IsSnapshot(c.type)
  PROVE  /\ c.status # Unset => AfterSequence(r, <<a, c>>).status = c.status
         /\ AfterSequence(r, <<a, c>>).sub = OrElse(c.sub, r.sub)
<1> DEFINE t == Open(1, r, <<>>, <<a, c>>)
           u == Apply(t)
<1>1. /\ t \in TransactionsOf(subs) /\ t.row = r /\ Head(t.todo) = a
      /\ Tail(t.todo) = <<c>> /\ t.todo # <<>>
  <2>1. t \in TransactionsOf(subs)
    BY OpenTyped, Joined2
  <2>2. QED
    BY <2>1 DEF Open
<1>2. AfterSequence(r, <<a, c>>) = Paused(Apply(u))
  BY AfterTwo
<1> HIDE DEF t
<1>3. u \in TransactionsOf(subs) /\ u.todo = <<c>>
  BY <1>1, ApplyTyped
<1>4. u.row = r
  BY <1>1 DEF Apply, ApplySnapshot, TransactionsOf
<1> HIDE DEF u
<1>5. QED
  BY <1>2, <1>3, <1>4, Applied

(* and one that comes before a snapshot,                                    *)
LEMMA AfterNoted ==
  ASSUME NEW subs, NEW r \in RowsOf(subs), NEW a \in Commands(subs), NEW c \in Commands(subs),
         IsSnapshot(a.type), ~IsSnapshot(c.type)
  PROVE  /\ c.status # Unset => AfterSequence(r, <<c, a>>).status = c.status
         /\ AfterSequence(r, <<c, a>>).sub = OrElse(c.sub, r.sub)
<1> DEFINE t == Open(1, r, <<>>, <<c, a>>)
           u == Apply(t)
<1>1. /\ t \in TransactionsOf(subs) /\ t.row = r /\ Head(t.todo) = c
      /\ Tail(t.todo) = <<a>> /\ t.todo # <<>>
  <2>1. t \in TransactionsOf(subs)
    BY OpenTyped, Joined2
  <2>2. QED
    BY <2>1 DEF Open
<1>2. AfterSequence(r, <<c, a>>) = Paused(Apply(u))
  BY AfterTwo
<1> HIDE DEF t
<1>3. u \in TransactionsOf(subs) /\ u.todo = <<a>>
  BY <1>1, ApplyTyped
<1>4. /\ c.status # Unset => Paused(u).status = c.status
      /\ Paused(u).sub = OrElse(c.sub, r.sub)
  BY <1>1, Applied
<1> HIDE DEF u
<1>5. u.row \in RowsOf(subs) /\ Head(u.todo) = a
  BY <1>3 DEF TransactionsOf
<1>6. Apply(u).row = u.row
  BY <1>3, <1>5 DEF Apply, ApplySnapshot, TransactionsOf
<1>7. \A v : v.row = u.row => Paused(v).status = u.row.status /\ Paused(v).sub = u.row.sub
  BY <1>5 DEF Paused, RowsOf
<1>8. QED
  BY <1>2, <1>4, <1>6, <1>7

(* and one without a status leaves a status that is not under review.       *)
LEMMA AfterSubMove ==
  ASSUME NEW subs, NEW r \in RowsOf(subs), NEW a \in Commands(subs), NEW c \in Commands(subs),
         IsSnapshot(a.type), ~IsSnapshot(c.type), c.status = Unset, r.status # "pending_review"
  PROVE  AfterSequence(r, <<a, c>>).status = r.status
<1> DEFINE t == Open(1, r, <<>>, <<a, c>>)
           u == Apply(t)
<1>1. /\ t \in TransactionsOf(subs) /\ t.row = r /\ Head(t.todo) = a
      /\ Tail(t.todo) = <<c>> /\ t.todo # <<>> /\ t.locked = View(r)
  <2>1. t \in TransactionsOf(subs)
    BY OpenTyped, Joined2
  <2>2. QED
    BY <2>1 DEF Open
<1>2. AfterSequence(r, <<a, c>>) = Paused(Apply(u))
  BY AfterTwo
<1> HIDE DEF t
<1>3. u \in TransactionsOf(subs) /\ u.todo = <<c>>
  BY <1>1, ApplyTyped
<1>4. u.row = r /\ u.current = View(r)
  BY <1>1 DEF Apply, ApplySnapshot, TransactionsOf
<1> HIDE DEF u
<1>5. TargetStatus(c, u.current, u.pause) = Unset
  BY <1>4 DEF TargetStatus, View
<1>6. Apply(u).row.status = r.status /\ Apply(u).row \in RowsOf(subs)
  <2>1. Apply(u).row \in {r, Updated(r, Unset, c.sub, u.pause)}
    BY <1>3, <1>4, <1>5 DEF Apply, ApplyTransition, TransactionsOf
  <2>2. c.sub \in subs \cup {Unset} /\ u.pause \in PauseTypes \cup {Unset}
    BY <1>3 DEF Commands, TransactionsOf
  <2>3. QED
    BY <2>1, <2>2 DEF Updated, OrElse, RowsOf
<1>7. QED
  BY <1>2, <1>6 DEF Paused, RowsOf

(* The last of three commands decides on what it names.                     *)
LEMMA AfterThree ==
  ASSUME NEW subs, NEW r \in RowsOf(subs), NEW a \in Commands(subs), NEW b \in Commands(subs),
         NEW c \in Commands(subs), ~IsSnapshot(c.type), c.sub # Unset
  PROVE  /\ AfterSequence(r, <<a, b, c>>).sub = c.sub
         /\ c.status # Unset => AfterSequence(r, <<a, b, c>>).status = c.status
<1> DEFINE s == <<a, b, c>>
           t == Open(1, r, <<>>, s)
           f == CHOOSE f : Course(f, t, Len(s))
           u == Apply(Apply(t))
<1>1. Len(s) = 3 /\ s # <<>> /\ s \in Seq(Commands(subs)) /\ Tail(Tail(s)) = <<c>>
      /\ Tail(s) # <<>>
  OBVIOUS
<1>2. AfterSequence(r, s) = Paused(f[Len(s)])
  BY <1>1 DEF AfterSequence, Course
<1>3. Course(f, t, 3)
  BY <1>1, CourseExists
<1>4. t \in TransactionsOf(subs) /\ t.todo = s
  BY <1>1, OpenTyped
<1> HIDE DEF f, t, s
<1>5. f[0] = t /\ f[1] = Apply(f[0]) /\ f[2] = Apply(f[1]) /\ f[3] = Apply(f[2])
  BY <1>3 DEF Course
<1>6. Apply(t) \in TransactionsOf(subs) /\ Apply(t).todo = Tail(s)
  BY <1>1, <1>4, ApplyTyped
<1>7. u \in TransactionsOf(subs) /\ u.todo = <<c>>
  BY <1>1, <1>6, ApplyTyped
<1>8. AfterSequence(r, s) = Paused(Apply(u))
  BY <1>1, <1>2, <1>5
<1> HIDE DEF u
<1>9. u.row \in RowsOf(subs) /\ Head(u.todo) = c
  BY <1>7 DEF TransactionsOf
<1>10. /\ Paused(Apply(u)).sub = OrElse(c.sub, u.row.sub)
       /\ c.status # Unset => Paused(Apply(u)).status = c.status
  BY <1>7, <1>9, Applied
<1>11. QED
  BY <1>8, <1>10 DEF OrElse, s

-----------------------------------------------------------------------------
(* What any workflow may send.                                              *)

(* The record of a failure, and a resolution by hand, are sequences.        *)
LEMMA AnywhereTyped ==
  ASSUME NEW subs, NEW v, NEW category, "resolved_manually" \in subs
  PROVE  /\ FailureOf(category) \in Seq(Commands(subs))
         /\ Resolve(v) \subseteq Seq(Commands(subs))
<1> USE DEF Command, Commands, Snapshots, Transitions, Statuses, PauseTypes, Unset
<1>1. [Exception EXCEPT !.pause = IF category = "business" THEN Unset ELSE "system_error"]
        \in Commands(subs)
  BY DEF Exception
<1>2. StatusChange("pending_review", Unset) \in Commands(subs)
  BY DEF StatusChange
<1>3. Action \in Commands(subs) /\ StatusChange("completed", "resolved_manually") \in Commands(subs)
  BY DEF Action, StatusChange
<1> HIDE DEF Commands
<1>4. QED
  BY <1>1, <1>2, <1>3 DEF FailureOf, Resolve

(* One command is a sequence of commands, and so are two of them joined.    *)
LEMMA Joined ==
  ASSUME NEW S, NEW c \in S, NEW s \in Seq(S), NEW t \in Seq(S)
  PROVE  <<c>> \in Seq(S) /\ s \o t \in Seq(S)
BY ConcatProperties

(* The step to uploaded_to_tms is a sequence of commands.                   *)
LEMMA UploadedStepTyped ==
  ASSUME NEW subs, NEW v, v.status \in Statuses, v.sub \in subs,
         "uploaded_to_tms" \in subs
  PROVE  UploadedStep(v) \in Seq(Commands(subs))
<1>1. From(v, StatusChange("completed", "uploaded_to_tms")) \in Commands(subs)
  BY DEF From, StatusChange, Command, Commands, Transitions, Statuses, Unset
<1>2. [SubChange(Unset, "uploaded_to_tms") EXCEPT !.fromSub = v.sub] \in Commands(subs)
  BY DEF SubChange, Command, Commands, Transitions, Statuses, Unset
<1>3. /\ <<From(v, StatusChange("completed", "uploaded_to_tms"))>> \in Seq(Commands(subs))
      /\ <<[SubChange(Unset, "uploaded_to_tms") EXCEPT !.fromSub = v.sub]>>
           \in Seq(Commands(subs))
      /\ <<>> \in Seq(Commands(subs))
  <2> HIDE DEF From, StatusChange, SubChange
  <2>1. QED
    BY <1>1, <1>2, Joined
<1>4. QED
  BY <1>3, Zenon DEF UploadedStep

(* A log entry and a step to review are commands.                           *)
LEMMA CommandsTyped ==
  ASSUME NEW subs, NEW v, NEW sub \in subs
  PROVE  /\ <<Action>> \in Seq(Commands(subs)) /\ <<Info>> \in Seq(Commands(subs))
         /\ Action \in Commands(subs) /\ Info \in Commands(subs)
         /\ ReviewStep(v, sub) \in Commands(subs)
<1>1. Action \in Commands(subs) /\ Info \in Commands(subs)
  BY DEF Action, Info, Command, Commands, Snapshots, Unset
<1>2. ReviewStep(v, sub) \in Commands(subs)
  BY DEF ReviewStep, Command, Commands, Transitions, Statuses, Unset
<1>3. <<Action>> \in Seq(Commands(subs)) /\ <<Info>> \in Seq(Commands(subs))
  BY <1>1, Joined
<1>4. QED
  BY <1>1, <1>2, <1>3

(* Short sequences put together.                                            *)
LEMMA Spliced1 ==
  ASSUME NEW A, NEW a \in A, NEW c \in A
  PROVE  <<a>> \o <<c>> = <<a, c>>
<1>1. <<a>> \in Seq(A) /\ <<c>> \in Seq(A) /\ <<a, c>> \in Seq(A)
      /\ Len(<<a>>) = 1 /\ Len(<<c>>) = 1 /\ Len(<<a, c>>) = 2
      /\ <<a>>[1] = a /\ <<c>>[1] = c /\ <<a, c>>[1] = a /\ <<a, c>>[2] = c
  OBVIOUS
<1> DEFINE x == <<a>>
           y == <<c>>
           z == <<a, c>>
<1> HIDE DEF x, y, z
<1>2. x \in Seq(A) /\ y \in Seq(A) /\ z \in Seq(A) /\ Len(x) = 1 /\ Len(y) = 1 /\ Len(z) = 2
      /\ x[1] = a /\ y[1] = c /\ z[1] = a /\ z[2] = c
  BY <1>1 DEF x, y, z
<1>3. /\ x \o y \in Seq(A) /\ Len(x \o y) = 2
      /\ (x \o y)[1] = a /\ (x \o y)[2] = c
  BY <1>2, ConcatProperties
<1> DEFINE xy == x \o y
<1> HIDE DEF xy
<1>4. /\ xy \in Seq(A) /\ Len(xy) = Len(z) /\ \A i \in 1..Len(xy) : xy[i] = z[i]
  BY <1>2, <1>3 DEF xy
<1>5. xy = z
  BY <1>2, <1>4, SeqEqual
<1>6. QED
  BY <1>5 DEF xy, x, y, z

LEMMA Spliced2 ==
  ASSUME NEW A, NEW a \in A, NEW b \in A, NEW c \in A
  PROVE  <<a, b>> \o <<c>> = <<a, b, c>> /\ <<a, b, c>> \in Seq(A)
<1>1. <<a, b>> \in Seq(A) /\ <<c>> \in Seq(A) /\ <<a, b, c>> \in Seq(A)
      /\ Len(<<a, b>>) = 2 /\ Len(<<c>>) = 1 /\ Len(<<a, b, c>>) = 3
      /\ <<a, b>>[1] = a /\ <<a, b>>[2] = b /\ <<c>>[1] = c
      /\ <<a, b, c>>[1] = a /\ <<a, b, c>>[2] = b /\ <<a, b, c>>[3] = c
  OBVIOUS
<1> DEFINE x == <<a, b>>
           y == <<c>>
           z == <<a, b, c>>
<1> HIDE DEF x, y, z
<1>2. x \in Seq(A) /\ y \in Seq(A) /\ z \in Seq(A) /\ Len(x) = 2 /\ Len(y) = 1 /\ Len(z) = 3
      /\ x[1] = a /\ x[2] = b /\ y[1] = c /\ z[1] = a /\ z[2] = b /\ z[3] = c
  BY <1>1 DEF x, y, z
<1>3. /\ x \o y \in Seq(A) /\ Len(x \o y) = 3
      /\ (x \o y)[1] = a /\ (x \o y)[2] = b /\ (x \o y)[3] = c
  <2>1. /\ x \o y \in Seq(A) /\ Len(x \o y) = 3
        /\ \A i \in 1..3 : (x \o y)[i] = IF i <= 2 THEN x[i] ELSE y[i - 2]
    <3>1. /\ x \o y \in Seq(A) /\ Len(x \o y) = Len(x) + Len(y)
          /\ \A i \in 1..(Len(x) + Len(y)) :
               (x \o y)[i] = IF i <= Len(x) THEN x[i] ELSE y[i - Len(x)]
      BY <1>2, ConcatProperties
    <3>2. Len(x) + Len(y) = 3
      BY <1>2
    <3>3. QED
      BY <1>2, <3>1, <3>2
  <2>2. 3 - 2 = 1
    OBVIOUS
  <2>3. (x \o y)[1] = x[1] /\ (x \o y)[2] = x[2] /\ (x \o y)[3] = y[1]
    BY <2>1, <2>2
  <2>4. QED
    BY <1>2, <2>1, <2>3
<1> DEFINE xy == x \o y
<1> HIDE DEF xy
<1>4. /\ xy \in Seq(A) /\ Len(xy) = Len(z) /\ \A i \in 1..Len(xy) : xy[i] = z[i]
  BY <1>2, <1>3 DEF xy
<1>5. xy = z
  BY <1>2, <1>4, SeqEqual
<1>6. QED
  BY <1>1, <1>5 DEF xy, x, y, z
=============================================================================
