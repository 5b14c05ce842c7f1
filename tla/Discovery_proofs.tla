---------------------------- MODULE Discovery_proofs ---------------------------
(***************************************************************************)
(* Discovery requests and searches for a time (DiscoveryRequest, with the  *)
(* search of ScheduleSolver), as composed in MCOffers: what is offered was *)
(* free, and nothing free is skipped, for every set of requests,           *)
(* questions, calendars, instructors, aircraft and bookings.               *)
(*                                                                         *)
(* The first part is about the operators of the solver and knows no state. *)
(* It follows the trace of its folds, the state before each candidate and  *)
(* before each day: a candidate that was looked at is settled, that is     *)
(* overlapped by a slot that was found or not to be had, and stays so.     *)
(* The second part is the inductive invariant, DiscoveryInv.  It says that *)
(* a request knows every old booking of the range it searches, that what   *)
(* it has found was free all along, and that no search of it has passed    *)
(* over anything free.                                                     *)
(***************************************************************************)
EXTENDS Offers_proofs

--------------------------------------------------------------------------------
(* The schedule solver. *)

\* The preferred ones first: the same elements, each as often as before.
LEMMA PrioritizedOf ==
  ASSUME NEW E, NEW s \in Seq(E), NEW p, NEW q,
         NEW t, t = Discovery!Prioritized(s, p, q)
  PROVE  /\ t \in Seq(E)
         /\ \A i \in DOMAIN s : \E j \in DOMAIN t : t[j] = s[i]
         /\ (\A i, j \in DOMAIN s : i < j => s[i] # s[j]) =>
              \A i, j \in DOMAIN t : i < j => t[i] # t[j]
<1> DEFINE A == Range(s) \cap {p}
           B == (Range(s) \cap {q}) \ A
           C == Range(s) \ (A \cup B)
           R == {x \in E \X E : x[1] # x[2]}
           Keeps(u, S) ==
             /\ u \in Seq(E) /\ \A i \in DOMAIN u : u[i] \in E \cap S
             /\ \A i \in DOMAIN s : s[i] \in S => \E j \in DOMAIN u : u[j] = s[i]
             /\ InSequence(s, R) => InSequence(u, R)
           a == Kept(s, A)
           b == Kept(s, B)
           c == Kept(s, C)
           seqs == <<a, b, c>>
<1>1. t = FlattenSeq(seqs)
  BY DEF Discovery!Prioritized, Discovery!Range, Range, Discovery!Kept, Kept,
         Discovery!FlattenSeq, FlattenSeq
<1>2. \A i \in DOMAIN s : s[i] \in E /\ (s[i] \in A \/ s[i] \in B \/ s[i] \in C)
  BY DEF Range
<1>3. A \cap B = {} /\ A \cap C = {} /\ B \cap C = {}
  OBVIOUS
<1> HIDE DEF A, B, C, R
<1>4. ASSUME NEW S PROVE Keeps(Kept(s, S), S)
  <2>1. /\ Kept(s, S) \in Seq(E \cap S)
        /\ \A i \in DOMAIN s : s[i] \in S => \E j \in DOMAIN Kept(s, S) : Kept(s, S)[j] = s[i]
        /\ InSequence(s, R) => InSequence(Kept(s, S), R)
    BY KeptOf
  <2>2. Kept(s, S) \in Seq(E)
    BY <2>1
  <2>3. \A i \in DOMAIN Kept(s, S) : Kept(s, S)[i] \in E \cap S
    BY <2>1
  <2> QED BY <2>1, <2>2, <2>3
<1> HIDE DEF Keeps
<1>10. Keeps(a, A) /\ Keeps(b, B) /\ Keeps(c, C)
  BY <1>4
<1> HIDE DEF a, b, c
<1> USE DEF Keeps
<1>5. seqs \in Seq(Seq(E)) /\ DOMAIN seqs = 1 .. 3
  BY <1>10
<1>6. seqs[1] = a /\ seqs[2] = b /\ seqs[3] = c
  OBVIOUS
<1> HIDE DEF seqs
<1>7. /\ FlattenSeq(seqs) \in Seq(E)
      /\ \A i \in DOMAIN seqs : \A k \in DOMAIN seqs[i] :
           \E j \in DOMAIN FlattenSeq(seqs) : FlattenSeq(seqs)[j] = seqs[i][k]
  BY <1>5, Flattened
<1>8. ASSUME NEW i \in DOMAIN s PROVE \E j \in DOMAIN t : t[j] = s[i]
  <2>1. \E m \in 1 .. 3 : \E k \in DOMAIN seqs[m] : seqs[m][k] = s[i]
    <3>1. CASE s[i] \in A
      BY <1>6, <1>10, <3>1
    <3>2. CASE s[i] \in B
      BY <1>6, <1>10, <3>2
    <3>3. CASE s[i] \in C
      BY <1>6, <1>10, <3>3
    <3> QED BY <1>2, <3>1, <3>2, <3>3
  <2> QED BY <1>1, <1>5, <1>7, <2>1
<1>9. ASSUME \A i, j \in DOMAIN s : i < j => s[i] # s[j]
      PROVE  \A i, j \in DOMAIN t : i < j => t[i] # t[j]
  <2>1. InSequence(s, R)
    BY <1>2, <1>9 DEF InSequence, R
  <2>2. \A m \in DOMAIN seqs : InSequence(seqs[m], R)
    BY <1>5, <1>6, <1>10, <2>1
  <2>3. AllBefore(seqs[1], seqs[2], R)
    BY <1>3, <1>6, <1>10 DEF AllBefore, R
  <2>4. AllBefore(seqs[1], seqs[3], R)
    BY <1>3, <1>6, <1>10 DEF AllBefore, R
  <2>5. AllBefore(seqs[2], seqs[3], R)
    BY <1>3, <1>6, <1>10 DEF AllBefore, R
  <2>6. \A i, j \in DOMAIN seqs : i < j => AllBefore(seqs[i], seqs[j], R)
    BY <1>5, <2>3, <2>4, <2>5
  <2>7. InSequence(t, R)
    <3> QED BY <1>1, <1>5, <2>2, <2>6, FlattenedInOrder
  <2> QED BY <2>7 DEF InSequence, R
<1> QED BY <1>1, <1>7, <1>8, <1>9

\* What is known of the staff's availability.
AreCalendars(cal) == \A i \in DOMAIN cal : IsStaffCalendar(cal[i])

\* A sequence of windows of a day.
AreWindows(windows) ==
  windows \in Seq(Range(windows)) /\ \A n \in DOMAIN windows : IsWindow(windows[n])

\* The windows of a set in some order.
LEMMA SetListed ==
  ASSUME NEW S, IsFiniteSet(S), \A w \in S : IsWindow(w)
  PROVE  AreWindows(Discovery!SetToSeq(S))
<1> DEFINE f == Discovery!SetToSeq(S)
<1>1. Cardinality(S) \in Nat
  BY FS_CardinalityType
<1>2. PICK n \in Nat : ExistsBijection(1 .. n, S)
  BY FS_NatBijection
<1>7. Cardinality(S) = n
  BY <1>2, FS_CountingElements
<1>3. \E g \in [1 .. Cardinality(S) -> S] : IsInjective(g)
  BY <1>2, <1>7 DEF ExistsBijection, Bijection, Injection
<1>4. f = CHOOSE h \in [1 .. Cardinality(S) -> S] : IsInjective(h)
  BY DEF Discovery!SetToSeq, Discovery!Cardinality, Cardinality, Discovery!IsFiniteSet, IsFiniteSet,
         Discovery!IsInjective, IsInjective
<1>5. f \in [1 .. Cardinality(S) -> S]
  BY <1>3, <1>4
<1> HIDE DEF f
<1>6. f \in Seq(Range(f)) /\ \A k \in DOMAIN f : f[k] \in S
  BY <1>1, <1>5 DEF Range
<1> QED BY <1>6 DEF AreWindows, f

\* The windows of an instructor on a day are within it.
LEMMA DayWindowsOf ==
  ASSUME NEW cal, AreCalendars(cal), NEW i, NEW d \in Int
  PROVE  AreWindows(Discovery!DayWindows(i, d, cal))
<1> DEFINE windows == Discovery!DayWindows(i, d, cal)
<1>1. CASE i \notin DOMAIN cal
  <2>1. windows = <<[from |-> 420, to |-> 1080]>>
    BY <1>1 DEF Discovery!DayWindows, Discovery!DefaultWindow
  <2> DEFINE w == [from |-> 420, to |-> 1080]
  <2>2. IsWindow(w)
    BY DEF IsWindow, DayLength
  <2> HIDE DEF w
  <2>3. <<w>> \in Seq(Range(<<w>>)) /\ DOMAIN <<w>> = 1 .. 1 /\ <<w>>[1] = w
    BY DEF Range
  <2>4. AreWindows(<<w>>)
    BY <2>2, <2>3 DEF AreWindows
  <2> QED BY <2>1, <2>4 DEF w
<1>2. CASE i \in DOMAIN cal
  <2> DEFINE c == cal[i]
  <2>1. IsStaffCalendar(c)
    BY <1>2 DEF AreCalendars
  <2>2. CASE d \in DOMAIN c.overrides
    <3>1. windows = Discovery!SetToSeq(c.overrides[d])
      BY <1>2, <2>2 DEF Discovery!DayWindows
    <3>2. IsFiniteSet(c.overrides[d]) /\ \A w \in c.overrides[d] : IsWindow(w)
      BY <2>1, <2>2 DEF IsStaffCalendar
    <3> QED BY <3>1, <3>2, SetListed
  <2>3. CASE d \notin DOMAIN c.overrides
    <3> DEFINE W == Range(c.weekly)
               S == {w \in W : w.day = d % 7}
    <3>1. windows = Kept(c.weekly, S)
      BY <1>2, <2>3 DEF Discovery!DayWindows, Discovery!Range, Range, Discovery!Kept, Kept,
                        Discovery!FlattenSeq, FlattenSeq
    <3>2. c.weekly \in Seq(W) /\ \A w \in W : IsWindow(w)
      BY <2>1 DEF IsStaffCalendar
    <3> HIDE DEF S, W
    <3> DEFINE weekly == c.weekly
    <3>5. weekly \in Seq(W)
      BY <3>2
    <3> HIDE DEF weekly
    <3>6. Kept(weekly, S) \in Seq(W \cap S)
      <4> DEFINE anyPairs == {}
      <4> HIDE DEF anyPairs
      <4>1. /\ Kept(weekly, S) \in Seq(W \cap S)
            /\ \A j \in DOMAIN weekly : weekly[j] \in S => \E k \in DOMAIN Kept(weekly, S) : Kept(weekly, S)[k] = weekly[j]
            /\ InSequence(weekly, anyPairs) => InSequence(Kept(weekly, S), anyPairs)
        BY ONLY <3>5, KeptOf
      <4> QED BY <4>1
    <3>3. windows \in Seq(W \cap S)
      BY <3>1, <3>6 DEF weekly
    <3> HIDE DEF windows
    <3>4. windows \in Seq(Range(windows)) /\ \A n \in DOMAIN windows : windows[n] \in W
      BY <3>3 DEF Range
    <3> QED BY <3>2, <3>4 DEF AreWindows, windows
  <2> QED BY <2>2, <2>3
<1> QED BY <1>1, <1>2

\* Pairs of numbers of which the first is not greater.
NotAfter == {x \in Int \X Int : x[1] <= x[2]}

\* The starts of a window: in order, and with their slots within the window.
LEMMA WindowStartsOf ==
  ASSUME NEW d \in Int, NEW w, IsWindow(w), NEW duration \in Nat \ {0},
         NEW starts, starts = Discovery!WindowStarts(d, w, duration)
  PROVE  /\ starts \in Seq(Int) /\ InSequence(starts, NotAfter)
         /\ \A k \in DOMAIN starts : /\ starts[k] >= d * DayLength + w.from
                                     /\ starts[k] + duration <= d * DayLength + w.to
<1> DEFINE room == w.to - w.from - duration
           n == IF w.to - w.from < duration THEN 0 ELSE 1 + room \div 30
<1>1. w.from \in Nat /\ w.to \in Int
  BY DEF IsWindow
<1>2. n \in Nat /\ \A k \in 1 .. n : (k - 1) * 30 <= room
  <2>1. CASE w.to - w.from < duration
    BY <2>1
  <2>2. CASE ~(w.to - w.from < duration)
    <3>1. room \in Nat
      BY <1>1, <2>2
    <3> HIDE DEF room
    <3>2. room \div 30 \in Nat /\ (room \div 30) * 30 <= room
      BY <3>1
    <3> QED BY <2>2, <3>1, <3>2
  <2> QED BY <2>1, <2>2
<1>3. starts = [k \in 1 .. n |-> d * DayLength + w.from + (k - 1) * 30]
  BY DEF Discovery!WindowStarts, Discovery!SLOT_INTERVAL_MINUTES, Discovery!DayLength, DayLength
<1> DEFINE a == w.from
           b == w.to
           base == d * 1440
<1>4. a \in Nat /\ b \in Int /\ base \in Int /\ room = b - a - duration
  BY <1>1
<1>5. starts = [k \in 1 .. n |-> base + a + (k - 1) * 30]
  BY <1>3 DEF DayLength
<1> HIDE DEF n, room, a, b, base
<1>6. starts \in [1 .. n -> Int] /\ starts \in Seq(Int) /\ DOMAIN starts = 1 .. n
  BY <1>2, <1>4, <1>5
<1>7. \A k \in DOMAIN starts : starts[k] >= base + a /\ starts[k] + duration <= base + b
  <2> TAKE k \in DOMAIN starts
  <2>1. k \in 1 .. n /\ k \in Int /\ k >= 1 /\ starts[k] = base + a + (k - 1) * 30 /\ (k - 1) * 30 <= room
    BY <1>2, <1>5, <1>6
  <2> QED BY <1>4, <2>1
<1>8. InSequence(starts, NotAfter)
  <2> SUFFICES ASSUME NEW i \in DOMAIN starts, NEW j \in DOMAIN starts, i < j
               PROVE  <<starts[i], starts[j]>> \in NotAfter
    BY DEF InSequence
  <2>1. i \in Int /\ j \in Int /\ starts[i] = base + a + (i - 1) * 30 /\ starts[j] = base + a + (j - 1) * 30
    BY <1>2, <1>5, <1>6
  <2> QED BY <1>4, <2>1 DEF NotAfter
<1> QED BY <1>6, <1>7, <1>8 DEF a, b, base, DayLength

\* Starts of slots that are within a day.
DayStarts(d, duration) ==
  {t \in Int : d * DayLength <= t /\ t + duration <= (d + 1) * DayLength}

\* The candidates of an instructor on a day: still to come and within it, and
\* in order if the windows are.
LEMMA DayCandidatesOf ==
  ASSUME NEW cal, AreCalendars(cal), NEW i, NEW d \in Int, NEW duration \in Nat \ {0}, NEW now,
         NEW starts, starts = Discovery!DayCandidates(i, d, duration, cal, now)
  PROVE  /\ starts \in Seq(DayStarts(d, duration))
         /\ \A k \in DOMAIN starts : starts[k] > now
         /\ Discovery!InOrder(Discovery!DayWindows(i, d, cal)) => InSequence(starts, NotAfter)
<1> DEFINE windows == Discovery!DayWindows(i, d, cal)
           E == DayStarts(d, duration)
           of(n) == Discovery!WindowStarts(d, windows[n], duration)
           seqs == [n \in DOMAIN windows |-> of(n)]
           all == FlattenSeq(seqs)
           S == {t \in Range(all) : t > now}
<1>1. starts = Kept(all, S)
  BY DEF Discovery!DayCandidates, Discovery!Kept, Kept, Discovery!FlattenSeq, FlattenSeq,
         Discovery!Range, Range
<1>2. windows \in Seq(Range(windows)) /\ \A n \in DOMAIN windows : IsWindow(windows[n])
  BY DayWindowsOf DEF AreWindows
<1> HIDE DEF windows
<1>3. \A n \in DOMAIN windows :
        /\ of(n) \in Seq(Int) /\ InSequence(of(n), NotAfter)
        /\ \A k \in DOMAIN of(n) : /\ of(n)[k] >= d * DayLength + windows[n].from
                                   /\ of(n)[k] + duration <= d * DayLength + windows[n].to
  <2> TAKE n \in DOMAIN windows
  <2> DEFINE u == of(n)
  <2>1. IsWindow(windows[n])
    BY <1>2
  <2>2. /\ u \in Seq(Int) /\ InSequence(u, NotAfter)
        /\ \A k \in DOMAIN u : /\ u[k] >= d * DayLength + windows[n].from
                               /\ u[k] + duration <= d * DayLength + windows[n].to
    BY <2>1, WindowStartsOf
  <2> QED BY <2>2
<1>4. \A n \in DOMAIN windows : windows[n].from \in Nat /\ windows[n].to \in 0 .. 1440
  BY <1>2 DEF IsWindow, DayLength
<1> HIDE DEF of
<1>5. \A n \in DOMAIN windows : of(n) \in Seq(E)
  <2> TAKE n \in DOMAIN windows
  <2> DEFINE u == of(n)
             a == windows[n].from
             b == windows[n].to
  <2>1. /\ u \in Seq(Int) /\ a \in Nat /\ b \in 0 .. 1440
        /\ \A k \in DOMAIN u : u[k] >= d * 1440 + a /\ u[k] + duration <= d * 1440 + b
    BY <1>3, <1>4 DEF DayLength
  <2> HIDE DEF u, a, b
  <2>2. \A k \in DOMAIN u : u[k] \in Int
    BY <2>1
  <2>3. \A k \in DOMAIN u : u[k] \in E
    <3> TAKE k \in DOMAIN u
    <3> DEFINE t == u[k]
    <3>1. t \in Int /\ t >= d * 1440 + a /\ t + duration <= d * 1440 + b
      BY <2>1, <2>2
    <3> HIDE DEF t
    <3>3. d * 1440 \in Int /\ (d + 1) * 1440 = d * 1440 + 1440
      OBVIOUS
    <3> DEFINE base == d * 1440
    <3>4. base \in Int /\ t \in Int /\ a \in Nat /\ b \in Int /\ b <= 1440 /\ t >= base + a /\ t + duration <= base + b
      BY <2>1, <3>1, <3>3
    <3> HIDE DEF base
    <3>5. base <= t /\ t + duration <= base + 1440
      BY ONLY <3>4, duration \in Nat
    <3>2. d * 1440 <= t /\ t + duration <= (d + 1) * 1440
      BY <3>3, <3>5 DEF base
    <3> QED BY <3>1, <3>2 DEF DayStarts, DayLength, t
  <2> HIDE DEF E
  <2>4. u \in Seq(E)
    BY <2>1, <2>3
  <2> QED BY <2>4 DEF u
<1> HIDE DEF E
<1>6. seqs \in Seq(Seq(E)) /\ DOMAIN seqs = DOMAIN windows
  BY <1>2, <1>5
<1>7. \A n \in DOMAIN windows : seqs[n] = of(n)
  OBVIOUS
<1> HIDE DEF seqs
<1>8. all \in Seq(E)
  BY <1>6, Flattened
<1>9. ASSUME Discovery!InOrder(windows) PROVE InSequence(all, NotAfter)
  <2>1. \A m, n \in DOMAIN windows : m < n => windows[m].to <= windows[n].from
    BY <1>9 DEF Discovery!InOrder
  <2>2. ASSUME NEW m \in DOMAIN windows, NEW n \in DOMAIN windows, m < n
        PROVE  AllBefore(of(m), of(n), NotAfter)
    <3> SUFFICES ASSUME NEW k \in DOMAIN of(m), NEW l \in DOMAIN of(n)
                 PROVE  <<of(m)[k], of(n)[l]>> \in NotAfter
      BY DEF AllBefore
    <3> DEFINE t == of(m)[k]
               u == of(n)[l]
               a == windows[m].to
               b == windows[n].from
               base == d * DayLength
    <3>1. t \in Int /\ u \in Int /\ a \in Int /\ b \in Int /\ base \in Int
      <4>1. of(m) \in Seq(Int) /\ of(n) \in Seq(Int)
        BY <1>3
      <4>2. t \in Int /\ u \in Int
        BY <4>1
      <4>3. a \in Int /\ b \in Int
        <5>1. m \in DOMAIN windows /\ n \in DOMAIN windows
          BY <2>2
        <5>2. windows[m].to \in 0 .. 1440 /\ windows[n].from \in Nat
          BY ONLY <1>4, <5>1
        <5> QED BY <5>2
      <4>4. base \in Int
        BY DEF DayLength
      <4> QED BY <4>2, <4>3, <4>4
    <3>2. t + duration <= base + a /\ u >= base + b /\ a <= b
      BY <1>3, <2>1, <2>2
    <3> HIDE DEF t, u, a, b, base
    <3>3. t <= u
      BY <3>1, <3>2
    <3> QED BY <3>1, <3>3 DEF NotAfter, t, u
  <2>3. \A n \in DOMAIN seqs : InSequence(seqs[n], NotAfter)
    BY <1>3, <1>6, <1>7
  <2>4. \A m, n \in DOMAIN seqs : m < n => AllBefore(seqs[m], seqs[n], NotAfter)
    BY <1>6, <1>7, <2>2
  <2> HIDE DEF all
  <2> QED BY <1>6, <2>3, <2>4, FlattenedInOrder DEF all
<1> HIDE DEF all
<1>10. /\ Kept(all, S) \in Seq(E \cap S)
       /\ InSequence(all, NotAfter) => InSequence(Kept(all, S), NotAfter)
  <2> HIDE DEF S
  <2>1. /\ Kept(all, S) \in Seq(E \cap S)
        /\ \A j \in DOMAIN all : all[j] \in S => \E k \in DOMAIN Kept(all, S) : Kept(all, S)[k] = all[j]
        /\ InSequence(all, NotAfter) => InSequence(Kept(all, S), NotAfter)
    BY ONLY <1>8, KeptOf
  <2> QED BY <2>1
<1>11. starts \in Seq(E \cap S)
  BY <1>1, <1>10
<1>12. starts \in Seq(E) /\ \A k \in DOMAIN starts : starts[k] \in S
  <2> HIDE DEF S
  <2> QED BY <1>11
<1>13. \A k \in DOMAIN starts : starts[k] > now
  BY <1>12
<1>14. Discovery!InOrder(windows) => InSequence(starts, NotAfter)
  BY <1>1, <1>9, <1>10
<1> QED BY <1>12, <1>13, <1>14 DEF E, windows

\* A sequence with every element of S.
ListsAll(s, S) == s \in Seq(S) /\ \A x \in S : \E n \in DOMAIN s : s[n] = x

\* What a search is about: everybody is listed once.
IsScope(sc) ==
  /\ sc.query.duration \in Nat \ {0} /\ sc.now \in Nat /\ AreCalendars(sc.calendars)
  /\ ListsAll(sc.staff, Range(Staff)) /\ ListsAll(sc.fleet, Range(Fleet))
  /\ \A m, n \in DOMAIN sc.staff : m < n => sc.staff[m] # sc.staff[n]

\* The starts that an instructor may have on a day.
Starts(i, d, sc) == Discovery!DayCandidates(i, d, sc.query.duration, sc.calendars, sc.now)

\* The calendar lists the windows of a day in their order.
Orderly(i, d, sc) == Discovery!InOrder(Discovery!DayWindows(i, d, sc.calendars))

\* Candidates: an instructor and a start that is still to come.
CandidatesIn(sc) == [instructor : Range(Staff), start : {t \in Int : t > sc.now}]
CandidatesOn(d, sc) == {x \in CandidatesIn(sc) : x.start \in DayStarts(d, sc.query.duration)}

\* Pairs of candidates: those of one instructor, if orderly, in their order.
InTurn(d, sc) ==
  {p \in CandidatesIn(sc) \X CandidatesIn(sc) :
     p[1].instructor = p[2].instructor /\ Orderly(p[2].instructor, d, sc)
       => p[1].start <= p[2].start}

\* The candidates of a day: all of them, each instructor's in order.
LEMMA DayListOf ==
  ASSUME NEW sc, IsScope(sc), NEW d \in Int, NEW list, list = Discovery!DayList(d, sc)
  PROVE  /\ list \in Seq(CandidatesOn(d, sc)) /\ InSequence(list, InTurn(d, sc))
         /\ \A i \in Range(Staff) : \A m \in DOMAIN Starts(i, d, sc) :
              \E k \in DOMAIN list : list[k] = At(i, Starts(i, d, sc)[m])
<1> DEFINE staff == sc.staff
           E == CandidatesOn(d, sc)
           R == InTurn(d, sc)
           starts(i) == Starts(i, d, sc)
           of(n) == [k \in DOMAIN starts(staff[n]) |-> At(staff[n], starts(staff[n])[k])]
           seqs == [n \in DOMAIN staff |-> of(n)]
<1>1. list = FlattenSeq(seqs)
  BY DEF Discovery!DayList, Starts, Discovery!FlattenSeq, FlattenSeq, At
<1>2. /\ staff \in Seq(Range(Staff)) /\ \A i \in Range(Staff) : \E n \in DOMAIN staff : staff[n] = i
      /\ \A m, n \in DOMAIN staff : m < n => staff[m] # staff[n]
  BY DEF IsScope, ListsAll
<1>3. \A n \in DOMAIN staff : staff[n] \in Range(Staff)
  BY <1>2
<1> HIDE DEF staff
<1>4. ASSUME NEW i
      PROVE  /\ starts(i) \in Seq(DayStarts(d, sc.query.duration))
             /\ \A k \in DOMAIN starts(i) : starts(i)[k] > sc.now
             /\ Orderly(i, d, sc) => InSequence(starts(i), NotAfter)
  <2> DEFINE u == starts(i)
             cal == sc.calendars
             duration == sc.query.duration
             now == sc.now
  <2>1. u = Discovery!DayCandidates(i, d, duration, cal, now)
    BY DEF Starts
  <2>2. AreCalendars(cal) /\ duration \in Nat \ {0} /\ d \in Int
    BY DEF IsScope
  <2> HIDE DEF u, cal, duration, now
  <2>3. /\ u \in Seq(DayStarts(d, duration))
        /\ \A k \in DOMAIN u : u[k] > now
        /\ Discovery!InOrder(Discovery!DayWindows(i, d, cal)) => InSequence(u, NotAfter)
    BY ONLY <2>1, <2>2, DayCandidatesOf
  <2> QED BY <2>3 DEF Orderly, u, cal, duration, now
<1> HIDE DEF starts
<1>5. \A i : DOMAIN starts(i) = 1 .. Len(starts(i)) /\ Len(starts(i)) \in Nat
  BY <1>4
<1>6. \A i \in Range(Staff) : \A k \in DOMAIN starts(i) : At(i, starts(i)[k]) \in E
  <2> TAKE i \in Range(Staff)
  <2> TAKE k \in DOMAIN starts(i)
  <2> DEFINE t == starts(i)[k]
  <2>1. t \in DayStarts(d, sc.query.duration) /\ t > sc.now
    BY <1>4
  <2>2. t \in Int
    BY <2>1 DEF DayStarts
  <2> HIDE DEF t
  <2> QED BY <2>1, <2>2 DEF At, CandidatesOn, CandidatesIn, t
<1>7. \A n \in DOMAIN staff : /\ of(n) \in Seq(E) /\ DOMAIN of(n) = DOMAIN starts(staff[n])
                              /\ \A k \in DOMAIN of(n) : of(n)[k] = At(staff[n], starts(staff[n])[k])
  <2> HIDE DEF E
  <2> QED BY <1>3, <1>5, <1>6
<1>8. seqs \in Seq(Seq(E)) /\ DOMAIN seqs = DOMAIN staff /\ \A n \in DOMAIN staff : seqs[n] = of(n)
  <2>1. DOMAIN staff = 1 .. Len(staff) /\ Len(staff) \in Nat
    BY <1>2
  <2>2. \A n \in DOMAIN staff : of(n) \in Seq(E)
    BY <1>7
  <2> DEFINE F == Seq(E)
  <2> HIDE DEF of, F
  <2>3. seqs \in Seq(F)
    BY ONLY <2>1, <2>2 DEF F, seqs
  <2> QED BY <2>3 DEF F
<1> HIDE DEF seqs, of
<1>9. /\ list \in Seq(E)
      /\ \A n \in DOMAIN seqs : \A k \in DOMAIN seqs[n] : \E j \in DOMAIN list : list[j] = seqs[n][k]
  <2> HIDE DEF E
  <2> QED BY <1>1, <1>8, Flattened
<1>10. \A x, y : <<x, y>> \in R <=>
         /\ x \in CandidatesIn(sc) /\ y \in CandidatesIn(sc)
         /\ x.instructor = y.instructor /\ Orderly(y.instructor, d, sc) => x.start <= y.start
  BY DEF InTurn
<1>11. \A i, t : At(i, t).instructor = i /\ At(i, t).start = t
  BY DEF At
<1>12. \A n \in DOMAIN staff : \A k \in DOMAIN of(n) : of(n)[k] \in CandidatesIn(sc)
  BY <1>3, <1>6, <1>7 DEF CandidatesOn
<1> HIDE DEF R, E
<1>13. ASSUME NEW n \in DOMAIN staff PROVE InSequence(of(n), R)
  <2> SUFFICES ASSUME NEW k \in DOMAIN of(n), NEW l \in DOMAIN of(n), k < l
               PROVE  <<of(n)[k], of(n)[l]>> \in R
    BY DEF InSequence
  <2> DEFINE i == staff[n]
  <2>1. k \in DOMAIN starts(i) /\ l \in DOMAIN starts(i) /\ of(n)[k] = At(i, starts(i)[k]) /\ of(n)[l] = At(i, starts(i)[l])
    BY <1>7, <1>13
  <2>2. Orderly(i, d, sc) => starts(i)[k] <= starts(i)[l]
    BY <1>4, <2>1 DEF InSequence, NotAfter
  <2>3. of(n)[k] \in CandidatesIn(sc) /\ of(n)[l] \in CandidatesIn(sc)
    BY <1>12, <1>13
  <2> HIDE DEF i
  <2> QED BY <1>10, <1>11, <2>1, <2>2, <2>3
<1>14. ASSUME NEW m \in DOMAIN staff, NEW n \in DOMAIN staff, m < n PROVE AllBefore(of(m), of(n), R)
  <2> SUFFICES ASSUME NEW k \in DOMAIN of(m), NEW l \in DOMAIN of(n)
               PROVE  <<of(m)[k], of(n)[l]>> \in R
    BY DEF AllBefore
  <2>1. of(m)[k].instructor # of(n)[l].instructor
    BY <1>2, <1>7, <1>11, <1>14
  <2>2. of(m)[k] \in CandidatesIn(sc) /\ of(n)[l] \in CandidatesIn(sc)
    BY <1>12, <1>14
  <2> QED BY <1>10, <2>1, <2>2
<1>15. InSequence(list, R)
  <2>1. \A n \in DOMAIN seqs : InSequence(seqs[n], R)
    BY <1>8, <1>13
  <2>2. \A m, n \in DOMAIN seqs : m < n => AllBefore(seqs[m], seqs[n], R)
    BY <1>8, <1>14
  <2> QED BY <1>1, <1>8, <2>1, <2>2, FlattenedInOrder
<1>16. ASSUME NEW i \in Range(Staff), NEW m \in DOMAIN starts(i)
       PROVE  \E k \in DOMAIN list : list[k] = At(i, starts(i)[m])
  <2>1. PICK n \in DOMAIN staff : staff[n] = i
    BY <1>2
  <2>2. n \in DOMAIN seqs /\ m \in DOMAIN seqs[n] /\ seqs[n][m] = At(i, starts(i)[m])
    BY <1>7, <1>8, <1>16, <2>1
  <2> QED BY <1>9, <2>2
<1> QED BY <1>9, <1>15, <1>16 DEF R, E, starts

\* The time of a flight that starts at t.
TimeOf(t, sc) == [start |-> t, end |-> t + sc.query.duration]

\* A reservation that is known is in the way.
Conflicts(t, field, resource, sc) ==
  Discovery!HasResourceConflict(TimeOf(t, sc), field, resource, sc.reservations)

\* A candidate cannot be had.
Unavailable(x, sc) ==
  \/ ~Discovery!IsDaylight(TimeOf(x.start, sc))
  \/ Conflicts(x.start, "instructor", x.instructor, sc)
  \/ Conflicts(x.start, "student", sc.query.student, sc)
  \/ \A a \in Range(Fleet) : Conflicts(x.start, "aircraft", a, sc)

\* A slot that was found is in a candidate's way.
Meets(f, x, sc) == f.instructor = x.instructor /\ Discovery!Overlap(TimeOf(x.start, sc), f)

\* A candidate cannot be had, or is found, or another in its place.
Settled(found, x, sc) == Unavailable(x, sc) \/ \E n \in DOMAIN found : Meets(found[n], x, sc)

\* Slots of free instructors and aircraft.
FreeSlots(sc) ==
  {f \in [start : Int, end : Int, score : Int, instructor : Range(Staff), aircraft : Range(Fleet)] :
     /\ f.end = f.start + sc.query.duration
     /\ ~Conflicts(f.start, "instructor", f.instructor, sc)
     /\ ~Conflicts(f.start, "aircraft", f.aircraft, sc)}

\* An instructor is busy until the end of a slot that is found.
BusyUntil(busy, i, found) ==
  busy[i] = 0 \/ \E n \in DOMAIN found : found[n].instructor = i /\ found[n].end = busy[i]

\* The states of a search.
States(sc) ==
  {s \in [busy : [Range(Staff) -> Int], found : Seq(FreeSlots(sc))] :
     \A i \in Range(Staff) : BusyUntil(s.busy, i, s.found)}

\* What was found stays found.
Continues(next, found) ==
  Len(next) >= Len(found) /\ \A n \in DOMAIN found : n \in DOMAIN next /\ next[n] = found[n]

\* What is new is the candidate's.
AddsOnly(next, found, x) ==
  \A n \in DOMAIN next : n \in DOMAIN found \/ (next[n].instructor = x.instructor /\ next[n].start = x.start)

\* No slot of the candidate's instructor that is found is later.
ComesLast(x, found) ==
  \A n \in DOMAIN found : found[n].instructor = x.instructor => found[n].start <= x.start

\* What is settled stays settled.
LEMMA SettledStays ==
  ASSUME NEW sc, NEW found, NEW next, Continues(next, found), NEW x, Settled(found, x, sc)
  PROVE  Settled(next, x, sc)
<1>1. CASE Unavailable(x, sc)
  BY <1>1 DEF Settled
<1>2. CASE \E n \in DOMAIN found : Meets(found[n], x, sc)
  BY <1>2 DEF Settled, Continues
<1> QED BY <1>1, <1>2 DEF Settled

\* A candidate is accepted, or cannot be had; what is found stays.
LEMMA Accepted ==
  ASSUME NEW sc, IsScope(sc), NEW s \in States(sc), NEW x \in CandidatesIn(sc),
         NEW next, next = Discovery!Accept(s, x, sc)
  PROVE  /\ next \in States(sc) /\ Continues(next.found, s.found)
         /\ AddsOnly(next.found, s.found, x)
         /\ ComesLast(x, s.found) => Settled(next.found, x, sc)
<1> DEFINE time == TimeOf(x.start, sc)
           fleet == sc.fleet
           free == {n \in DOMAIN fleet : ~Conflicts(x.start, "aircraft", fleet[n], sc)}
           craft == fleet[Discovery!Min(free)]
           score == Discovery!SlotScore([start |-> x.start, instructor |-> x.instructor, aircraft |-> craft],
                                        sc.query, sc.last, sc.ahead)
           slot == [start |-> x.start, end |-> time.end, score |-> score,
                    instructor |-> x.instructor, aircraft |-> craft]
           blocked == \/ ~Discovery!IsDaylight(time)
                      \/ Conflicts(x.start, "instructor", x.instructor, sc)
                      \/ Conflicts(x.start, "student", sc.query.student, sc)
                      \/ free = {}
           done == [busy |-> [s.busy EXCEPT ![x.instructor] = time.end],
                    found |-> Append(s.found, slot)]
<1>1. next = IF x.start < s.busy[x.instructor] \/ blocked THEN s ELSE done
  BY DEF Discovery!Accept, TimeOf, Conflicts
<1>2. /\ fleet \in Seq(Range(Fleet)) /\ \A a \in Range(Fleet) : \E n \in DOMAIN fleet : fleet[n] = a
      /\ sc.query.duration \in Nat \ {0} /\ sc.now \in Nat
  BY DEF IsScope, ListsAll
<1>3. x.instructor \in Range(Staff) /\ x.start \in Int /\ x.start > 0
  BY <1>2 DEF CandidatesIn
<1>4. /\ s = [busy |-> s.busy, found |-> s.found]
      /\ s.busy \in [Range(Staff) -> Int] /\ s.found \in Seq(FreeSlots(sc))
      /\ \A i \in Range(Staff) : BusyUntil(s.busy, i, s.found)
  BY DEF States
<1>5. time.start = x.start /\ time.end = x.start + sc.query.duration /\ time.end \in Int
  BY <1>2, <1>3 DEF TimeOf
<1>6. blocked => Unavailable(x, sc)
  BY <1>2 DEF Unavailable
<1>7. CASE next = s /\ (blocked \/ x.start < s.busy[x.instructor])
  <2>1. Continues(next.found, s.found) /\ AddsOnly(next.found, s.found, x)
    BY <1>4, <1>7 DEF Continues, AddsOnly
  <2>2. ASSUME ComesLast(x, s.found) PROVE Settled(next.found, x, sc)
    <3>1. CASE blocked
      BY <1>6, <3>1 DEF Settled
    <3>2. CASE x.start < s.busy[x.instructor]
      <4>1. s.busy[x.instructor] # 0
        BY <1>3, <3>2
      <4>2. PICK n \in DOMAIN s.found : /\ s.found[n].instructor = x.instructor
                                        /\ s.found[n].end = s.busy[x.instructor]
        BY <1>3, <1>4, <4>1 DEF BusyUntil
      <4>3. s.found[n].start <= x.start /\ s.found[n].start \in Int
        BY <1>4, <2>2, <4>2 DEF ComesLast, FreeSlots
      <4>4. time.start < s.found[n].end /\ s.found[n].start < time.end
        BY <1>2, <1>3, <1>5, <3>2, <4>2, <4>3
      <4>5. Meets(s.found[n], x, sc)
        BY <4>2, <4>4 DEF Meets, Discovery!Overlap
      <4> QED BY <1>7, <4>5 DEF Settled
    <3> QED BY <1>7, <3>1, <3>2
  <2> QED BY <1>7, <2>1, <2>2
<1>8. CASE next = done /\ ~blocked
  <2>1. Discovery!Min(free) \in free
    <3>1. free \in SUBSET Nat /\ free # {}
      BY <1>2, <1>8
    <3> HIDE DEF free
    <3>2. \E n \in free : \A y \in free : n <= y
      BY <3>1, LeastNumber
    <3> QED BY <3>1, <3>2 DEF Discovery!Min
  <2>2. craft \in Range(Fleet) /\ ~Conflicts(x.start, "aircraft", craft, sc)
    <3> DEFINE m == Discovery!Min(free)
    <3>1. m \in DOMAIN fleet /\ ~Conflicts(x.start, "aircraft", fleet[m], sc)
      BY <2>1
    <3> HIDE DEF m, fleet
    <3>2. fleet[m] \in Range(Fleet)
      BY <1>2, <3>1
    <3> QED BY <3>1, <3>2 DEF m
  <2>3. score \in Int
    BY DEF Discovery!SlotScore
  <2>4. ~Conflicts(x.start, "instructor", x.instructor, sc)
    BY <1>8
  <2>5. Meets(slot, x, sc)
    BY <1>2, <1>3, <1>5 DEF Meets, Discovery!Overlap
  <2> HIDE DEF score, craft, blocked
  <2>6. slot \in FreeSlots(sc)
    BY <1>3, <1>5, <2>2, <2>3, <2>4 DEF FreeSlots
  <2>7. slot.start = x.start /\ slot.instructor = x.instructor /\ slot.end = time.end
    OBVIOUS
  <2> HIDE DEF slot
  <2> DEFINE found == s.found
             more == Append(found, slot)
             busy == [s.busy EXCEPT ![x.instructor] = time.end]
  <2>8. /\ more \in Seq(FreeSlots(sc)) /\ Len(more) = Len(found) + 1 /\ Len(found) \in Nat
        /\ DOMAIN more = 1 .. (Len(found) + 1) /\ DOMAIN found = 1 .. Len(found)
        /\ more[Len(found) + 1] = slot
        /\ \A n \in 1 .. Len(found) : more[n] = found[n]
    BY <1>4, <2>6, AppendProperties
  <2>9. next.found = more /\ next.busy = busy /\ next = [busy |-> busy, found |-> more]
    BY <1>8
  <2>10. busy \in [Range(Staff) -> Int]
    BY <1>4, <1>5
  <2> HIDE DEF more, found
  <2>11. Continues(more, found)
    BY <2>8 DEF Continues
  <2>12. AddsOnly(more, found, x)
    BY <2>7, <2>8 DEF AddsOnly
  <2>13. Settled(more, x, sc)
    BY <2>5, <2>8 DEF Settled
  <2>14. \A i \in Range(Staff) : BusyUntil(busy, i, more)
    <3> TAKE i \in Range(Staff)
    <3>1. CASE i = x.instructor
      <4>1. busy[i] = time.end
        BY <1>4, <3>1
      <4> QED BY <2>7, <2>8, <3>1, <4>1 DEF BusyUntil
    <3>2. CASE i # x.instructor
      <4>1. busy[i] = s.busy[i]
        BY <1>4, <3>2
      <4>2. BusyUntil(s.busy, i, found)
        BY <1>4 DEF found
      <4> QED BY <2>8, <4>1, <4>2 DEF BusyUntil
    <3> QED BY <3>1, <3>2
  <2> HIDE DEF busy
  <2>15. next \in States(sc)
    BY <2>8, <2>9, <2>10, <2>14 DEF States
  <2> QED BY <2>9, <2>11, <2>12, <2>13, <2>15 DEF found
<1> QED BY <1>1, <1>7, <1>8

\* The candidates of a list, one after the other.
AcceptAll(s, list, sc) ==
  Discovery!FoldLeft(LAMBDA a, c : Discovery!Accept(a, c, sc), s, list)

\* The states in between.
AcceptsEach(trace, s, list, sc) ==
  trace[0] = s /\ \A k \in 1 .. Len(list) : trace[k] = Discovery!Accept(trace[k - 1], list[k], sc)

\* A turn of the solver goes through a state for each candidate.
LEMMA AcceptsInTurn ==
  ASSUME NEW sc, IsScope(sc), NEW s \in States(sc), NEW list \in Seq(CandidatesIn(sc)),
         NEW next, next = AcceptAll(s, list, sc)
  PROVE  \E trace : AcceptsEach(trace, s, list, sc) /\ trace[Len(list)] = next
<1> DEFINE n == Len(list)
           A == States(sc)
           E == CandidatesIn(sc)
           Add(a, x) == Discovery!Accept(a, x, sc)
           step(h, p) == IF p = {} THEN s ELSE Add(h[p \ {Max(p)}], list[Max(p)])
           H == CHOOSE h : h = [p \in SUBSET (1 .. n) |-> step(h, p)]
<1>1. n \in Nat /\ DOMAIN list = 1 .. n /\ list \in [1 .. n -> E]
  OBVIOUS
<1>2. next = H[1 .. n]
  <2>1. next = (CHOOSE h : h = [p \in SUBSET DOMAIN list |-> step(h, p)])[DOMAIN list]
    BY DEF AcceptAll, Discovery!FoldLeft, Discovery!MapThenFoldSet, Discovery!Max, Max
  <2> QED BY <1>1, <2>1
<1>3. H = [p \in SUBSET (1 .. n) |-> step(H, p)]
  <2> DEFINE f == [p \in A \X E |-> Add(p[1], p[2])]
  <2>1. \A a \in A, x \in E : Add(a, x) \in A
    BY Accepted
  <2>3. s \in A
    OBVIOUS
  <2> HIDE DEF A, E, Add, n
  <2>2. f \in [A \X E -> A]
    BY <2>1
  <2>4. PICK g \in [SUBSET (1 .. n) -> A] : FoldsOver(g, f, s, list, n)
    <3> HIDE DEF f
    <3> QED BY <1>1, <2>2, <2>3, FoldExists
  <2>5. \A p \in SUBSET (1 .. n) : g[p] = step(g, p)
    <3> TAKE p \in SUBSET (1 .. n)
    <3>1. CASE p = {}
      BY <2>4, <3>1 DEF FoldsOver
    <3>2. CASE p # {}
      <4>1. Max(p) \in 1 .. n /\ p \ {Max(p)} \in SUBSET (1 .. n)
        BY <1>1, <3>2, LastPosition
      <4>2. <<g[p \ {Max(p)}], list[Max(p)]>> \in A \X E
        BY <1>1, <4>1
      <4> QED BY <2>4, <3>2, <4>2 DEF FoldsOver
    <3> QED BY <3>1, <3>2
  <2>6. g = [p \in SUBSET (1 .. n) |-> step(g, p)]
    <3> HIDE DEF step
    <3> QED BY <2>5
  <2> HIDE DEF step
  <2> QED BY <2>6
<1> HIDE DEF H
<1> DEFINE trace == [k \in 0 .. n |-> H[1 .. k]]
<1>4. trace[0] = s /\ trace[n] = next
  <2>1. 1 .. 0 = {} /\ {} \in SUBSET (1 .. n)
    OBVIOUS
  <2>2. H[1 .. 0] = s
    BY <1>3, <2>1
  <2> HIDE DEF n
  <2> QED BY <1>1, <1>2, <2>2
<1>5. ASSUME NEW k \in 1 .. n PROVE trace[k] = Add(trace[k - 1], list[k])
  <2>1. /\ 1 .. k \in SUBSET (1 .. n) /\ 1 .. k # {} /\ Max(1 .. k) = k
        /\ (1 .. k) \ {k} = 1 .. (k - 1)
    BY <1>1, <1>5, Segments
  <2>2. H[1 .. k] = Add(H[1 .. (k - 1)], list[k])
    BY <1>3, <2>1
  <2>3. trace[k] = H[1 .. k] /\ trace[k - 1] = H[1 .. (k - 1)]
    <3> HIDE DEF n
    <3> QED BY <1>1, <1>5
  <2> QED BY <2>2, <2>3
<1> HIDE DEF trace
<1>6. AcceptsEach(trace, s, list, sc)
  BY <1>4, <1>5 DEF AcceptsEach
<1> QED BY <1>4, <1>6

\* The slots found are between two days.
Within(found, from, to) ==
  \A n \in DOMAIN found : from * DayLength <= found[n].start /\ found[n].end <= to * DayLength

\* The candidates of an orderly day that are settled.
DaySettled(found, d, sc) ==
  \A i \in Range(Staff) : Orderly(i, d, sc) =>
    \A m \in DOMAIN Starts(i, d, sc) : Settled(found, At(i, Starts(i, d, sc)[m]), sc)

\* What was found and what is not of earlier candidates is on the day.
SettlesDay(next, found, d, sc) ==
  /\ Continues(next, found)
  /\ \A from \in Int : from <= d /\ Within(found, from, d) =>
       Within(next, from, d + 1) /\ DaySettled(next, d, sc)

\* After a day its candidates are settled.
LEMMA DaySearched ==
  ASSUME NEW sc, IsScope(sc), NEW s \in States(sc), NEW d \in Int,
         NEW next, next = AcceptAll(s, Discovery!DayList(d, sc), sc)
  PROVE  next \in States(sc) /\ SettlesDay(next.found, s.found, d, sc)
<1> DEFINE list == Discovery!DayList(d, sc)
           n == Len(list)
<1>1. /\ list \in Seq(CandidatesOn(d, sc)) /\ InSequence(list, InTurn(d, sc))
      /\ \A i \in Range(Staff) : \A m \in DOMAIN Starts(i, d, sc) :
           \E k \in DOMAIN list : list[k] = At(i, Starts(i, d, sc)[m])
  BY DayListOf
<1> HIDE DEF list
<1>2. list \in Seq(CandidatesIn(sc))
  BY <1>1 DEF CandidatesOn
<1>3. n \in Nat /\ DOMAIN list = 1 .. n /\ \A k \in 1 .. n : list[k] \in CandidatesOn(d, sc) /\ list[k] \in CandidatesIn(sc)
  BY <1>1, <1>2
<1>4. PICK trace : AcceptsEach(trace, s, list, sc) /\ trace[n] = next
  <2>1. next = AcceptAll(s, list, sc)
    BY DEF list
  <2> QED BY <1>2, <2>1, AcceptsInTurn
<1> DEFINE found == s.found
           Early == \A m \in DOMAIN found : found[m].start < d * DayLength
           Origin(g, k) ==
             \A m \in DOMAIN g : \/ m \in DOMAIN found /\ g[m] = found[m]
                                 \/ \E j \in 1 .. k : g[m].start = list[j].start /\ g[m].instructor = list[j].instructor
           AllSettled(g, k) ==
             \A j \in 1 .. k : Orderly(list[j].instructor, d, sc) => Settled(g, list[j], sc)
           Fine(k) == /\ trace[k] \in States(sc) /\ Continues(trace[k].found, found)
                      /\ Origin(trace[k].found, k)
                      /\ Early => AllSettled(trace[k].found, k)
           T == {k \in Nat : k <= n => Fine(k)}
<1>5. found \in Seq(FreeSlots(sc)) /\ Len(found) \in Nat /\ DOMAIN found = 1 .. Len(found)
  BY DEF States
<1> HIDE DEF found, Early
<1>6. 0 \in T
  <2>1. trace[0] = s /\ s.found = found
    BY <1>4 DEF AcceptsEach, found
  <2>2. Continues(found, found)
    BY <1>5 DEF Continues
  <2>3. Origin(found, 0) /\ AllSettled(found, 0)
    OBVIOUS
  <2>4. Fine(0)
    BY <2>1, <2>2, <2>3
  <2> HIDE DEF Fine
  <2> QED BY <2>4
<1>7. ASSUME NEW k \in Nat, k \in T PROVE k + 1 \in T
  <2> SUFFICES ASSUME k + 1 <= n PROVE Fine(k + 1)
    OBVIOUS
  <2>1. k + 1 \in 1 .. n /\ (k + 1) - 1 = k /\ k <= n
    BY <1>3
  <2>2. Fine(k)
    BY <1>7, <2>1
  <2> DEFINE a == trace[k]
             b == trace[k + 1]
             g == a.found
             h == b.found
             x == list[k + 1]
  <2>3. b = Discovery!Accept(a, x, sc)
    BY <1>4, <2>1 DEF AcceptsEach
  <2>4. a \in States(sc) /\ Continues(g, found) /\ Origin(g, k) /\ (Early => AllSettled(g, k))
    BY <2>2
  <2>5. x \in CandidatesIn(sc) /\ x \in CandidatesOn(d, sc)
    BY <1>3, <2>1
  <2>6. /\ b \in States(sc) /\ Continues(h, g) /\ AddsOnly(h, g, x)
        /\ ComesLast(x, g) => Settled(h, x, sc)
    <3> HIDE DEF a, b, x
    <3> QED BY ONLY IsScope(sc), <2>3, <2>4, <2>5, Accepted
  <2>7. \A j \in 1 .. (k + 1) : j \in 1 .. k \/ list[j] = x
    OBVIOUS
  <2>15. list[k + 1] = x /\ k + 1 \in 1 .. (k + 1) /\ \A j \in 1 .. k : j \in 1 .. (k + 1)
    OBVIOUS
  <2> HIDE DEF a, b, x, Fine
  <2>8. /\ Len(g) \in Nat /\ Len(h) \in Nat
        /\ \A m \in DOMAIN g : g[m].start \in Int
    BY <2>4, <2>6 DEF States, FreeSlots
  <2> HIDE DEF g, h
  <2>9. Continues(h, found)
    BY <1>5, <2>4, <2>6, <2>8 DEF Continues
  <2>10. Origin(h, k + 1)
    <3> SUFFICES ASSUME NEW m \in DOMAIN h
                 PROVE  \/ m \in DOMAIN found /\ h[m] = found[m]
                        \/ \E j \in 1 .. (k + 1) : h[m].start = list[j].start /\ h[m].instructor = list[j].instructor
      OBVIOUS
    <3>1. CASE m \in DOMAIN g
      <4>1. h[m] = g[m]
        BY <2>6, <3>1 DEF Continues
      <4> QED BY <2>4, <2>15, <3>1, <4>1
    <3>2. CASE m \notin DOMAIN g
      BY <2>6, <2>15, <3>2 DEF AddsOnly
    <3> QED BY <3>1, <3>2
  <2>11. ASSUME Early, Orderly(x.instructor, d, sc) PROVE ComesLast(x, g)
    <3> SUFFICES ASSUME NEW m \in DOMAIN g, g[m].instructor = x.instructor PROVE g[m].start <= x.start
      BY DEF ComesLast
    <3>1. CASE m \in DOMAIN found /\ g[m] = found[m]
      <4>1. g[m].start < d * DayLength
        BY <2>11, <3>1 DEF Early
      <4>2. x.start \in Int /\ d * DayLength <= x.start
        BY <2>5 DEF CandidatesOn, DayStarts
      <4>3. d * DayLength \in Int /\ g[m].start \in Int
        BY <2>8 DEF DayLength
      <4> QED BY <4>1, <4>2, <4>3
    <3>2. CASE \E j \in 1 .. k : g[m].start = list[j].start /\ g[m].instructor = list[j].instructor
      <4>1. PICK j \in 1 .. k : g[m].start = list[j].start /\ g[m].instructor = list[j].instructor
        BY <3>2
      <4>2. j \in DOMAIN list /\ k + 1 \in DOMAIN list /\ j < k + 1
        BY <1>3, <2>1
      <4>3. <<list[j], x>> \in InTurn(d, sc)
        BY <1>1, <2>15, <4>2 DEF InSequence
      <4> QED BY <2>11, <4>1, <4>3 DEF InTurn
    <3> QED BY <2>4, <3>1, <3>2
  <2>12. ASSUME Early PROVE AllSettled(h, k + 1)
    <3> SUFFICES ASSUME NEW j \in 1 .. (k + 1), Orderly(list[j].instructor, d, sc)
                 PROVE  Settled(h, list[j], sc)
      OBVIOUS
    <3>1. CASE j \in 1 .. k
      <4>1. Settled(g, list[j], sc)
        BY <2>4, <2>12, <3>1
      <4> QED BY <2>6, <4>1, SettledStays
    <3>2. CASE list[j] = x
      BY <2>6, <2>11, <2>12, <3>2
    <3> QED BY <2>7, <3>1, <3>2
  <2> HIDE DEF Origin, AllSettled
  <2> QED BY <2>6, <2>9, <2>10, <2>12 DEF Fine, b, h
<1> HIDE DEF T
<1>8. Nat \subseteq T
  BY <1>6, <1>7, SetInduction
<1>9. Fine(n)
  <2> HIDE DEF Fine
  <2> QED BY <1>3, <1>8 DEF T
<1> DEFINE g == next.found
<1>10. next \in States(sc) /\ Continues(g, found) /\ Origin(g, n) /\ (Early => AllSettled(g, n))
  BY <1>4, <1>9
<1>11. g \in Seq(FreeSlots(sc)) /\ Len(g) \in Nat
  BY <1>10 DEF States
<1> HIDE DEF g, n
<1>12. ASSUME NEW from \in Int, from <= d, Within(found, from, d)
       PROVE  Within(g, from, d + 1) /\ DaySettled(g, d, sc)
  <2> DEFINE lo == from * DayLength
             mid == d * DayLength
             hi == (d + 1) * DayLength
             duration == sc.query.duration
  <2>1. lo \in Int /\ mid \in Int /\ hi \in Int /\ lo <= mid /\ mid <= hi
    BY <1>12 DEF DayLength
  <2>2. duration \in Nat \ {0}
    BY DEF IsScope
  <2> HIDE DEF lo, mid, hi, duration
  <2>3. \A m \in DOMAIN found : /\ found[m].start \in Int /\ found[m].end = found[m].start + duration
                                /\ lo <= found[m].start /\ found[m].end <= mid
    BY <1>5, <1>12 DEF Within, FreeSlots, lo, mid, duration
  <2>4. Early
    BY <2>1, <2>2, <2>3 DEF Early, mid
  <2>5. \A m \in DOMAIN g : g[m].end = g[m].start + duration /\ g[m].start \in Int
    BY <1>11 DEF FreeSlots, duration
  <2>6. \A j \in 1 .. n : list[j].start \in Int /\ mid <= list[j].start /\ list[j].start + duration <= hi
    BY <1>3 DEF CandidatesOn, DayStarts, mid, hi, duration
  <2>7. \A m \in DOMAIN g : lo <= g[m].start /\ g[m].end <= hi
    <3> TAKE m \in DOMAIN g
    <3>1. CASE m \in DOMAIN found /\ g[m] = found[m]
      BY <2>1, <2>2, <2>3, <3>1
    <3>2. CASE \E j \in 1 .. n : g[m].start = list[j].start /\ g[m].instructor = list[j].instructor
      BY <2>1, <2>2, <2>5, <2>6, <3>2
    <3> QED BY <1>10, <3>1, <3>2
  <2>8. Within(g, from, d + 1)
    BY <2>7 DEF Within, lo, hi
  <2>9. ASSUME NEW i \in Range(Staff), Orderly(i, d, sc), NEW m \in DOMAIN Starts(i, d, sc)
        PROVE  Settled(g, At(i, Starts(i, d, sc)[m]), sc)
    <3>1. PICK k \in DOMAIN list : list[k] = At(i, Starts(i, d, sc)[m])
      BY <1>1, <2>9
    <3>2. list[k].instructor = i
      BY <3>1 DEF At
    <3> QED BY <1>3, <1>10, <2>4, <2>9, <3>1, <3>2
  <2> QED BY <2>8, <2>9 DEF DaySettled
<1> QED BY <1>10, <1>12 DEF SettlesDay, g, found

\* A day is searched unless enough is found.
LEMMA DaySearchedOrNot ==
  ASSUME NEW sc, IsScope(sc), NEW s \in States(sc), NEW d \in Int,
         NEW next, next = Discovery!SearchDay(s, d, sc)
  PROVE  /\ next \in States(sc)
         /\ \/ Len(s.found) >= 3 * MaxResults /\ next = s
            \/ SettlesDay(next.found, s.found, d, sc)
<1>1. next = IF Len(s.found) >= 3 * MaxResults THEN s ELSE AcceptAll(s, Discovery!DayList(d, sc), sc)
  BY DEF Discovery!SearchDay, AcceptAll, Discovery!FoldLeft, Discovery!MapThenFoldSet
<1>2. CASE Len(s.found) >= 3 * MaxResults
  BY <1>1, <1>2
<1>3. CASE ~(Len(s.found) >= 3 * MaxResults)
  BY <1>1, <1>3, DaySearched
<1> QED BY <1>2, <1>3

\* The days from one on, one after the other.
SearchDays(s, dates, sc) ==
  Discovery!FoldLeft(LAMBDA a, d : Discovery!SearchDay(a, d, sc), s, dates)

\* The states in between.
SearchesEach(trace, s, dates, sc) ==
  trace[0] = s /\ \A k \in 1 .. Len(dates) : trace[k] = Discovery!SearchDay(trace[k - 1], dates[k], sc)

\* The solver goes through a state for each day.
LEMMA SearchesInTurn ==
  ASSUME NEW sc, IsScope(sc), NEW s \in States(sc), NEW dates \in Seq(Int),
         NEW next, next = SearchDays(s, dates, sc)
  PROVE  \E trace : SearchesEach(trace, s, dates, sc) /\ trace[Len(dates)] = next
<1> DEFINE n == Len(dates)
           A == States(sc)
           E == Int
           Add(a, d) == Discovery!SearchDay(a, d, sc)
           step(h, p) == IF p = {} THEN s ELSE Add(h[p \ {Max(p)}], dates[Max(p)])
           H == CHOOSE h : h = [p \in SUBSET (1 .. n) |-> step(h, p)]
<1>1. n \in Nat /\ DOMAIN dates = 1 .. n /\ dates \in [1 .. n -> E]
  OBVIOUS
<1>2. next = H[1 .. n]
  <2>1. next = (CHOOSE h : h = [p \in SUBSET DOMAIN dates |-> step(h, p)])[DOMAIN dates]
    BY DEF SearchDays, Discovery!FoldLeft, Discovery!MapThenFoldSet, Discovery!Max, Max
  <2> QED BY <1>1, <2>1
<1>3. H = [p \in SUBSET (1 .. n) |-> step(H, p)]
  <2> DEFINE f == [p \in A \X E |-> Add(p[1], p[2])]
  <2>1. \A a \in A, d \in E : Add(a, d) \in A
    BY DaySearchedOrNot
  <2>3. s \in A
    OBVIOUS
  <2> HIDE DEF A, E, Add, n
  <2>2. f \in [A \X E -> A]
    BY <2>1
  <2>4. PICK g \in [SUBSET (1 .. n) -> A] : FoldsOver(g, f, s, dates, n)
    <3> HIDE DEF f
    <3> QED BY <1>1, <2>2, <2>3, FoldExists
  <2>5. \A p \in SUBSET (1 .. n) : g[p] = step(g, p)
    <3> TAKE p \in SUBSET (1 .. n)
    <3>1. CASE p = {}
      BY <2>4, <3>1 DEF FoldsOver
    <3>2. CASE p # {}
      <4>1. Max(p) \in 1 .. n /\ p \ {Max(p)} \in SUBSET (1 .. n)
        BY <1>1, <3>2, LastPosition
      <4>2. <<g[p \ {Max(p)}], dates[Max(p)]>> \in A \X E
        BY <1>1, <4>1
      <4> QED BY <2>4, <3>2, <4>2 DEF FoldsOver
    <3> QED BY <3>1, <3>2
  <2>6. g = [p \in SUBSET (1 .. n) |-> step(g, p)]
    <3> HIDE DEF step
    <3> QED BY <2>5
  <2> HIDE DEF step
  <2> QED BY <2>6
<1> HIDE DEF H
<1> DEFINE trace == [k \in 0 .. n |-> H[1 .. k]]
<1>4. trace[0] = s /\ trace[n] = next
  <2>1. 1 .. 0 = {} /\ {} \in SUBSET (1 .. n)
    OBVIOUS
  <2>2. H[1 .. 0] = s
    BY <1>3, <2>1
  <2> HIDE DEF n
  <2> QED BY <1>1, <1>2, <2>2
<1>5. ASSUME NEW k \in 1 .. n PROVE trace[k] = Add(trace[k - 1], dates[k])
  <2>1. /\ 1 .. k \in SUBSET (1 .. n) /\ 1 .. k # {} /\ Max(1 .. k) = k
        /\ (1 .. k) \ {k} = 1 .. (k - 1)
    BY <1>1, <1>5, Segments
  <2>2. H[1 .. k] = Add(H[1 .. (k - 1)], dates[k])
    BY <1>3, <2>1
  <2>3. trace[k] = H[1 .. k] /\ trace[k - 1] = H[1 .. (k - 1)]
    <3> HIDE DEF n
    <3> QED BY <1>1, <1>5
  <2> QED BY <2>2, <2>3
<1> HIDE DEF trace
<1>6. SearchesEach(trace, s, dates, sc)
  BY <1>4, <1>5 DEF SearchesEach
<1> QED BY <1>4, <1>6

\* What the days from one to another, which is not searched, come to.
LEMMA DaysSearched ==
  ASSUME NEW sc, IsScope(sc), NEW s \in States(sc), s.found = <<>>,
         NEW from \in Int, NEW dates \in Seq(Int),
         \A k \in DOMAIN dates : dates[k] = from + k - 1,
         NEW next, next = SearchDays(s, dates, sc)
  PROVE  /\ next \in States(sc) /\ Within(next.found, from, from + Len(dates))
         /\ Len(next.found) < 3 * MaxResults =>
              \A k \in DOMAIN dates : DaySettled(next.found, dates[k], sc)
<1> DEFINE n == Len(dates)
<1>1. n \in Nat /\ DOMAIN dates = 1 .. n
  OBVIOUS
<1>2. PICK trace : SearchesEach(trace, s, dates, sc) /\ trace[n] = next
  BY SearchesInTurn
<1> DEFINE Few(g) == Len(g) < 3 * MaxResults
           AllSettled(g, k) == \A j \in 1 .. k : DaySettled(g, dates[j], sc)
           Fine(k) == /\ trace[k] \in States(sc) /\ Within(trace[k].found, from, from + k)
                      /\ Few(trace[k].found) => AllSettled(trace[k].found, k)
           T == {k \in Nat : k <= n => Fine(k)}
<1>3. 0 \in T
  <2>1. trace[0] = s /\ DOMAIN s.found = {}
    BY <1>2 DEF SearchesEach
  <2>2. Within(s.found, from, from + 0) /\ AllSettled(s.found, 0)
    BY <2>1 DEF Within
  <2>3. Fine(0)
    BY <2>1, <2>2
  <2> HIDE DEF Fine
  <2> QED BY <2>3
<1>4. ASSUME NEW k \in Nat, k \in T PROVE k + 1 \in T
  <2> SUFFICES ASSUME k + 1 <= n PROVE Fine(k + 1)
    OBVIOUS
  <2>1. k + 1 \in 1 .. n /\ (k + 1) - 1 = k /\ k <= n
    BY <1>1
  <2>2. Fine(k)
    BY <1>4, <2>1
  <2> DEFINE a == trace[k]
             b == trace[k + 1]
             d == dates[k + 1]
             g == a.found
             h == b.found
  <2>3. b = Discovery!SearchDay(a, d, sc)
    BY <1>2, <2>1 DEF SearchesEach
  <2>4. a \in States(sc) /\ Within(g, from, from + k) /\ (Few(g) => AllSettled(g, k))
    BY <2>2
  <2>5. d = from + k /\ d \in Int /\ from <= d /\ d + 1 = from + (k + 1)
    BY <1>1, <2>1
  <2>6. \A j \in 1 .. (k + 1) : j \in 1 .. k \/ dates[j] = d
    OBVIOUS
  <2> HIDE DEF a, b, d, Fine
  <2>7. b \in States(sc) /\ ((Len(g) >= 3 * MaxResults /\ b = a) \/ SettlesDay(h, g, d, sc))
    BY ONLY IsScope(sc), <2>3, <2>4, <2>5, DaySearchedOrNot DEF g, h
  <2>8. Len(g) \in Nat /\ Len(h) \in Nat /\ MaxResults \in Nat
    <3>1. g \in Seq(FreeSlots(sc)) /\ h \in Seq(FreeSlots(sc))
      BY ONLY <2>4, <2>7 DEF States, g, h
    <3>2. Len(g) \in Nat /\ Len(h) \in Nat
      BY ONLY <3>1
    <3>3. MaxResults \in Nat
      BY ONLY DiscoveryAssumption
    <3> QED BY <3>2, <3>3
  <2>9. CASE Len(g) >= 3 * MaxResults /\ b = a
    <3>1. Within(h, from, from + (k + 1))
      <4>1. g \in Seq(FreeSlots(sc))
        BY <2>4 DEF States
      <4>2. \A m \in DOMAIN g : g[m].end \in Int
        BY <4>1 DEF FreeSlots
      <4>3. \A m \in DOMAIN g : g[m].end <= (from + k) * 1440 /\ from * 1440 <= g[m].start
        BY <2>4 DEF Within, DayLength
      <4> DEFINE u == from + k
                 lo == u * 1440
      <4>6. u \in Int /\ from + (k + 1) = u + 1
        BY ONLY k \in Nat, from \in Int
      <4> HIDE DEF u
      <4>4. lo \in Int /\ (u + 1) * 1440 = lo + 1440
        BY ONLY <4>6
      <4>5. \A m \in DOMAIN g : g[m].end <= lo + 1440
        <5>1. \A m \in DOMAIN g : g[m].end <= lo
          BY <4>3 DEF u
        <5> HIDE DEF lo, g
        <5> QED BY <4>2, <4>4, <5>1
      <4>7. \A m \in DOMAIN g : from * 1440 <= g[m].start /\ g[m].end <= (u + 1) * 1440
        <5> HIDE DEF lo
        <5> QED BY <4>3, <4>4, <4>5
      <4>8. Within(g, from, u + 1)
        BY ONLY <4>7 DEF Within, DayLength
      <4>9. h = g
        BY <2>9
      <4> QED BY ONLY <4>6, <4>8, <4>9
    <3>2. ~Few(h)
      BY <2>8, <2>9
    <3> HIDE DEF Few, AllSettled
    <3> QED BY <2>7, <3>1, <3>2 DEF Fine, b, h
  <2>10. CASE SettlesDay(h, g, d, sc)
    <3>1. Continues(h, g) /\ Within(h, from, d + 1) /\ DaySettled(h, d, sc)
      BY <2>4, <2>5, <2>10 DEF SettlesDay
    <3>2. ASSUME Few(h) PROVE AllSettled(h, k + 1)
      <4>1. Few(g)
        BY <2>8, <3>1, <3>2 DEF Continues
      <4>2. ASSUME NEW j \in 1 .. (k + 1) PROVE DaySettled(h, dates[j], sc)
        <5>1. CASE j \in 1 .. k
          <6>1. DaySettled(g, dates[j], sc)
            BY <2>4, <4>1, <5>1
          <6> QED BY <3>1, <6>1, SettledStays DEF DaySettled
        <5>2. CASE dates[j] = d
          BY <3>1, <5>2
        <5> QED BY <2>6, <4>2, <5>1, <5>2
      <4> QED BY <4>2
    <3> HIDE DEF Few, AllSettled
    <3> QED BY <2>5, <2>7, <3>1, <3>2 DEF Fine, b, h
  <2> QED BY <2>7, <2>9, <2>10
<1> HIDE DEF T
<1>5. Nat \subseteq T
  BY <1>3, <1>4, SetInduction
<1>6. Fine(n)
  <2> HIDE DEF Fine
  <2> QED BY <1>1, <1>5 DEF T
<1> QED BY <1>1, <1>2, <1>6

\* The best of the slots found: some of them, or all if they are few.
BestOf(best, found) ==
  /\ \A k \in DOMAIN best : \E j \in DOMAIN found : best[k] = found[j]
  /\ Len(best) < MaxResults =>
       /\ Len(found) < MaxResults
       /\ \A j \in DOMAIN found : \E k \in DOMAIN best : best[k] = found[j]

\* The slots found, sorted and cut.
Best(found) == Discovery!UpTo(Discovery!Sorted(found, Discovery!BetterFound), MaxResults)

\* What the sort and the cut leave.
LEMMA BestFound ==
  ASSUME NEW sc, NEW found \in Seq(FreeSlots(sc)),
         NEW best, best = Best(found)
  PROVE  best \in Seq(FreeSlots(sc)) /\ BestOf(best, found)
<1> DEFINE n == Len(found)
           D == DOMAIN found
           E == FreeSlots(sc)
           Better(i, j) == \/ found[i].score > found[j].score
                           \/ found[i].score = found[j].score /\ found[i].start < found[j].start
           Before(i, j) == Better(i, j) \/ (~Better(j, i) /\ i < j)
           R == {p \in D \X D : Before(p[1], p[2])}
           places == {<<i, Discovery!Cardinality({j \in D : Before(j, i)})>> : i \in D}
           place == [k \in D |-> (CHOOSE p \in places : p[2] = k - 1)[1]]
           sorted == [k \in D |-> found[place[k]]]
<1>1. n \in Nat /\ D = 1 .. n /\ \A i \in D : found[i] \in E
  OBVIOUS
<1>2. Discovery!Sorted(found, Discovery!BetterFound) = sorted
  <2>1. Discovery!Sorted(found, Discovery!BetterFound)
          = [k \in D |-> found[(CHOOSE p \in places : p[2] = k - 1)[1]]]
    BY DEF Discovery!Sorted, Discovery!StandsBefore, Discovery!BetterFound
  <2> HIDE DEF places, D
  <2> QED BY <2>1
<1> HIDE DEF D
<1>3. place \in [D -> D] /\ \A i \in D : \E k \in D : place[k] = i
  <2>1. \A i \in D : found[i].score \in Int /\ found[i].start \in Int
    BY <1>1 DEF FreeSlots
  <2>2. \A x \in D : ~Before(x, x)
    BY <1>1, <2>1
  <2>3. \A x, y \in D : x # y => Before(x, y) \/ Before(y, x)
    BY <1>1
  <2>4. \A x, y, z \in D : Before(x, y) /\ Before(y, z) => Before(x, z)
    BY <1>1, <2>1
  <2> HIDE DEF Before
  <2>5. \A x, y \in D : <<x, y>> \in R <=> Before(x, y)
    OBVIOUS
  <2>6. places = PlacesOf(n, R)
    <3>1. \A i \in D : {j \in D : Before(j, i)} = {j \in 1 .. n : <<j, i>> \in R}
      BY <1>1, <2>5
    <3>2. \A i \in D : Discovery!Cardinality({j \in D : Before(j, i)})
                       = Cardinality({j \in 1 .. n : <<j, i>> \in R})
      BY <3>1 DEF Discovery!Cardinality, Cardinality, Discovery!IsFiniteSet, IsFiniteSet
    <3> HIDE DEF n, R
    <3> QED BY <1>1, <3>2 DEF PlacesOf
  <2> HIDE DEF R, places
  <2>7. place = [k \in 1 .. n |-> PlaceAt(n, R, k)]
    BY <1>1, <2>6 DEF PlaceAt
  <2>8. OrdersStrictly(R, 1 .. n)
    BY <1>1, <2>2, <2>3, <2>4, <2>5 DEF OrdersStrictly
  <2> HIDE DEF place, n
  <2>9. PutsInOrder(place, R, 1 .. n)
    BY <1>1, <2>7, <2>8, PlacedInOrder
  <2> QED BY <1>1, <2>9 DEF PutsInOrder
<1> HIDE DEF place
<1>4. sorted \in Seq(E) /\ Len(sorted) = n
  BY <1>1, <1>3
<1>5. DOMAIN sorted = D /\ \A k \in D : sorted[k] = found[place[k]] /\ place[k] \in D
  BY <1>3
<1>6. MaxResults \in Nat
  BY ONLY DiscoveryAssumption
<1> HIDE DEF sorted, n, E
<1> DEFINE m == IF n < MaxResults THEN n ELSE MaxResults
<1>7. best = SubSeq(sorted, 1, m)
  <2> DEFINE all == Discovery!Sorted(found, Discovery!BetterFound)
  <2>1. best = SubSeq(all, 1, IF Len(all) < MaxResults THEN Len(all) ELSE MaxResults)
    BY DEF Best, Discovery!UpTo
  <2> HIDE DEF all
  <2> QED BY <1>2, <1>4, <2>1 DEF all
<1>8. m \in 0 .. n
  BY <1>1, <1>6
<1>11. (m < MaxResults => m = n /\ n < MaxResults)
  BY <1>1, <1>6
<1> HIDE DEF m
<1>9. best \in Seq(E) /\ Len(best) = m /\ \A k \in 1 .. m : best[k] = sorted[k]
  <2>1. \A k \in 1 .. m : k \in 1 .. Len(sorted)
    BY <1>1, <1>4, <1>8
  <2>2. 1 \in 1 .. (Len(sorted) + 1) /\ m \in 0 .. Len(sorted)
    BY <1>1, <1>4, <1>8
  <2>3. best \in Seq(E) /\ Len(best) = m
    BY <1>4, <1>7, <1>8, <1>1, SubSeqProperties
  <2>4. \A k \in 1 .. m : best[k] = sorted[k]
    BY <1>4, <1>7, <1>8, <1>1, SubSeqProperties
  <2> QED BY <2>3, <2>4
<1>10. DOMAIN best = 1 .. m /\ \A k \in 1 .. m : k \in D
  BY <1>1, <1>8, <1>9
<1>12. \A k \in DOMAIN best : \E j \in DOMAIN found : best[k] = found[j]
  <2> TAKE k \in DOMAIN best
  <2>1. k \in D /\ best[k] = sorted[k]
    BY <1>9, <1>10
  <2>2. best[k] = found[place[k]] /\ place[k] \in D
    BY <1>5, <2>1
  <2> QED BY <2>2 DEF D
<1>13. ASSUME Len(best) < MaxResults
       PROVE  n < MaxResults /\ \A j \in DOMAIN found : \E k \in DOMAIN best : best[k] = found[j]
  <2>1. m = n /\ n < MaxResults
    BY <1>9, <1>11, <1>13
  <2>2. \A j \in D : \E k \in D : sorted[k] = found[j]
    BY <1>3, <1>5
  <2>3. D = 1 .. m /\ \A k \in D : best[k] = sorted[k]
    BY <1>1, <1>9, <2>1
  <2>4. \A j \in D : \E k \in DOMAIN best : best[k] = found[j]
    BY <1>10, <2>2, <2>3
  <2> QED BY <2>1, <2>4 DEF D
<1> QED BY <1>9, <1>12, <1>13 DEF BestOf, n, E

\* Everything that matters about an answer of the solver.
LEMMA FindTimeOf ==
  ASSUME NEW query, query.duration \in Nat \ {0}, query.from \in Int, query.to \in Int,
         NEW booked, NEW cal, AreCalendars(cal), NEW recent, NEW late,
         NEW sc, sc = Discovery!Scope(query, Staff, Fleet, booked, cal, recent, NOW, late),
         NEW result, result = Discovery!FindTime(query, Staff, Fleet, booked, cal, recent, NOW, late)
  PROVE  /\ result \in Seq(FreeSlots(sc)) /\ Within(result, query.from, query.to + 1)
         /\ Len(result) < MaxResults =>
              \A d \in query.from .. query.to : DaySettled(result, d, sc)
<1> DEFINE from == query.from
           to == query.to
           none == [busy |-> [i \in Range(Staff) |-> 0], found |-> <<>>]
           dates == [n \in 1 .. (to - from + 1) |-> from + n - 1]
           all == SearchDays(none, dates, sc)
           best == Best(all.found)
<1>1. result = best
  <2> DEFINE sco == Discovery!Scope(query, Staff, Fleet, booked, cal, recent, NOW, late)
  <2>1. result = Best(SearchDays(none, dates, sco).found)
    BY Zenon DEF Best, Discovery!FindTime, SearchDays, Discovery!Range, Range
  <2> HIDE DEF none, dates
  <2> QED BY <2>1
<1>2. sc.query = query /\ sc.calendars = cal /\ sc.now = NOW
      /\ sc.staff = Discovery!Prioritized(Staff, query.instructor, recent)
      /\ sc.fleet = Discovery!Prioritized(Fleet, query.aircraft, query.aircraft)
  BY DEF Discovery!Scope
<1>3. IsScope(sc)
  <2>1. ASSUME NEW s, s \in Seq(Range(s)), NEW p, NEW q, NEW t, t = Discovery!Prioritized(s, p, q)
        PROVE  /\ ListsAll(t, Range(s))
               /\ (\A i, j \in DOMAIN s : i < j => s[i] # s[j]) => \A i, j \in DOMAIN t : i < j => t[i] # t[j]
    <3> DEFINE E == Range(s)
    <3>1. \A x \in E : \E i \in DOMAIN s : s[i] = x
      BY DEF Range
    <3>2. s \in Seq(E)
      BY <2>1
    <3> HIDE DEF E
    <3>3. /\ t \in Seq(E) /\ \A i \in DOMAIN s : \E j \in DOMAIN t : t[j] = s[i]
          /\ (\A i, j \in DOMAIN s : i < j => s[i] # s[j]) =>
               \A i, j \in DOMAIN t : i < j => t[i] # t[j]
      BY ONLY <2>1, <3>2, PrioritizedOf
    <3>4. ListsAll(t, E)
      BY <3>1, <3>3 DEF ListsAll
    <3> QED BY <3>3, <3>4 DEF E
  <2>2. /\ Staff \in Seq(Range(Staff)) /\ Fleet \in Seq(Range(Fleet)) /\ NOW \in Nat
        /\ \A m, n \in DOMAIN Staff : m < n => Staff[m] # Staff[n]
    BY ONLY DiscoveryAssumption
  <2>3. /\ ListsAll(sc.staff, Range(Staff))
        /\ \A m, n \in DOMAIN sc.staff : m < n => sc.staff[m] # sc.staff[n]
    BY <1>2, <2>1, <2>2
  <2>4. ListsAll(sc.fleet, Range(Fleet))
    BY <1>2, <2>1, <2>2
  <2> QED BY <1>2, <2>2, <2>3, <2>4 DEF IsScope
<1>4. none \in States(sc) /\ none.found = <<>>
  BY DEF States, BusyUntil
<1>5. dates \in Seq(Int) /\ \A k \in DOMAIN dates : dates[k] = from + k - 1
  <2> DEFINE n == IF to >= from THEN to - from + 1 ELSE 0
  <2>1. n \in Nat /\ 1 .. (to - from + 1) = 1 .. n
    OBVIOUS
  <2>2. dates = [k \in 1 .. n |-> from + k - 1]
    BY <2>1
  <2> HIDE DEF n
  <2>3. \A k \in 1 .. n : from + k - 1 \in Int
    OBVIOUS
  <2> HIDE DEF from, to, dates
  <2> QED BY <2>1, <2>2, <2>3
<1>6. to < from => Len(dates) = 0
  <2> SUFFICES ASSUME to < from PROVE Len(dates) = 0
    OBVIOUS
  <2>1. 1 .. (to - from + 1) = {}
    OBVIOUS
  <2>2. DOMAIN dates = {}
    BY <2>1
  <2> HIDE DEF dates
  <2> QED BY <1>5, <2>2
<1>7. to >= from => Len(dates) = to - from + 1
  <2> SUFFICES ASSUME to >= from PROVE Len(dates) = to - from + 1
    OBVIOUS
  <2>1. to - from + 1 \in Nat /\ DOMAIN dates = 1 .. (to - from + 1)
    OBVIOUS
  <2> HIDE DEF dates
  <2> QED BY <1>5, <2>1
<1>8. from \in Int /\ to \in Int
  OBVIOUS
<1> HIDE DEF none, dates, from, to
<1>9. /\ all \in States(sc) /\ Within(all.found, from, from + Len(dates))
      /\ Len(all.found) < 3 * MaxResults =>
           \A k \in DOMAIN dates : DaySettled(all.found, dates[k], sc)
  <2> HIDE DEF all
  <2> QED BY ONLY <1>3, <1>4, <1>5, <1>8, DaysSearched DEF all
<1> DEFINE found == all.found
<1>10. found \in Seq(FreeSlots(sc))
  <2> HIDE DEF all
  <2> QED BY <1>9 DEF States
<1> HIDE DEF all
<1>11. result \in Seq(FreeSlots(sc)) /\ BestOf(result, found)
  <2> HIDE DEF found
  <2> QED BY ONLY <1>1, <1>10, BestFound DEF found
<1>12. Within(result, from, to + 1)
  <2>1. CASE to < from
    <3>1. DOMAIN found = {}
      <4> SUFFICES ASSUME NEW m \in DOMAIN found PROVE FALSE
        OBVIOUS
      <4> DEFINE f == found[m]
                 base == from * DayLength
      <4>1. base <= f.start /\ f.end <= base
        <5>1. from + Len(dates) = from
          BY <1>6, <1>8, <2>1
        <5> QED BY <1>9, <5>1 DEF Within
      <4>2. f \in FreeSlots(sc)
        BY <1>10
      <4> HIDE DEF f
      <4>3. f.start \in Int /\ f.end = f.start + sc.query.duration /\ sc.query.duration \in Nat \ {0}
        BY <1>3, <4>2 DEF FreeSlots, IsScope
      <4>4. base \in Int
        BY <1>8 DEF DayLength
      <4> HIDE DEF base
      <4> QED BY <4>1, <4>3, <4>4
    <3> QED BY <1>11, <3>1 DEF BestOf, Within
  <2>2. CASE to >= from
    <3>1. from + Len(dates) = to + 1
      BY <1>7, <1>8, <2>2
    <3> QED BY <1>9, <1>11, <3>1 DEF Within, BestOf
  <2> QED BY <1>8, <2>1, <2>2
<1>13. ASSUME Len(result) < MaxResults, NEW d \in from .. to PROVE DaySettled(result, d, sc)
  <2>1. Len(found) < 3 * MaxResults
    <3>1. Len(found) < MaxResults /\ Len(found) \in Nat
      BY <1>10, <1>11, <1>13 DEF BestOf
    <3>2. MaxResults \in Nat
      BY ONLY DiscoveryAssumption
    <3> HIDE DEF found
    <3> QED BY <3>1, <3>2
  <2>2. d - from + 1 \in DOMAIN dates /\ dates[d - from + 1] = d
    <3>1. d \in Int /\ from <= d /\ d <= to
      BY <1>8, <1>13
    <3>2. DOMAIN dates = 1 .. (to - from + 1)
      BY <1>5, <1>7, <1>8, <3>1
    <3>3. d - from + 1 \in DOMAIN dates
      BY <1>8, <3>1, <3>2
    <3> QED BY <1>5, <1>8, <3>1, <3>3
  <2>3. DaySettled(found, d, sc)
    BY <1>9, <2>1, <2>2
  <2>4. \A x : Settled(found, x, sc) => Settled(result, x, sc)
    <3>1. \A j \in DOMAIN found : \E k \in DOMAIN result : result[k] = found[j]
      BY <1>11, <1>13 DEF BestOf
    <3> HIDE DEF found
    <3> QED BY <3>1 DEF Settled
  <2> QED BY <2>3, <2>4 DEF DaySettled
<1> QED BY <1>11, <1>12, <1>13 DEF from, to

--------------------------------------------------------------------------------
(* Discovery requests. *)

\* The reservations that were there all along.
Unchanged == reservationHistory \ changed

\* A slot that overlaps none of them of its instructor or aircraft.
WasFree(f) ==
  \A x \in Unchanged : Discovery!Overlap(f, x) =>
    x.instructor # f.instructor /\ x.aircraft # f.aircraft

\* What a request may offer.
Offerable ==
  {f \in [start : Int, end : Int, score : Int, instructor : Range(Staff), aircraft : Range(Fleet)] :
     WasFree(f)}

\* Reservations that were there all along are known where they matter.
Knows(range, S) == \A x \in Unchanged : Discovery!InRange(x, range) => x \in S

\* A search has missed nothing.
Thorough(s, a) == Len(s.result) < MaxResults =>
  \A i \in Discovery!Range(Staff), d \in s.range[1] .. s.range[2] :
    Discovery!InOrder(Discovery!DayWindows(i, d, s.seen)) =>
      \A t \in Discovery!Range(Discovery!DayCandidates(i, d, a.duration, s.seen, NOW)) :
        LET slot == [start |-> t, end |-> t + a.duration]
        IN \/ ~Discovery!IsDaylight(slot)
           \/ Discovery!HasResourceConflict(slot, "instructor", i, s.known)
           \/ Discovery!HasResourceConflict(slot, "student", a.student, s.known)
           \/ \A c \in Discovery!Range(Fleet) : Discovery!HasResourceConflict(slot, "aircraft", c, s.known)
           \/ \E f \in Discovery!Range(s.result) : f.instructor = i /\ Discovery!Overlap(slot, f)

\* What is certain of a request.
RequestInv(r) ==
  /\ requestAt[r] \in {"load", "search"} => ranges[r] # <<>>
  /\ requestAt[r] = "search" => Knows(Head(ranges[r]), known[r])
  /\ \A s \in searched[r] : Thorough(s, ask[r])

\* What a request is and where its slots come from.
DiscoveryTypes ==
  /\ ask \in [Requests -> Asks] /\ clock \in Clocks /\ staffCalendars \in StaffCalendars
  /\ \A x \in reservationHistory : x.start \in Int /\ x.end \in Int
  /\ ranges \in [Requests -> Seq(Int \X Int)]
  /\ DOMAIN requestAt = Requests /\ DOMAIN known = Requests /\ DOMAIN searched = Requests
  /\ slots \in [Requests -> Seq(Offerable)] /\ options \in [Requests -> Seq(Offerable)]

\* The inductive invariant: what a request has found was free all along, a
\* search misses nothing, and it knows every old reservation of its range.
DiscoveryInv == DiscoveryTypes /\ \A r \in Requests : RequestInv(r)

\* What a search is asked for, and what it knows.
ScopeOf(r, cal) ==
  Discovery!Scope(Discovery!Query(r, Head(ranges[r])), Staff, Fleet, known[r], cal, last[r], NOW, clock)

\* What the solver is asked for makes sense.
LEMMA QueryOf ==
  ASSUME DiscoveryInv, NEW r \in Requests, requestAt[r] \in {"load", "search"},
         NEW query, query = Discovery!Query(r, Head(ranges[r]))
  PROVE  /\ query.duration = ask[r].duration /\ query.student = ask[r].student
         /\ query.duration \in Nat \ {0} /\ query.from \in Int /\ query.to \in Int
         /\ query.from = Head(ranges[r])[1] /\ query.to = Head(ranges[r])[2]
         /\ ranges[r] # <<>> /\ ranges[r] \in Seq(Int \X Int)
<1> DEFINE range == Head(ranges[r])
<1>1. ranges[r] # <<>> /\ ranges[r] \in Seq(Int \X Int)
  BY DEF DiscoveryInv, DiscoveryTypes, RequestInv
<1>2. range \in Int \X Int
  BY <1>1, HeadTailProperties
<1>3. ask[r] \in Asks
  BY DEF DiscoveryInv, DiscoveryTypes
<1>4. ask[r].duration \in Nat \ {0}
  BY <1>3, DiscoveryAssumption DEF IsAsk
<1> HIDE DEF range
<1>5. /\ query.duration = ask[r].duration /\ query.student = ask[r].student
      /\ query.from = range[1] /\ query.to = range[2]
  BY DEF Discovery!Query, range
<1> QED BY <1>1, <1>2, <1>4, <1>5 DEF range

\* A search that ends has missed nothing, and found what was free all along.
LEMMA ResultOf ==
  ASSUME DiscoveryInv, NEW r \in Requests, requestAt[r] = "search",
         NEW cal \in {staffCalendars, <<>>},
         NEW result, result = Discovery!FindTime(Discovery!Query(r, Head(ranges[r])), Staff, Fleet,
                                                 known[r], cal, last[r], NOW, clock),
         NEW s, s = [range |-> Head(ranges[r]), known |-> known[r], seen |-> cal, result |-> result]
  PROVE  result \in Seq(Offerable) /\ Thorough(s, ask[r])
<1> DEFINE query == Discovery!Query(r, Head(ranges[r]))
           booked == known[r]
           recent == last[r]
           sc == Discovery!Scope(query, Staff, Fleet, booked, cal, recent, NOW, clock)
           range == Head(ranges[r])
           a == ask[r]
<1>1. /\ query.duration = a.duration /\ query.student = a.student
      /\ query.duration \in Nat \ {0} /\ query.from \in Int /\ query.to \in Int
      /\ query.from = range[1] /\ query.to = range[2]
  BY QueryOf
<1>2. AreCalendars(cal)
  <2>1. staffCalendars \in StaffCalendars
    BY DEF DiscoveryInv, DiscoveryTypes
  <2>2. AreCalendars(staffCalendars)
    BY <2>1, DiscoveryAssumption DEF AreCalendars
  <2>3. AreCalendars(<<>>)
    BY DEF AreCalendars
  <2> QED BY <2>2, <2>3
<1>3. /\ Knows(range, booked)
      /\ \A x \in Unchanged : x.start \in Int /\ x.end \in Int
  BY DEF DiscoveryInv, DiscoveryTypes, RequestInv, Unchanged
<1>4. sc.query = query /\ sc.reservations = booked /\ sc.calendars = cal /\ sc.now = NOW
  BY DEF Discovery!Scope
<1>5. result = Discovery!FindTime(query, Staff, Fleet, booked, cal, recent, NOW, clock)
  OBVIOUS
<1>6. s.range = range /\ s.known = booked /\ s.seen = cal /\ s.result = result
  OBVIOUS
<1> HIDE DEF query, booked, recent, range, a
<1>7. /\ result \in Seq(FreeSlots(sc)) /\ Within(result, query.from, query.to + 1)
      /\ Len(result) < MaxResults =>
           \A d \in query.from .. query.to : DaySettled(result, d, sc)
  <2>1. sc = Discovery!Scope(query, Staff, Fleet, booked, cal, recent, NOW, clock)
    OBVIOUS
  <2> HIDE DEF sc
  <2> QED BY ONLY <1>1, <1>2, <1>5, <2>1, FindTimeOf
<1> HIDE DEF sc
<1>8. ASSUME NEW n \in DOMAIN result PROVE result[n] \in Offerable
  <2> DEFINE f == result[n]
             from == query.from
             to == query.to
             lo == from * 1440
             hi == (to + 1) * 1440
  <2>1. f \in FreeSlots(sc)
    BY <1>7, <1>8
  <2>2. /\ f.start \in Int /\ f.end \in Int /\ f.end = f.start + query.duration
        /\ f \in [start : Int, end : Int, score : Int, instructor : Range(Staff), aircraft : Range(Fleet)]
        /\ ~Conflicts(f.start, "instructor", f.instructor, sc)
        /\ ~Conflicts(f.start, "aircraft", f.aircraft, sc)
    BY <1>4, <2>1 DEF FreeSlots
  <2>3. lo <= f.start /\ f.end <= hi
    BY <1>7, <1>8 DEF Within, DayLength
  <2>4. lo \in Int /\ hi = to * 1440 + 1440 /\ to * 1440 \in Int
    <3>1. from \in Int /\ to \in Int
      BY <1>1
    <3> HIDE DEF from, to
    <3> QED BY ONLY <3>1
  <2>5. TimeOf(f.start, sc).start = f.start /\ TimeOf(f.start, sc).end = f.end
    BY <1>4, <2>2 DEF TimeOf
  <2> DEFINE top == to * 1440
  <2> HIDE DEF f, lo, hi, top
  <2>6. ASSUME NEW x \in Unchanged, Discovery!Overlap(f, x)
        PROVE  x.instructor # f.instructor /\ x.aircraft # f.aircraft
    <3>1. f.start < x.end /\ x.start < f.end /\ x.start \in Int /\ x.end \in Int
      BY <1>3, <2>6 DEF Discovery!Overlap
    <3>2. x.start <= top + 1439 /\ x.end >= lo
      <4>1. hi = top + 1440 /\ top \in Int /\ lo \in Int
        BY <2>4 DEF top
      <4> QED BY <2>2, <2>3, <3>1, <4>1
    <3>3. Discovery!InRange(x, range)
      BY <1>1, <3>2 DEF Discovery!InRange, Discovery!DayLength, lo, top
    <3>4. x \in sc.reservations
      BY <1>3, <1>4, <3>3 DEF Knows
    <3>5. Discovery!Overlap(TimeOf(f.start, sc), x)
      BY <2>5, <3>1 DEF Discovery!Overlap
    <3> QED BY <2>2, <3>4, <3>5 DEF Conflicts, Discovery!HasResourceConflict
  <2> QED BY <2>2, <2>6 DEF Offerable, WasFree, f
<1>9. result \in Seq(Offerable)
  <2> HIDE DEF Offerable
  <2> QED BY <1>7, <1>8
<1>10. ASSUME Len(result) < MaxResults,
              NEW i \in Discovery!Range(Staff), NEW d \in range[1] .. range[2],
              Discovery!InOrder(Discovery!DayWindows(i, d, cal)),
              NEW t \in Discovery!Range(Discovery!DayCandidates(i, d, a.duration, cal, NOW))
       PROVE  Settled(result, At(i, t), sc)
  <2>1. i \in Range(Staff)
    BY <1>10 DEF Discovery!Range, Range
  <2>2. Orderly(i, d, sc) /\ Starts(i, d, sc) = Discovery!DayCandidates(i, d, a.duration, cal, NOW)
    BY <1>1, <1>4, <1>10 DEF Orderly, Starts
  <2>3. \E m \in DOMAIN Starts(i, d, sc) : Starts(i, d, sc)[m] = t
    BY <1>10, <2>2 DEF Discovery!Range
  <2>4. DaySettled(result, d, sc)
    BY <1>1, <1>7, <1>10
  <2> QED BY <2>1, <2>2, <2>3, <2>4 DEF DaySettled
<1>11. ASSUME NEW i, NEW t, Settled(result, At(i, t), sc)
       PROVE  LET slot == [start |-> t, end |-> t + a.duration]
              IN \/ ~Discovery!IsDaylight(slot)
                 \/ Discovery!HasResourceConflict(slot, "instructor", i, booked)
                 \/ Discovery!HasResourceConflict(slot, "student", a.student, booked)
                 \/ \A c \in Discovery!Range(Fleet) : Discovery!HasResourceConflict(slot, "aircraft", c, booked)
                 \/ \E f \in Discovery!Range(result) : f.instructor = i /\ Discovery!Overlap(slot, f)
  <2> DEFINE slot == [start |-> t, end |-> t + a.duration]
  <2>1. TimeOf(At(i, t).start, sc) = slot /\ At(i, t).instructor = i /\ At(i, t).start = t
    BY <1>1, <1>4 DEF TimeOf, At
  <2> HIDE DEF slot
  <2>2. CASE Unavailable(At(i, t), sc)
    <3>1. \/ ~Discovery!IsDaylight(slot)
          \/ Discovery!HasResourceConflict(slot, "instructor", i, booked)
          \/ Discovery!HasResourceConflict(slot, "student", a.student, booked)
          \/ \A c \in Range(Fleet) : Discovery!HasResourceConflict(slot, "aircraft", c, booked)
      BY <1>1, <1>4, <2>1, <2>2 DEF Unavailable, Conflicts
    <3> QED BY <3>1 DEF slot, Discovery!Range, Range
  <2>3. CASE \E n \in DOMAIN result : Meets(result[n], At(i, t), sc)
    <3>1. PICK n \in DOMAIN result : Meets(result[n], At(i, t), sc)
      BY <2>3
    <3>2. result[n].instructor = i /\ Discovery!Overlap(slot, result[n])
      BY <2>1, <3>1 DEF Meets
    <3>3. result[n] \in Discovery!Range(result)
      BY <3>1 DEF Discovery!Range
    <3> QED BY <3>2, <3>3 DEF slot
  <2> QED BY <1>11, <2>2, <2>3 DEF Settled
<1>12. Thorough(s, a)
  BY <1>6, <1>10, <1>11 DEF Thorough
<1> QED BY <1>9, <1>12 DEF a

\* No request has found anything when it begins.
LEMMA DiscoveryInitially == Discovery!Init => DiscoveryInv
<1> SUFFICES ASSUME Discovery!Init PROVE DiscoveryInv
  OBVIOUS
<1>1. /\ ask \in [Requests -> Asks] /\ clock \in Clocks /\ reservationHistory \in Booked
      /\ staffCalendars \in StaffCalendars
      /\ requestAt = [r \in Requests |-> "idle"] /\ ranges = [r \in Requests |-> <<>>]
      /\ known = [r \in Requests |-> {}] /\ slots = [r \in Requests |-> <<>>]
      /\ searched = [r \in Requests |-> {}] /\ options = [r \in Requests |-> <<>>]
  BY DEF Discovery!Init
<1>2. \A x \in reservationHistory : x.start \in Int /\ x.end \in Int
  <2>1. \A x \in (UNION Booked) \cup Bookable : x.start \in Int /\ x.end \in Int
    BY ONLY DiscoveryAssumption
  <2> QED BY <1>1, <2>1
<1>3. \A S : <<>> \in Seq(S)
  OBVIOUS
<1>4. DiscoveryTypes
  <2>1. ranges \in [Requests -> Seq(Int \X Int)]
    BY <1>1, <1>3
  <2> DEFINE O == Seq(Offerable)
  <2>2. <<>> \in O
    BY <1>3
  <2> HIDE DEF O
  <2>3. slots \in [Requests -> O] /\ options \in [Requests -> O]
    BY <1>1, <2>2
  <2> QED BY <1>1, <1>2, <2>1, <2>3 DEF DiscoveryTypes, O
<1>5. \A r \in Requests : RequestInv(r)
  BY <1>1 DEF RequestInv
<1> QED BY <1>4, <1>5 DEF DiscoveryInv

\* The environment that requests run in.
Settings == <<ask, clock, reservationHistory, staffCalendars, changed>>

\* One request moves, nothing is booked.
MovesAlone(r) ==
  /\ UNCHANGED Settings
  /\ DOMAIN requestAt' = Requests /\ DOMAIN known' = Requests /\ DOMAIN searched' = Requests
  /\ \A q \in Requests \ {r} :
       /\ requestAt'[q] = requestAt[q] /\ known'[q] = known[q] /\ searched'[q] = searched[q]
       /\ ranges'[q] = ranges[q]

\* A request that moves alone keeps the invariant if it is right itself.
LEMMA MoveKeeps ==
  ASSUME DiscoveryInv, NEW r \in Requests, MovesAlone(r),
         ranges' \in [Requests -> Seq(Int \X Int)],
         slots' \in [Requests -> Seq(Offerable)], options' \in [Requests -> Seq(Offerable)],
         requestAt'[r] \in {"load", "search"} => ranges'[r] # <<>>,
         requestAt'[r] = "search" => Knows(Head(ranges'[r]), known'[r]),
         \A s \in searched'[r] : Thorough(s, ask[r])
  PROVE  DiscoveryInv'
<1>1. /\ ask' = ask /\ clock' = clock /\ reservationHistory' = reservationHistory
      /\ staffCalendars' = staffCalendars /\ changed' = changed
  BY DEF MovesAlone, Settings
<1>2. Unchanged' = Unchanged
  BY <1>1 DEF Unchanged
<1>3. Offerable' = Offerable
  BY <1>2 DEF Offerable, WasFree
<1>4. DiscoveryTypes'
  <2> DEFINE O == Seq(Offerable)
             P == Seq(Offerable')
  <2>1. O = P
    BY <1>3
  <2>2. slots' \in [Requests -> P] /\ options' \in [Requests -> P]
    BY <2>1
  <2>3. DiscoveryTypes
    BY DEF DiscoveryInv
  <2> HIDE DEF O
  <2>4. /\ ask' \in [Requests -> Asks] /\ clock' \in Clocks /\ staffCalendars' \in StaffCalendars
        /\ \A x \in reservationHistory' : x.start \in Int /\ x.end \in Int
    BY <1>1, <2>3 DEF DiscoveryTypes
  <2> HIDE DEF P
  <2> QED BY <2>2, <2>4 DEF DiscoveryTypes, MovesAlone, P
<1>5. ASSUME NEW q \in Requests PROVE RequestInv(q)'
  <2>1. CASE q = r
    BY <1>1, <1>2, <2>1 DEF RequestInv, Knows
  <2>2. CASE q # r
    <3>1. RequestInv(q)
      BY DEF DiscoveryInv
    <3>2. /\ requestAt'[q] = requestAt[q] /\ known'[q] = known[q] /\ searched'[q] = searched[q]
          /\ ranges'[q] = ranges[q]
      BY <2>2 DEF MovesAlone
    <3> QED BY <1>1, <1>2, <3>1, <3>2 DEF RequestInv, Knows
  <2> QED BY <2>1, <2>2
<1> QED BY <1>4, <1>5 DEF DiscoveryInv

\* The whole window is from one date to another.
LEMMA WholeWindowIsARange == DiscoveryInv => Discovery!WholeWindow \in Int \X Int
<1> SUFFICES ASSUME DiscoveryInv PROVE Discovery!WholeWindow \in Int \X Int
  OBVIOUS
<1>1. clock \in Nat /\ NOW \in Nat /\ Horizon \in Nat
  BY DiscoveryAssumption DEF DiscoveryInv, DiscoveryTypes
<1> DEFINE today == (NOW + clock) \div 1440
<1>2. today \in Int
  BY <1>1
<1>3. Discovery!ServerDate(NOW) = today
  BY DEF Discovery!ServerDate, Discovery!DateOf, Discovery!DayLength
<1> HIDE DEF today
<1> QED BY <1>1, <1>2, <1>3 DEF Discovery!WholeWindow

\* A request searches at least one range of dates.
LEMMA RangesOf ==
  ASSUME DiscoveryInv, NEW r \in Requests, NEW s, s = Discovery!SearchRanges(r)
  PROVE  s \in Seq(Int \X Int) /\ s # <<>>
<1> DEFINE P == Discovery!PreferredDates(r)
           preferred == Discovery!Ascending(P)
           R == Int \X Int
<1>1. s = IF ~Discovery!IsDiscovery(r) THEN <<ask[r].range>>
          ELSE IF preferred = <<>> THEN <<Discovery!WholeWindow>>
          ELSE IF Len(preferred) = 1 THEN <<<<preferred[1], preferred[1] + 7>>>>
          ELSE [n \in DOMAIN preferred |-> <<preferred[n], preferred[n]>>]
  BY DEF Discovery!SearchRanges
<1>2. IsAsk(ask[r])
  BY DiscoveryAssumption DEF DiscoveryInv, DiscoveryTypes
<1>3. P \in SUBSET Int /\ IsFiniteSet(P)
  <2>1. ask[r].dates \subseteq Int /\ IsFiniteSet(ask[r].dates)
    BY <1>2 DEF IsAsk
  <2>2. P \subseteq ask[r].dates
    BY DEF Discovery!PreferredDates
  <2> HIDE DEF P
  <2> QED BY <2>1, <2>2, FS_Subset
<1>4. preferred = Ascending(P)
  BY DEF Discovery!Ascending, Ascending, Discovery!Cardinality, Cardinality, Discovery!IsFiniteSet,
         IsFiniteSet
<1> HIDE DEF P, preferred
<1>5. preferred \in Seq(Int)
  <2>1. Ascending(P) \in Seq(P)
    BY <1>3, Ascended
  <2>2. preferred \in Seq(P)
    BY <1>4, <2>1
  <2>3. \A n \in DOMAIN preferred : preferred[n] \in P
    BY <2>2
  <2>4. \A n \in DOMAIN preferred : preferred[n] \in Int
    BY <1>3, <2>3
  <2> QED BY <2>2, <2>4
<1>6. CASE ~Discovery!IsDiscovery(r)
  <2>1. ask[r].range \in R
    BY <1>2, <1>6 DEF Discovery!IsDiscovery, IsAsk
  <2> HIDE DEF R
  <2>2. <<ask[r].range>> \in Seq(R) /\ <<ask[r].range>> # <<>>
    BY <2>1
  <2> QED BY <1>1, <1>6, <2>2 DEF R
<1>7. CASE Discovery!IsDiscovery(r) /\ preferred = <<>>
  <2> DEFINE w == Discovery!WholeWindow
  <2>1. w \in R
    BY WholeWindowIsARange
  <2> HIDE DEF R, w
  <2>2. <<w>> \in Seq(R) /\ <<w>> # <<>>
    BY <2>1
  <2> QED BY <1>1, <1>7, <2>2 DEF R, w
<1>8. CASE Discovery!IsDiscovery(r) /\ preferred # <<>>
  <2>1. /\ Len(preferred) \in Nat \ {0} /\ DOMAIN preferred = 1 .. Len(preferred)
        /\ \A n \in DOMAIN preferred : preferred[n] \in Int
    BY <1>5, <1>8
  <2>2. CASE Len(preferred) = 1
    <3> DEFINE w == <<preferred[1], preferred[1] + 7>>
    <3>1. w \in R
      BY <2>1, <2>2
    <3>2. s = <<w>>
      BY <1>1, <1>8, <2>2
    <3> HIDE DEF R, w
    <3>3. <<w>> \in Seq(R) /\ <<w>> # <<>>
      BY <3>1
    <3> QED BY <3>2, <3>3 DEF R
  <2>3. CASE Len(preferred) # 1
    <3>1. s = [n \in 1 .. Len(preferred) |-> <<preferred[n], preferred[n]>>]
      BY <1>1, <1>8, <2>1, <2>3
    <3>2. \A n \in 1 .. Len(preferred) : <<preferred[n], preferred[n]>> \in R
      BY <2>1
    <3> HIDE DEF R
    <3>3. s \in Seq(R) /\ Len(s) = Len(preferred)
      BY <2>1, <3>1, <3>2
    <3>4. s # <<>>
      BY <2>1, <3>3
    <3> QED BY <3>3, <3>4 DEF R
  <2> QED BY <2>2, <2>3
<1> QED BY <1>6, <1>7, <1>8

\* The first step, with the ranges.
LEMMA SubmitKeeps ==
  ASSUME DiscoveryInv, NEW r \in Requests, Discovery!Submit(r) \/ Discovery!ReadResources(r)
  PROVE  DiscoveryInv'
<1> DEFINE s == Discovery!SearchRanges(r)
           R == Int \X Int
<1>1. /\ UNCHANGED <<ask, clock, reservationHistory, staffCalendars, known, slots, searched, options,
                     changed>>
      /\ \/ /\ UNCHANGED ranges
            /\ \E w \in {"resources", "done"} : requestAt' = [requestAt EXCEPT ![r] = w]
         \/ /\ ranges' = [ranges EXCEPT ![r] = s]
            /\ requestAt' = [requestAt EXCEPT ![r] = "load"]
  BY DEF Discovery!Submit, Discovery!ReadResources
<1>2. s \in Seq(R) /\ s # <<>>
  BY RangesOf
<1>3. /\ ranges \in [Requests -> Seq(R)] /\ slots \in [Requests -> Seq(Offerable)]
      /\ options \in [Requests -> Seq(Offerable)]
      /\ DOMAIN requestAt = Requests /\ DOMAIN known = Requests /\ DOMAIN searched = Requests
      /\ \A q \in searched[r] : Thorough(q, ask[r])
  BY DEF DiscoveryInv, DiscoveryTypes, RequestInv
<1> HIDE DEF s, R
<1>4. CASE /\ UNCHANGED ranges
           /\ \E w \in {"resources", "done"} : requestAt' = [requestAt EXCEPT ![r] = w]
  <2>1. MovesAlone(r) /\ requestAt'[r] \in {"resources", "done"}
    BY <1>1, <1>3, <1>4 DEF MovesAlone, Settings
  <2> QED BY <1>1, <1>3, <1>4, <2>1, MoveKeeps DEF R
<1>5. CASE /\ ranges' = [ranges EXCEPT ![r] = s]
           /\ requestAt' = [requestAt EXCEPT ![r] = "load"]
  <2>1. MovesAlone(r) /\ requestAt'[r] = "load" /\ ranges'[r] # <<>>
    BY <1>1, <1>2, <1>3, <1>5 DEF MovesAlone, Settings
  <2>2. ranges' \in [Requests -> Seq(R)]
    BY <1>2, <1>3, <1>5
  <2> QED BY <1>1, <1>3, <2>1, <2>2, MoveKeeps DEF R
<1> QED BY <1>1, <1>4, <1>5

\* The reservations of the range are read.
LEMMA LoadKeeps ==
  ASSUME DiscoveryInv, NEW r \in Requests, Discovery!LoadReservations(r) PROVE DiscoveryInv'
<1> DEFINE S == {x \in reservationHistory : Discovery!InRange(x, Head(ranges[r]))}
<1>1. /\ UNCHANGED <<ask, clock, reservationHistory, staffCalendars, ranges, slots, searched,
                     options, changed>>
      /\ requestAt[r] = "load" /\ requestAt' = [requestAt EXCEPT ![r] = "search"]
      /\ known' = [known EXCEPT ![r] = S]
  BY DEF Discovery!LoadReservations
<1>2. /\ ranges \in [Requests -> Seq(Int \X Int)] /\ slots \in [Requests -> Seq(Offerable)]
      /\ options \in [Requests -> Seq(Offerable)]
      /\ DOMAIN requestAt = Requests /\ DOMAIN known = Requests /\ DOMAIN searched = Requests
      /\ ranges[r] # <<>> /\ \A q \in searched[r] : Thorough(q, ask[r])
  BY <1>1 DEF DiscoveryInv, DiscoveryTypes, RequestInv
<1>3. Knows(Head(ranges[r]), S)
  BY DEF Knows, Unchanged
<1> HIDE DEF S
<1>4. MovesAlone(r) /\ known'[r] = S
  BY <1>1, <1>2 DEF MovesAlone, Settings
<1> QED BY <1>1, <1>2, <1>3, <1>4, MoveKeeps

\* The solver is asked.
LEMMA SolveKeeps ==
  ASSUME DiscoveryInv, NEW r \in Requests, Discovery!Search(r) PROVE DiscoveryInv'
<1> DEFINE R == Int \X Int
           O == Offerable
<1>1. PICK cal \in {staffCalendars, <<>>} :
        LET result == Discovery!FindTime(Discovery!Query(r, Head(ranges[r])), Staff, Fleet, known[r],
                                         cal, last[r], NOW, clock)
        IN /\ slots' = [slots EXCEPT ![r] = slots[r] \o result]
           /\ searched' = [searched EXCEPT ![r] =
                {[range |-> Head(ranges[r]), known |-> known[r], seen |-> cal, result |-> result]}]
  BY DEF Discovery!Search
<1> DEFINE result == Discovery!FindTime(Discovery!Query(r, Head(ranges[r])), Staff, Fleet, known[r],
                                        cal, last[r], NOW, clock)
           s == [range |-> Head(ranges[r]), known |-> known[r], seen |-> cal, result |-> result]
           w == IF ranges'[r] # <<>> THEN "load"
                ELSE IF Discovery!IsDiscovery(r) THEN "select" ELSE "done"
<1>2. slots' = [slots EXCEPT ![r] = slots[r] \o result] /\ searched' = [searched EXCEPT ![r] = {s}]
  BY <1>1
<1>3. /\ UNCHANGED <<ask, clock, reservationHistory, staffCalendars, known, options, changed>>
      /\ requestAt[r] = "search" /\ requestAt' = [requestAt EXCEPT ![r] = w]
      /\ ranges' = [ranges EXCEPT ![r] = Tail(ranges[r])]
  BY DEF Discovery!Search
<1>4. result \in Seq(O) /\ Thorough(s, ask[r])
  BY <1>3, ResultOf
<1>5. /\ ranges \in [Requests -> Seq(R)] /\ slots \in [Requests -> Seq(O)]
      /\ options \in [Requests -> Seq(O)]
      /\ DOMAIN requestAt = Requests /\ DOMAIN known = Requests /\ DOMAIN searched = Requests
      /\ ranges[r] # <<>>
  BY <1>3 DEF DiscoveryInv, DiscoveryTypes, RequestInv
<1>6. w \in {"load", "select", "done"} /\ (w = "load" => ranges'[r] # <<>>)
  OBVIOUS
<1> HIDE DEF result, s, w, R, O
<1>7. ranges' \in [Requests -> Seq(R)]
  <2>1. ranges[r] \in Seq(R)
    BY <1>5
  <2>2. Tail(ranges[r]) \in Seq(R)
    BY <1>5, <2>1, HeadTailProperties
  <2> QED BY <1>3, <1>5, <2>2
<1>8. slots' \in [Requests -> Seq(O)]
  <2>1. slots[r] \o result \in Seq(O)
    BY <1>4, <1>5, ConcatProperties
  <2> QED BY <1>2, <1>5, <2>1
<1>9. MovesAlone(r) /\ requestAt'[r] = w /\ searched'[r] = {s}
  BY <1>2, <1>3, <1>5 DEF MovesAlone, Settings
<1>10. options' \in [Requests -> Seq(O)]
  BY <1>3, <1>5
<1>11. requestAt'[r] # "search" /\ (requestAt'[r] \in {"load", "search"} => ranges'[r] # <<>>)
  BY <1>6, <1>9
<1>12. \A q \in searched'[r] : Thorough(q, ask[r])
  BY <1>4, <1>9
<1> QED BY <1>7, <1>8, <1>9, <1>10, <1>11, <1>12, MoveKeeps DEF R, O

\* What is kept of slots, or cut off, is some of them.
LEMMA KeptSlots ==
  ASSUME NEW O, NEW s \in Seq(O), NEW S, NEW m \in Nat
  PROVE  Discovery!Kept(s, S) \in Seq(O) /\ Discovery!UpTo(s, m) \in Seq(O)
<1>1. Kept(s, S) \in Seq(O)
  <2> DEFINE anyPairs == {}
  <2> HIDE DEF anyPairs
  <2>1. /\ Kept(s, S) \in Seq(O \cap S)
        /\ \A j \in DOMAIN s : s[j] \in S => \E k \in DOMAIN Kept(s, S) : Kept(s, S)[k] = s[j]
        /\ InSequence(s, anyPairs) => InSequence(Kept(s, S), anyPairs)
    BY KeptOf
  <2> DEFINE u == Kept(s, S)
  <2>2. u \in Seq(O \cap S)
    BY <2>1
  <2> HIDE DEF u
  <2>3. u \in Seq(O)
    BY <2>2
  <2> QED BY <2>3 DEF u
<1>2. Discovery!Kept(s, S) = Kept(s, S)
  BY DEF Discovery!Kept, Kept, Discovery!FlattenSeq, FlattenSeq
<1>3. Discovery!UpTo(s, m) \in Seq(O)
  <2>1. Discovery!UpTo(s, m) = SubSeq(s, 1, IF Len(s) < m THEN Len(s) ELSE m)
    BY DEF Discovery!UpTo
  <2>2. Len(s) \in Nat
    OBVIOUS
  <2> QED BY <2>1, <2>2, SubSeqProperties
<1> QED BY <1>1, <1>2, <1>3

\* One slot of each time is one of the slots.
LEMMA OnePerTimeOf ==
  ASSUME NEW O, NEW s \in Seq(O) PROVE Discovery!OnePerTime(s) \in Seq(O)
<1> DEFINE first == {n \in DOMAIN s : \A m \in 1 .. (n - 1) : s[m].start # s[n].start}
           order == Ascending(first)
<1>1. Discovery!OnePerTime(s) = [n \in DOMAIN order |-> s[order[n]]]
  BY DEF Discovery!OnePerTime, Discovery!Ascending, Ascending, Discovery!Cardinality, Cardinality,
         Discovery!IsFiniteSet, IsFiniteSet
<1>2. first \in SUBSET (1 .. Len(s)) /\ Len(s) \in Nat /\ DOMAIN s = 1 .. Len(s)
  OBVIOUS
<1>3. first \in SUBSET Int /\ IsFiniteSet(first)
  <2> DEFINE all == 1 .. Len(s)
  <2>1. IsFiniteSet(all) /\ all \in SUBSET Int
    BY <1>2, FS_Interval
  <2>2. first \in SUBSET all
    BY <1>2
  <2> HIDE DEF first, all
  <2>3. IsFiniteSet(first)
    BY <2>1, <2>2, FS_Subset
  <2> QED BY <2>1, <2>2, <2>3
<1> HIDE DEF first
<1>4. order \in Seq(first)
  BY <1>3, Ascended
<1> HIDE DEF order
<1>5. DOMAIN order = 1 .. Len(order) /\ Len(order) \in Nat /\ \A n \in DOMAIN order : s[order[n]] \in O
  <2>1. DOMAIN order = 1 .. Len(order) /\ Len(order) \in Nat /\ \A n \in DOMAIN order : order[n] \in first
    BY <1>4
  <2>2. \A m \in first : s[m] \in O
    BY <1>2
  <2> QED BY <2>1, <2>2
<1> QED BY <1>1, <1>5

\* The suitable slots are selected, or the whole window is to be searched.
LEMMA SelectKeeps ==
  ASSUME DiscoveryInv, NEW r \in Requests, Discovery!Select(r) PROVE DiscoveryInv'
<1> DEFINE R == Int \X Int
           O == Offerable
           suitable == Discovery!Suitable(r)
           S == {s \in Discovery!Range(suitable) :
                   Discovery!ServerDate(s.start) \in Discovery!PreferredDates(r)}
           preferred == Discovery!Kept(suitable, S)
           matched == IF expanded[r] \/ preferred = <<>> THEN suitable ELSE preferred
           whole == <<Discovery!WholeWindow>>
<1>1. /\ UNCHANGED <<ask, clock, reservationHistory, staffCalendars, known, searched, options, changed>>
      /\ \/ /\ ranges' = [ranges EXCEPT ![r] = whole]
            /\ slots' = [slots EXCEPT ![r] = <<>>]
            /\ requestAt' = [requestAt EXCEPT ![r] = "load"]
         \/ /\ UNCHANGED ranges
            /\ slots' = [slots EXCEPT ![r] = Discovery!UpTo(matched, MaxSlots)]
            /\ \E w \in {"done", "insert"} : requestAt' = [requestAt EXCEPT ![r] = w]
  BY DEF Discovery!Select
<1>2. /\ ranges \in [Requests -> Seq(R)] /\ slots \in [Requests -> Seq(O)]
      /\ options \in [Requests -> Seq(O)]
      /\ DOMAIN requestAt = Requests /\ DOMAIN known = Requests /\ DOMAIN searched = Requests
      /\ \A q \in searched[r] : Thorough(q, ask[r])
  BY DEF DiscoveryInv, DiscoveryTypes, RequestInv
<1>3. MaxSlots \in Nat
  BY ONLY DiscoveryAssumption
<1>4. suitable \in Seq(O)
  <2> DEFINE T == {s \in Discovery!Range(slots[r]) :
                     /\ \A t \in civil[r] : Discovery!InDaylight(s, t)
                     /\ Discovery!AtTimeOfDay(s, ask[r].timeOfDay)}
  <2>1. suitable = Discovery!Kept(slots[r], T)
    BY DEF Discovery!Suitable
  <2> HIDE DEF T, O, suitable
  <2>2. slots[r] \in Seq(O)
    BY <1>2
  <2> QED BY <1>3, <2>1, <2>2, KeptSlots
<1> HIDE DEF suitable, S, O, R
<1>5. preferred \in Seq(O)
  BY <1>3, <1>4, KeptSlots
<1> HIDE DEF preferred
<1>6. matched \in Seq(O)
  BY <1>4, <1>5
<1> HIDE DEF matched
<1>7. Discovery!UpTo(matched, MaxSlots) \in Seq(O)
  BY <1>3, <1>6, KeptSlots
<1>8. whole \in Seq(R) /\ whole # <<>>
  <2> DEFINE w == Discovery!WholeWindow
  <2>1. w \in R
    BY WholeWindowIsARange DEF R
  <2> HIDE DEF w
  <2> QED BY <2>1 DEF w
<1> HIDE DEF whole
<1>9. options' \in [Requests -> Seq(O)]
  BY <1>1, <1>2
<1>10. CASE /\ ranges' = [ranges EXCEPT ![r] = whole]
            /\ slots' = [slots EXCEPT ![r] = <<>>]
            /\ requestAt' = [requestAt EXCEPT ![r] = "load"]
  <2>1. MovesAlone(r) /\ requestAt'[r] = "load" /\ ranges'[r] = whole /\ searched'[r] = searched[r]
    BY <1>1, <1>2, <1>10 DEF MovesAlone, Settings
  <2>2. ranges' \in [Requests -> Seq(R)]
    BY <1>2, <1>8, <1>10
  <2>3. slots' \in [Requests -> Seq(O)]
    <3>1. <<>> \in Seq(O)
      OBVIOUS
    <3> QED BY <1>2, <1>10, <3>1
  <2> QED BY <1>2, <1>8, <1>9, <2>1, <2>2, <2>3, MoveKeeps DEF R, O
<1>11. CASE /\ UNCHANGED ranges
            /\ slots' = [slots EXCEPT ![r] = Discovery!UpTo(matched, MaxSlots)]
            /\ \E w \in {"done", "insert"} : requestAt' = [requestAt EXCEPT ![r] = w]
  <2>1. MovesAlone(r) /\ requestAt'[r] \in {"done", "insert"} /\ searched'[r] = searched[r]
    BY <1>1, <1>2, <1>11 DEF MovesAlone, Settings
  <2>2. ranges' \in [Requests -> Seq(R)]
    BY <1>2, <1>11
  <2>3. slots' \in [Requests -> Seq(O)]
    BY <1>2, <1>7, <1>11
  <2> QED BY <1>2, <1>9, <2>1, <2>2, <2>3, MoveKeeps DEF R, O
<1> QED BY <1>1, <1>10, <1>11

\* The options are stored and shown, or the request fails.
LEMMA AnswerKeeps ==
  ASSUME DiscoveryInv, NEW r \in Requests,
         Discovery!InsertOptions(r) \/ Discovery!Answer(r) \/ Discovery!Fail(r)
  PROVE  DiscoveryInv'
<1> DEFINE R == Int \X Int
           O == Offerable
           best == Discovery!OnePerTime(slots[r])
<1>1. /\ UNCHANGED <<ask, clock, reservationHistory, staffCalendars, ranges, known, slots, searched,
                     changed>>
      /\ \E w \in {"answer", "done", "failed"} : requestAt' = [requestAt EXCEPT ![r] = w]
      /\ UNCHANGED options \/ options' = [options EXCEPT ![r] = best]
  BY DEF Discovery!InsertOptions, Discovery!Answer, Discovery!Fail, Discovery!request
<1>2. /\ ranges \in [Requests -> Seq(R)] /\ slots \in [Requests -> Seq(O)]
      /\ options \in [Requests -> Seq(O)]
      /\ DOMAIN requestAt = Requests /\ DOMAIN known = Requests /\ DOMAIN searched = Requests
      /\ \A q \in searched[r] : Thorough(q, ask[r])
  BY DEF DiscoveryInv, DiscoveryTypes, RequestInv
<1> HIDE DEF O, R, best
<1>3. best \in Seq(O)
  <2>1. slots[r] \in Seq(O)
    BY <1>2
  <2> QED BY <2>1, OnePerTimeOf DEF best
<1>4. MovesAlone(r) /\ requestAt'[r] \in {"answer", "done", "failed"} /\ searched'[r] = searched[r]
  BY <1>1, <1>2 DEF MovesAlone, Settings
<1>5. options' \in [Requests -> Seq(O)]
  BY <1>1, <1>2, <1>3
<1>6. ranges' \in [Requests -> Seq(R)] /\ slots' \in [Requests -> Seq(O)]
  BY <1>1, <1>2
<1> QED BY <1>2, <1>4, <1>5, <1>6, MoveKeeps DEF R, O

\* Others book or cancel: fewer reservations are there all along.
LEMMA ChangeKeeps ==
  ASSUME DiscoveryInv, NEW x \in Bookable, Discovery!Change(x) PROVE DiscoveryInv'
<1>1. /\ UNCHANGED <<ask, clock, staffCalendars, requestAt, ranges, known, slots, searched, options>>
      /\ reservationHistory' \subseteq reservationHistory \cup {x}
      /\ changed' = changed \cup {x}
  BY DEF Discovery!Change, Discovery!request
<1>2. Unchanged' \subseteq Unchanged
  BY <1>1 DEF Unchanged
<1>3. Offerable \subseteq Offerable'
  BY <1>2 DEF Offerable, WasFree
<1>4. DiscoveryTypes'
  <2> DEFINE O == Offerable
             P == Offerable'
  <2>1. DiscoveryTypes
    BY DEF DiscoveryInv
  <2>2. x.start \in Int /\ x.end \in Int
    <3>1. \A y \in (UNION Booked) \cup Bookable : y.start \in Int /\ y.end \in Int
      BY ONLY DiscoveryAssumption
    <3> QED BY <3>1
  <2>3. \A y \in reservationHistory' : y.start \in Int /\ y.end \in Int
    BY <1>1, <2>1, <2>2 DEF DiscoveryTypes
  <2>4. slots \in [Requests -> Seq(O)] /\ options \in [Requests -> Seq(O)]
    BY <2>1 DEF DiscoveryTypes
  <2>5. O \subseteq P
    BY <1>3
  <2> HIDE DEF O, P
  <2>6. Seq(O) \subseteq Seq(P)
    BY <2>5
  <2>7. slots' \in [Requests -> Seq(P)] /\ options' \in [Requests -> Seq(P)]
    BY <1>1, <2>4, <2>6
  <2> QED BY <1>1, <2>1, <2>3, <2>7 DEF DiscoveryTypes, P
<1>5. ASSUME NEW r \in Requests PROVE RequestInv(r)'
  <2>1. RequestInv(r)
    BY DEF DiscoveryInv
  <2> QED BY <1>1, <1>2, <2>1 DEF RequestInv, Knows
<1> QED BY <1>4, <1>5 DEF DiscoveryInv

\* A behaviour about requests steps as they do.
LEMMA DiscoveryMove == [Next]_vars /\ scene = "discovery" => [Discovery!Next]_discoveryVars
BY DEF Next, vars, SearchStep, DiscoveryStep, EnrichmentStep, NotificationStep

\* Every step of a request keeps the invariant.
LEMMA DiscoveryStepKeeps == DiscoveryInv /\ [Discovery!Next]_discoveryVars => DiscoveryInv'
<1> SUFFICES ASSUME DiscoveryInv, [Discovery!Next]_discoveryVars PROVE DiscoveryInv'
  OBVIOUS
<1>1. CASE UNCHANGED discoveryVars
  <2>1. /\ UNCHANGED <<ask, clock, reservationHistory, staffCalendars, requestAt, ranges, known, slots,
                       searched, options, changed>>
    BY <1>1 DEF discoveryVars
  <2>2. Unchanged' = Unchanged
    BY <2>1 DEF Unchanged
  <2>3. Offerable' = Offerable
    BY <2>2 DEF Offerable, WasFree
  <2>4. DiscoveryTypes'
    <3> DEFINE O == Seq(Offerable)
               P == Seq(Offerable')
    <3>1. O = P /\ DiscoveryTypes
      BY <2>3 DEF DiscoveryInv
    <3>2. slots' \in [Requests -> P] /\ options' \in [Requests -> P]
      BY <2>1, <3>1 DEF DiscoveryTypes
    <3> HIDE DEF O, P
    <3> QED BY <2>1, <3>1, <3>2 DEF DiscoveryTypes, P
  <2>5. \A r \in Requests : RequestInv(r)'
    BY <2>1, <2>2 DEF DiscoveryInv, RequestInv, Knows
  <2> QED BY <2>4, <2>5 DEF DiscoveryInv
<1>2. CASE \E r \in Requests : Discovery!Submit(r) \/ Discovery!ReadResources(r)
  BY <1>2, SubmitKeeps
<1>3. CASE \E r \in Requests : Discovery!LoadReservations(r)
  BY <1>3, LoadKeeps
<1>4. CASE \E r \in Requests : Discovery!Search(r)
  BY <1>4, SolveKeeps
<1>5. CASE \E r \in Requests : Discovery!Select(r)
  BY <1>5, SelectKeeps
<1>6. CASE \E r \in Requests :
             Discovery!InsertOptions(r) \/ Discovery!Answer(r) \/ Discovery!Fail(r)
  BY <1>6, AnswerKeeps
<1>7. CASE \E x \in Bookable : Discovery!Change(x)
  BY <1>7, ChangeKeeps
<1> QED BY <1>1, <1>2, <1>3, <1>4, <1>5, <1>6, <1>7 DEF Discovery!Next

\* The invariant holds throughout a discovery scene.
LEMMA DiscoveryIsInductive == Spec => [](scene = "discovery" => DiscoveryInv)
<1>1. Init => (scene = "discovery" => DiscoveryInv)
  BY DiscoveryInitially DEF Init
<1>2. (scene = "discovery" => DiscoveryInv) /\ [Next]_vars => (scene = "discovery" => DiscoveryInv)'
  BY SceneStays, DiscoveryMove, DiscoveryStepKeeps
<1> QED BY <1>1, <1>2, PTL DEF Spec

\* A search of the solver that returns fewer slots than it may has missed no
\* free one, whatever the calendars, reservations and preferences are.
THEOREM SolverSkipsNothingFree == Spec => []NothingFreeIsSkipped
<1>1. DiscoveryInv => Discovery!NothingFreeIsSkipped
  BY DEF DiscoveryInv, RequestInv, Thorough, Discovery!NothingFreeIsSkipped
<1> QED BY <1>1, DiscoveryIsInductive, PTL DEF NothingFreeIsSkipped

\* An option overlaps no reservation of its instructor or aircraft that was
\* there all along, however bookings and requests interleave.
THEOREM OfferedSlotsWereFree == Spec => []OptionsWereFree
<1>1. DiscoveryInv => Discovery!OptionsWereFree
  <2> SUFFICES ASSUME DiscoveryInv, NEW r \in Requests, NEW n \in DOMAIN options[r],
                      NEW x \in reservationHistory \ changed, Discovery!Overlap(options[r][n], x)
               PROVE  x.instructor # options[r][n].instructor /\ x.aircraft # options[r][n].aircraft
    BY DEF Discovery!OptionsWereFree
  <2>1. options[r] \in Seq(Offerable)
    BY DEF DiscoveryInv, DiscoveryTypes
  <2>2. options[r][n] \in Offerable
    BY <2>1
  <2> QED BY <2>2 DEF Offerable, WasFree, Unchanged
<1> QED BY <1>1, DiscoveryIsInductive, PTL DEF OptionsWereFree
================================================================================
