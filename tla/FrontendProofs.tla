---------------------------- MODULE FrontendProofs ----------------------------
(***************************************************************************)
(* What is proved of the side of UltraCode that its users see.             *)
(*   - The readers of a run's event log: none loses, repeats or invents an *)
(*     event, and who saw the run end has shown all of it (ReaderInv).     *)
(*   - The holds of the MCP server: activeHolds counts the calls in        *)
(*     progress (HoldsInv).                                                *)
(*   - Run start and resume: what the launcher answers is true, and the    *)
(*     settings are the last explicit ones of the lineage (StartInv).      *)
(*   - Release, installer and update: a version is one build, the latest   *)
(*     manifest resolves (StoreInv), and a live installer keeps its stage  *)
(*     (DistributionInv).                                                  *)
(***************************************************************************)
EXTENDS RunReaders, RunStart, Distribution, FiniteSetTheorems, WellFoundedInduction, TLAPS

\* Every non-empty set of naturals has a least member.
LEMMA Least == \A S \in SUBSET Nat : S # {} => \E m \in S : \A x \in S : m <= x
<1> SUFFICES ASSUME NEW S \in SUBSET Nat, S # {} PROVE \E m \in S : \A x \in S : m <= x
  OBVIOUS
<1> DEFINE R == OpToRel(<, Nat)
<1>1. IsWellFoundedOn(R, Nat)
  BY NatLessThanWellFounded
<1>2. \E m \in S : \A x \in S : <<x, m>> \notin R
  <2> HIDE DEF R
  <2> QED BY <1>1, WFMin
<1>3. \A x, y \in S : x < y => <<x, y>> \in R
  BY DEF OpToRel
<1>4. PICK m \in S : \A x \in S : <<x, m>> \notin R
  BY <1>2
<1>5. ASSUME NEW x \in S PROVE m <= x
  <2>1. ~ (x < m)
    <3> HIDE DEF R
    <3> QED BY <1>3, <1>4
  <2> QED BY <2>1
<1> QED BY <1>4, <1>5

\* Induction over the naturals, for the set where a fact holds.
LEMMA NatSet == \A S : 0 \in S /\ (\A n \in Nat : n \in S => n + 1 \in S) => Nat \subseteq S
<1> SUFFICES ASSUME NEW S, 0 \in S, \A n \in Nat : n \in S => n + 1 \in S, Nat \ S # {} PROVE FALSE
  OBVIOUS
<1>1. PICK m \in Nat \ S : \A x \in Nat \ S : m <= x
  BY Least
<1>2. m # 0 /\ m - 1 \in Nat /\ m - 1 \notin S
  BY <1>1
<1> QED BY <1>1, <1>2

\* The members of a set of naturals bounded by a member of it: that one is Max.
LEMMA MaxIs ==
  ASSUME NEW S \in SUBSET Nat, NEW m \in S, \A x \in S : x <= m
  PROVE  Max(S) = m
<1>1. \A y \in S : m >= y
  OBVIOUS
<1>2. \A n \in S : (\A y \in S : n >= y) => n = m
  OBVIOUS
<1> QED BY <1>1, <1>2, Zenon DEF Max

\* A bounded non-empty set of naturals has a maximum, which Max finds.
LEMMA MaxOf ==
  ASSUME NEW S \in SUBSET Nat, S # {}, NEW b \in Nat, \A x \in S : x <= b
  PROVE  Max(S) \in S /\ \A x \in S : x <= Max(S)
<1> DEFINE D == {b - x : x \in S}
<1>1. D \in SUBSET Nat /\ D # {}
  OBVIOUS
<1>2. PICK d \in D : \A y \in D : d <= y
  <2> HIDE DEF D
  <2> QED BY <1>1, Least
<1>3. PICK m \in S : d = b - m
  OBVIOUS
<1>4. \A x \in S : x <= m
  <2> TAKE x \in S
  <2> b - x \in D
    OBVIOUS
  <2> QED BY <1>2, <1>3
<1> QED BY <1>4, MaxIs

\* The least member of a set of naturals is Min.
LEMMA MinIs ==
  ASSUME NEW S \in SUBSET Nat, NEW m \in S, \A x \in S : m <= x
  PROVE  Min(S) = m
<1>1. \A n \in S : (\A y \in S : n <= y) => n = m
  OBVIOUS
<1> QED BY <1>1, Zenon DEF Min

\* A non-empty set of naturals has a minimum, which Min finds.
LEMMA MinOf ==
  ASSUME NEW S \in SUBSET Nat, S # {}
  PROVE  Min(S) \in S /\ \A x \in S : Min(S) <= x
<1>1. PICK m \in S : \A x \in S : m <= x
  BY Least
<1> QED BY <1>1, MinIs

\* The larger of two integers.
LEMMA MaxPair == \A a, b \in Int : Max({a, b}) = IF a >= b THEN a ELSE b
<1> TAKE a, b \in Int
<1> DEFINE m == IF a >= b THEN a ELSE b
<1>1. m \in {a, b} /\ \A y \in {a, b} : m >= y
  OBVIOUS
<1>2. \A n \in {a, b} : (\A y \in {a, b} : n >= y) => n = m
  OBVIOUS
<1> HIDE DEF m
<1>3. Max({a, b}) = m
  BY <1>1, <1>2, Zenon DEF Max
<1> QED BY <1>3 DEF m

\* The smaller of two integers.
LEMMA MinPair == \A a, b \in Int : Min({a, b}) = IF a <= b THEN a ELSE b
<1> TAKE a, b \in Int
<1> DEFINE m == IF a <= b THEN a ELSE b
<1>1. m \in {a, b} /\ \A y \in {a, b} : m <= y
  OBVIOUS
<1>2. \A n \in {a, b} : (\A y \in {a, b} : n <= y) => n = m
  OBVIOUS
<1> HIDE DEF m
<1>3. Min({a, b}) = m
  BY <1>1, <1>2, Zenon DEF Min
<1> QED BY <1>3 DEF m

-----------------------------------------------------------------------------
(* Lines *)
Cells == Kinds \cup {"part"}

\* NewlinesIn(a, b) are the ends of lines after a and up to b.
LEMMA NewlinesAre ==
  ASSUME log \in Seq(Cells), NEW a \in Nat, NEW b \in Nat
  PROVE  /\ NewlinesIn(a, b) \in SUBSET Nat /\ \A i \in NewlinesIn(a, b) : a < i /\ i <= b
         /\ \A i \in Nat : i \in NewlinesIn(a, b) <=> a < i /\ i <= b /\ log[i] \in Kinds
BY DEF NewlinesIn

\* A line starts after the newline before it: no newline lies between.
LEMMA LineStartIs ==
  ASSUME log \in Seq(Cells), NEW i \in Nat \ {0}
  PROVE  /\ LineStart(i) \in 1..i
         /\ LineStart(i) = 1 \/ log[LineStart(i) - 1] \in Kinds
         /\ \A j \in Nat \ {0} : log[j] \in Kinds /\ j < i => j < LineStart(i)
<1> DEFINE S == {0} \cup NewlinesIn(0, i - 1)
<1>1. S \in SUBSET Nat /\ S # {} /\ i - 1 \in Nat /\ \A x \in S : x <= i - 1
  BY NewlinesAre
<1>2. Max(S) \in S /\ \A x \in S : x <= Max(S)
  <2> HIDE DEF S
  <2> QED BY <1>1, MaxOf
<1>3. LineStart(i) = 1 + Max(S)
  BY DEF LineStart
<1>4. \A j \in Nat \ {0} : log[j] \in Kinds /\ j < i => j \in S
  BY NewlinesAre
<1>5. Max(S) = 0 \/ log[Max(S)] \in Kinds
  BY <1>2, NewlinesAre
<1> HIDE DEF S
<1>6. Max(S) \in Nat /\ Max(S) <= i - 1
  BY <1>1, <1>2
<1> QED BY <1>2, <1>3, <1>4, <1>5, <1>6

\* And a cell after a newline, with none up to i, is where the line of i starts.
LEMMA LineStartAt ==
  ASSUME log \in Seq(Cells), NEW i \in Nat \ {0}, NEW m \in 1..i,
         m = 1 \/ log[m - 1] \in Kinds, \A j \in m..(i - 1) : log[j] \notin Kinds
  PROVE  LineStart(i) = m
<1>1. LineStart(i) \in 1..i /\ m \in Nat
  BY LineStartIs
<1>2. m = 1 \/ m - 1 < LineStart(i)
  BY LineStartIs
<1>3. LineStart(i) # 1 => LineStart(i) - 1 \notin m..(i - 1)
  BY LineStartIs
<1> QED BY <1>1, <1>2, <1>3

\* EventWriter.write only appends: what lies behind a reader does not change.
LEMMA LogGrows ==
  ASSUME log \in Seq(Cells), NEW cell \in Cells, log' = Append(log, cell)
  PROVE  /\ log' \in Seq(Cells) /\ Len(log') = Len(log) + 1
         /\ \A i \in 1..Len(log) : log'[i] = log[i]
         /\ \A a \in Nat, b \in 0..Len(log) : NewlinesIn(a, b)' = NewlinesIn(a, b)
         /\ \A i \in 1..Len(log) : LineStart(i)' = LineStart(i)
         /\ \A a \in Nat, b \in 0..Len(log) : UNCHANGED scene => Intact(a, b)' = Intact(a, b)
<1>1. /\ log' \in Seq(Cells) /\ Len(log') = Len(log) + 1
      /\ \A i \in 1..Len(log) : log'[i] = log[i]
  OBVIOUS
<1>2. \A a \in Nat, b \in 0..Len(log) : NewlinesIn(a, b)' = NewlinesIn(a, b)
  BY <1>1 DEF NewlinesIn
<1>3. \A i \in 1..Len(log) : LineStart(i)' = LineStart(i)
  <2> TAKE i \in 1..Len(log)
  <2>1. NewlinesIn(0, i - 1)' = NewlinesIn(0, i - 1)
    BY <1>2
  <2> QED BY <2>1 DEF LineStart
<1>4. \A a \in Nat, b \in 0..Len(log) : UNCHANGED scene => Intact(a, b)' = Intact(a, b)
  <2> SUFFICES ASSUME NEW a \in Nat, NEW b \in 0..Len(log), UNCHANGED scene
               PROVE  Intact(a, b)' = Intact(a, b)
    OBVIOUS
  <2>1. NewlinesIn(a, b) \subseteq 1..Len(log)
    BY DEF NewlinesIn
  <2>2. \A i \in NewlinesIn(a, b) : LineStart(i)' = LineStart(i) /\ (Overlong(i)' <=> Overlong(i))
    BY <1>3, <2>1 DEF Overlong, Page
  <2> QED BY <1>2, <2>2 DEF Intact
<1> QED BY <1>1, <1>2, <1>3, <1>4

-----------------------------------------------------------------------------
(* A page *)

(* A reader in the middle of a line has passed a growth cap of it already. *)
CursorOk(a, o) ==
  \/ o = 0 \/ log[o] \in Kinds
  \/ o > 0 /\ log[o] = "part" /\ LineStart(o) > a /\ o + 1 - LineStart(o) >= Page * Growth

\* The loop of readEventsFrom ends with a window inside the log and within the growth
\* cap.
LEMMA WindowIs ==
  ASSUME log \in Seq(Cells), scene \in Scenes, NEW o \in 0..Len(log), Len(log) > o
  PROVE  LET rest == Len(log) - o
             done == {w \in Windows(rest) : \/ NewlinesIn(o, o + w) # {}
                                            \/ o + w >= Len(log)
                                            \/ w >= Page * Growth}
             window == IF done = {} THEN Max(Windows(rest)) ELSE Min(done)
         IN  /\ window \in 1..rest /\ window <= Page * Growth /\ Page * Growth \in Nat
             /\ window \in done
<1> DEFINE rest == Len(log) - o
           done == {w \in Windows(rest) : \/ NewlinesIn(o, o + w) # {}
                                          \/ o + w >= Len(log)
                                          \/ w >= Page * Growth}
<1>1. Page \in Nat \ {0} /\ rest \in Nat \ {0} /\ Growth \in {1, 2, 4} /\ Page * Growth \in Nat
  BY ScenesAssumption, ReadersAssumption DEF Page
<1>2. \A f \in {1, 2, 4} \cap 1..Growth : Min({rest, Page * f}) = IF rest <= Page * f THEN rest ELSE Page * f
  BY <1>1, MinPair
<1>3. \A f \in {1, 2, 4} \cap 1..Growth : Page * f >= 1 /\ Page * f <= Page * Growth /\ Page * f \in Nat
  BY <1>1
<1>4. \A w \in Windows(rest) : w \in 1..rest /\ w <= Page * Growth
  <2> TAKE w \in Windows(rest)
  <2>1. PICK f \in {1, 2, 4} \cap 1..Growth : w = Min({rest, Page * f})
    BY DEF Windows
  <2> HIDE DEF rest
  <2>2. w = IF rest <= Page * f THEN rest ELSE Page * f
    BY <1>2, <2>1
  <2>3. Page * f >= 1 /\ Page * f <= Page * Growth /\ Page * f \in Nat
    BY <1>3
  <2>4. \A x, y \in Nat : x >= 1 /\ x <= y /\ w = (IF rest <= x THEN rest ELSE x) => w \in 1..rest /\ w <= y
    BY <1>1
  <2> QED BY <1>1, <2>2, <2>3, <2>4
<1>5. Min({rest, Page * Growth}) \in Windows(rest)
  <2>1. Growth \in {1, 2, 4} \cap 1..Growth
    BY <1>1
  <2> QED BY <2>1 DEF Windows
<1>6. Min({rest, Page * Growth}) \in done
  <2>1. Growth \in {1, 2, 4} \cap 1..Growth
    BY <1>1
  <2>2. Min({rest, Page * Growth}) = IF rest <= Page * Growth THEN rest ELSE Page * Growth
    BY <1>2, <2>1
  <2>3. CASE rest <= Page * Growth
    BY <1>5, <2>2, <2>3
  <2>4. CASE ~(rest <= Page * Growth)
    BY <1>1, <1>5, <2>2, <2>4
  <2> QED BY <2>3, <2>4
<1>7. done \in SUBSET Nat /\ done \subseteq Windows(rest)
  BY <1>4
<1>8. Min(done) \in done
  <2> HIDE DEF done
  <2> QED BY <1>6, <1>7, MinOf
<1> HIDE DEF done
<1>9. Min(done) \in 1..rest /\ Min(done) <= Page * Growth
  BY <1>4, <1>7, <1>8
<1> QED BY <1>1, <1>6, <1>8, <1>9 DEF done

\* Skipping a window without a newline leaves the cursor in a line that is too long.
LEMMA SkipIs ==
  ASSUME log \in Seq(Cells), scene \in Scenes, NEW o \in 0..Len(log), NEW a \in 0..o,
         CursorOk(a, o),
         NEW w \in Nat, w >= 1, w >= Page * Growth, o + w <= Len(log),
         \A i \in Nat : o < i /\ i <= o + w => log[i] \notin Kinds
  PROVE  CursorOk(a, o + w)
<1> DEFINE n == o + w
<1>1. Len(log) \in Nat /\ Page * Growth \in Nat /\ n \in Nat \ {0} /\ n \in 1..Len(log) /\ o < n
  BY ScenesAssumption, ReadersAssumption DEF Page
<1>2. log[n] = "part"
  BY <1>1 DEF Cells
<1>3. CASE o = 0 \/ log[o] \in Kinds
  <2>1. LineStart(n) = o + 1
    <3>1. o + 1 \in 1..n /\ (o + 1 = 1 \/ log[o + 1 - 1] \in Kinds)
      BY <1>1, <1>3
    <3>2. \A j \in (o + 1)..(n - 1) : log[j] \notin Kinds
      BY <1>1
    <3> HIDE DEF n
    <3> QED BY <1>1, <3>1, <3>2, LineStartAt
  <2> QED BY <1>1, <1>2, <2>1 DEF CursorOk
<1>4. CASE o # 0 /\ log[o] \notin Kinds
  <2>1. o > 0 /\ log[o] = "part" /\ LineStart(o) > a /\ o + 1 - LineStart(o) >= Page * Growth
    BY <1>4 DEF CursorOk
  <2>2. /\ LineStart(o) \in 1..o /\ (LineStart(o) = 1 \/ log[LineStart(o) - 1] \in Kinds)
        /\ \A j \in Nat \ {0} : log[j] \in Kinds /\ j < o => j < LineStart(o)
    BY <1>4, LineStartIs
  <2>3. LineStart(n) = LineStart(o)
    <3>1. \A j \in LineStart(o)..(n - 1) : log[j] \notin Kinds
      <4> TAKE j \in LineStart(o)..(n - 1)
      <4>1. j \in Nat \ {0} /\ j < n /\ ~(j < LineStart(o))
        BY <1>1, <2>2
      <4>2. CASE j < o
        BY <2>2, <4>1, <4>2
      <4>3. CASE j = o
        BY <1>4, <4>3
      <4>4. CASE j > o
        BY <1>1, <4>1, <4>4
      <4> QED BY <4>1, <4>2, <4>3, <4>4
    <3>2. LineStart(o) \in 1..n
      BY <1>1, <2>2
    <3> HIDE DEF n
    <3> QED BY <1>1, <2>2, <3>1, <3>2, LineStartAt
  <2> QED BY <1>1, <1>2, <2>1, <2>2, <2>3 DEF CursorOk
<1> QED BY <1>3, <1>4

\* A line that a page ends is handed out exactly when it began behind the reader's start
\* and is no longer than the growth cap: the fragment that is dropped is the tail of a
\* line that is too long.
LEMMA LineInPage ==
  ASSUME log \in Seq(Cells), scene \in Scenes, NEW o \in 0..Len(log), NEW a \in 0..o,
         CursorOk(a, o),
         NEW w \in Nat, w <= Page * Growth, NEW first \in Nat, o < first, log[first] \in Kinds,
         \A j \in Nat : o < j /\ j < first => log[j] \notin Kinds,
         NEW i \in Nat, first <= i, i <= o + w
  PROVE  (o = 0 \/ log[o] # "part" \/ i # first) <=> (LineStart(i) > a /\ ~Overlong(i))
<1>1. Page * Growth \in Nat /\ i \in Nat \ {0} /\ first \in Nat \ {0} /\ o \in Nat /\ a \in Nat
  BY ScenesAssumption, ReadersAssumption DEF Page
<1>2. /\ LineStart(i) \in 1..i
      /\ \A j \in Nat \ {0} : log[j] \in Kinds /\ j < i => j < LineStart(i)
  BY <1>1, LineStartIs
<1>3. CASE o = 0 \/ log[o] \in Kinds
  <2>1. LineStart(i) > o
    BY <1>1, <1>2, <1>3
  <2>2. o = 0 \/ log[o] # "part"
    BY <1>3 DEF Kinds
  <2> QED BY <1>1, <1>2, <2>1, <2>2 DEF Overlong
<1>4. CASE o # 0 /\ log[o] \notin Kinds
  <2>1. o > 0 /\ log[o] = "part" /\ LineStart(o) > a /\ o + 1 - LineStart(o) >= Page * Growth
    BY <1>4 DEF CursorOk
  <2>2. CASE i # first
    <3>1. LineStart(i) > first
      BY <1>1, <1>2, <2>2
    <3> QED BY <1>1, <1>2, <2>1, <2>2, <3>1 DEF Overlong
  <2>3. CASE i = first
    <3>1. /\ LineStart(o) \in 1..o /\ (LineStart(o) = 1 \/ log[LineStart(o) - 1] \in Kinds)
          /\ \A j \in Nat \ {0} : log[j] \in Kinds /\ j < o => j < LineStart(o)
      BY <1>4, LineStartIs
    <3>2. \A j \in LineStart(o)..(first - 1) : log[j] \notin Kinds
      <4> TAKE j \in LineStart(o)..(first - 1)
      <4>1. j \in Nat \ {0} /\ j < first /\ ~(j < LineStart(o))
        BY <1>1, <3>1
      <4>2. CASE j < o
        BY <3>1, <4>1, <4>2
      <4>3. CASE j = o
        BY <1>4, <4>3
      <4>4. CASE j > o
        BY <1>1, <4>1, <4>4
      <4> QED BY <4>1, <4>2, <4>3, <4>4
    <3>3. LineStart(first) = LineStart(o)
      <4>1. LineStart(o) \in 1..first
        BY <1>1, <3>1
      <4> QED BY <1>1, <3>1, <3>2, <4>1, LineStartAt
    <3> QED BY <1>1, <2>1, <2>3, <3>1, <3>3 DEF Overlong
  <2> QED BY <2>2, <2>3
<1> QED BY <1>3, <1>4

\* What readEventsFrom promises of a page: it moves forward inside the log, it adds
\* exactly the whole lines between the old and the new cursor, and when it says that no
\* more is there, no newline is left.
LEMMA PageIs ==
  ASSUME log \in Seq(Cells), scene \in Scenes, NEW o \in 0..Len(log)
  PROVE  /\ ReadPage(o).next \in o..Len(log)
         /\ \A a \in 0..o : CursorOk(a, o) =>
              /\ CursorOk(a, ReadPage(o).next)
              /\ Intact(a, ReadPage(o).next) = Intact(a, o) \cup ReadPage(o).lines
         /\ ReadPage(o).lines \subseteq NewlinesIn(o, Len(log))
         /\ ~ReadPage(o).more => NewlinesIn(ReadPage(o).next, Len(log)) = {}
<1>1. Len(log) \in Nat /\ Page * Growth \in Nat /\ Page \in Nat \ {0}
  BY ScenesAssumption, ReadersAssumption DEF Page
<1>2. CASE Len(log) <= o
  <2>1. /\ ReadPage(o).next = o /\ ReadPage(o).lines = {}
    BY <1>2 DEF ReadPage
  <2>2. NewlinesIn(o, Len(log)) = {}
    BY <1>1, <1>2, NewlinesAre
  <2> QED BY <1>1, <1>2, <2>1, <2>2
<1>3. CASE Len(log) > o
  <2> DEFINE rest == Len(log) - o
             done == {w \in Windows(rest) : \/ NewlinesIn(o, o + w) # {}
                                            \/ o + w >= Len(log)
                                            \/ w >= Page * Growth}
             window == IF done = {} THEN Max(Windows(rest)) ELSE Min(done)
             ends == NewlinesIn(o, o + window)
             more == o + window < Len(log)
  <2>1. window \in 1..rest /\ window <= Page * Growth /\ window \in done
    BY <1>3, WindowIs
  <2>2. ReadPage(o) =
          IF ends = {}
          THEN IF Hopeless(window)
               THEN [lines |-> {}, next |-> o + window, more |-> more]
               ELSE [lines |-> {}, next |-> o, more |-> FALSE]
          ELSE [lines |-> {i \in ends : o = 0 \/ log[o] # "part" \/ i # Min(ends)},
                next |-> Max(ends), more |-> more]
    <3>1. ~(Len(log) <= o)
      BY <1>1, <1>3
    <3> QED BY <3>1, Zenon DEF ReadPage
  <2>3. ends # {} \/ o + window >= Len(log) \/ window >= Page * Growth
    BY <2>1
  <2> HIDE DEF done, window
  <2>4. o + window \in Nat /\ o + window <= Len(log)
    BY <1>1, <2>1
  <2>5. /\ ends \in SUBSET Nat /\ \A i \in ends : o < i /\ i <= o + window
        /\ \A i \in Nat : i \in ends <=> o < i /\ i <= o + window /\ log[i] \in Kinds
    BY <2>4, NewlinesAre
  <2>6. CASE ends = {} /\ Hopeless(window)
    <3>1. /\ ReadPage(o).next = o + window /\ ReadPage(o).lines = {}
          /\ ReadPage(o).more = (o + window < Len(log)) /\ window >= Page * Growth
      BY <2>2, <2>6 DEF Hopeless
    <3>2. ASSUME NEW a \in 0..o, CursorOk(a, o)
          PROVE  CursorOk(a, o + window) /\ Intact(a, o + window) = Intact(a, o)
      <4> HIDE DEF ends
      <4>1. \A i \in Nat : o < i /\ i <= o + window => log[i] \notin Kinds
        BY <2>5, <2>6
      <4>2. CursorOk(a, o + window)
        BY <1>1, <1>3, <2>1, <2>4, <3>1, <3>2, <4>1, SkipIs
      <4>3. Intact(a, o + window) = Intact(a, o)
        <5>1. NewlinesIn(a, o + window) = NewlinesIn(a, o)
          <6>1. \A i \in (a + 1)..(o + window) : log[i] \in Kinds => i \in (a + 1)..o
            BY <1>1, <2>4, <4>1
          <6>2. (a + 1)..o \subseteq (a + 1)..(o + window)
            BY <1>1, <2>1, <2>4
          <6> QED BY <6>1, <6>2 DEF NewlinesIn
        <5> QED BY <5>1 DEF Intact
      <4> QED BY <4>2, <4>3
    <3>3. ~ReadPage(o).more => NewlinesIn(o + window, Len(log)) = {}
      <4> DEFINE n == o + window
      <4>0. ReadPage(o).more <=> n < Len(log)
        BY <3>1, Zenon
      <4>1. n \in Nat /\ (~ReadPage(o).more => n = Len(log))
        BY <1>1, <2>4, <4>0
      <4> HIDE DEF n
      <4>2. ~ReadPage(o).more => NewlinesIn(n, Len(log)) = {}
        BY <1>1, <4>1 DEF NewlinesIn
      <4> QED BY <4>2 DEF n
    <3> QED BY <1>1, <2>1, <2>4, <3>1, <3>2, <3>3
  <2>7. CASE ends = {} /\ ~Hopeless(window)
    <3>1. /\ ReadPage(o).next = o /\ ReadPage(o).lines = {} /\ o + window >= Len(log)
      BY <1>1, <2>1, <2>2, <2>3, <2>7 DEF Hopeless
    <3>2. NewlinesIn(o, Len(log)) = {}
      BY <2>1, <2>4, <2>7, <3>1
    <3> QED BY <1>1, <3>1, <3>2
  <2>8. CASE ends # {}
    <3> DEFINE fresh == {i \in ends : o = 0 \/ log[o] # "part" \/ i # Min(ends)}
    <3>0. ReadPage(o) = [lines |-> fresh, next |-> Max(ends), more |-> more]
      BY <2>2, <2>8
    <3>1. ReadPage(o).next = Max(ends) /\ ReadPage(o).lines = fresh
      <4> HIDE DEF fresh, ends, more
      <4> QED BY <3>0
    <3>2. ReadPage(o).more <=> o + window < Len(log)
      <4>1. ReadPage(o).more = more
        <5> HIDE DEF fresh, ends, more
        <5> QED BY <3>0
      <4> QED BY <4>1
    <3>3. /\ Max(ends) \in ends /\ \A x \in ends : x <= Max(ends)
          /\ Min(ends) \in ends /\ \A x \in ends : Min(ends) <= x
      <4> HIDE DEF ends
      <4> QED BY <2>4, <2>5, <2>8, MaxOf, MinOf
    <3> DEFINE last == Max(ends)
               first == Min(ends)
    <3>4. /\ fresh \subseteq ends
          /\ \A i \in ends : i \in fresh <=> (o = 0 \/ log[o] # "part" \/ i # first)
      OBVIOUS
    <3>5. /\ last \in ends /\ \A x \in ends : x <= last
          /\ first \in ends /\ \A x \in ends : first <= x
      BY <3>3
    <3> HIDE DEF ends, last, first, fresh
    <3>6. last \in o..Len(log) /\ log[last] \in Kinds /\ last <= o + window
      BY <2>4, <2>5, <3>5, <1>1
    <3>7. ASSUME NEW a \in 0..o, CursorOk(a, o)
          PROVE  Intact(a, last) = Intact(a, o) \cup fresh
      <4>1. \A i \in ends : i \in fresh <=> (LineStart(i) > a /\ ~Overlong(i))
        <5> TAKE i \in ends
        <5>1. /\ i \in Nat \ {0} /\ o < i /\ i <= o + window /\ first \in Nat /\ o < first /\ first <= i
              /\ i <= Len(log) /\ first <= o + window
          BY <1>1, <2>4, <2>5, <3>5
        <5>2. \A j \in Nat : o < j /\ j < first => log[j] \notin Kinds
          BY <1>1, <2>1, <2>4, <2>5, <3>5, <5>1
        <5>3. log[first] \in Kinds
          BY <2>5, <3>5
        <5>4. (o = 0 \/ log[o] # "part" \/ i # first) <=> (LineStart(i) > a /\ ~Overlong(i))
          <6>1. window \in Nat /\ window <= Page * Growth
            BY <2>1
          <6>2. i \in Nat /\ first <= i /\ i <= o + window /\ first \in Nat /\ o < first
            BY <5>1
          <6> QED BY <3>7, <5>2, <5>3, <6>1, <6>2, LineInPage
        <5> QED BY <3>4, <5>4
      <4>2. NewlinesIn(a, last) = NewlinesIn(a, o) \cup ends
        <5>1. \A i \in Nat : a < i /\ i <= last <=> (a < i /\ i <= o) \/ (o < i /\ i <= last)
          BY <1>1, <3>6
        <5>2. \A i \in Nat : i \in ends <=> o < i /\ i <= last /\ log[i] \in Kinds
          BY <1>1, <2>1, <2>4, <2>5, <3>5, <3>6
        <5>3. ends \subseteq Nat /\ NewlinesIn(a, last) \subseteq Nat /\ NewlinesIn(a, o) \subseteq Nat
          BY <1>1, <2>5, <3>6, NewlinesAre
        <5>4. \A i \in Nat : i \in NewlinesIn(a, last) <=> a < i /\ i <= last /\ log[i] \in Kinds
          BY <1>1, <3>6, NewlinesAre
        <5>5. \A i \in Nat : i \in NewlinesIn(a, o) <=> a < i /\ i <= o /\ log[i] \in Kinds
          BY <1>1, <3>6, NewlinesAre
        <5> QED BY <5>1, <5>2, <5>3, <5>4, <5>5
      <4> QED BY <3>4, <4>1, <4>2 DEF Intact
    <3>8. ~ReadPage(o).more => NewlinesIn(last, Len(log)) = {}
      <4>1. SUFFICES ASSUME o + window >= Len(log), NEW i \in NewlinesIn(last, Len(log)) PROVE FALSE
        BY <1>1, <2>4, <3>2
      <4>2. i \in Nat /\ last < i /\ i <= Len(log) /\ log[i] \in Kinds
        BY <1>1, <3>6, NewlinesAre
      <4>3. i \in ends
        BY <1>1, <2>4, <2>5, <3>6, <4>1, <4>2
      <4> QED BY <3>5, <3>6, <4>2, <4>3
    <3>9. fresh \subseteq NewlinesIn(o, Len(log))
      <4>1. \A i \in ends : i \in NewlinesIn(o, Len(log))
        BY <1>1, <2>4, <2>5, NewlinesAre
      <4> QED BY <3>4, <4>1
    <3>10. ReadPage(o).next = last
      BY <3>1 DEF last
    <3> QED BY <3>1, <3>6, <3>7, <3>8, <3>9, <3>10 DEF CursorOk
  <2> QED BY <2>6, <2>7, <2>8
<1> QED BY <1>1, <1>2, <1>3

\* The fields of a session that the argument speaks of have their types.
Shaped(c) ==
  c \in [mode : Modes \cup {"none"}, at : {"out", "manifest", "probe", "page", "drain"},
         from : Nat, offset : Nat, shown : SUBSET Nat, tail : {c.tail}, jumped : BOOLEAN,
         late : {c.late}, due : {c.due}, aborted : {c.aborted}, saw : {c.saw}, answer : {c.answer}]

\* The run is over: its manifest is terminal or its runner is gone.
Over == manifest # "running" \/ ~alive

\* A session has been given exactly the whole lines behind its cursor; a watcher that
\* drains, or left, saw the run end.
Fair(c) ==
  /\ c.from <= c.offset /\ c.offset <= Len(log)
  /\ c.from = 0 \/ log[c.from] \in Kinds
  /\ ~c.jumped => CursorOk(c.from, c.offset) /\ c.shown = Intact(c.from, c.offset)
  /\ c.mode \in {"logs", "watch"} => c.from = 0 /\ ~c.jumped
  /\ c.at = "drain" => c.mode = "watch" /\ Over
  /\ c.mode = "watch" /\ c.at = "out" /\ c.answer # "detached"
       => Over /\ c.shown = Intact(0, Len(log))

\* The types of the log and of the sessions.
ReaderTypes ==
  /\ scene \in Scenes /\ log \in Seq(Cells)
  /\ session \in [Sessions -> {session[s] : s \in Sessions}]
  /\ \A s \in Sessions : Shaped(session[s])

\* The inductive invariant of the readers.
ReaderInv == ReaderTypes /\ \A s \in Sessions : Fair(session[s])

\* Lines depend on the log and on the page size alone.
LEMMA Unmoved ==
  ASSUME UNCHANGED <<scene, log>>
  PROVE  \A a, b : Intact(a, b)' = Intact(a, b) /\ (CursorOk(a, b)' <=> CursorOk(a, b))
BY DEF Intact, CursorOk, NewlinesIn, LineStart, Overlong, Page

\* A step that replaces one session by a fair one keeps the invariant.
LEMMA Kept ==
  ASSUME ReaderInv, UNCHANGED <<scene, log, manifest, alive>>, NEW s \in Sessions,
         NEW r, Shaped(r), Fair(r), session' = [session EXCEPT ![s] = r]
  PROVE  ReaderInv'
<1>1. \A t \in Sessions : session'[t] = IF t = s THEN r ELSE session[t]
  BY DEF ReaderInv, ReaderTypes
<1>2. ReaderTypes'
  <2>1. session' \in [Sessions -> {session'[t] : t \in Sessions}]
    BY DEF ReaderInv, ReaderTypes
  <2>2. \A t \in Sessions : Shaped(session'[t])
    BY <1>1 DEF ReaderInv, ReaderTypes
  <2> QED BY <2>1, <2>2 DEF ReaderInv, ReaderTypes, Shaped
<1>3. ASSUME NEW t \in Sessions PROVE Fair(session[t])'
  <2>1. Fair(session'[t])
    BY <1>1 DEF ReaderInv
  <2> QED BY <2>1, Unmoved DEF Fair, Over
<1> QED BY <1>2, <1>3 DEF ReaderInv

\* A session that only waits, looks or leaves stays fair.
LEMMA Stays ==
  ASSUME NEW c, Fair(c), NEW r, r.mode = c.mode, r.from = c.from, r.offset = c.offset,
         r.shown = c.shown, r.jumped = c.jumped,
         r.at = "drain" => r.mode = "watch" /\ Over,
         r.mode = "watch" /\ r.at = "out" => r.answer = "detached"
  PROVE  Fair(r)
BY DEF Fair

\* A session that jumped owes the lines behind its cursor to nobody.
LEMMA JumpedIs ==
  ASSUME NEW c, Fair(c), NEW r, r.mode = c.mode, c.mode \notin {"logs", "watch"}, r.from = c.from,
         r.from <= r.offset, r.offset <= Len(log), r.jumped, r.at = "manifest"
  PROVE  Fair(r)
<1>1. /\ r.from = 0 \/ log[r.from] \in Kinds
      /\ ~(r.at = "drain")
      /\ r.mode \notin {"logs", "watch"}
      /\ ~(r.mode = "watch")
  BY DEF Fair
<1> QED BY <1>1, Zenon DEF Fair

\* A page of a fair session ends inside the log.
LEMMA PageTyped ==
  ASSUME ReaderTypes, NEW c, Shaped(c), Fair(c)
  PROVE  /\ ReadPage(c.offset).next \in c.offset..Len(log) /\ ReadPage(c.offset).lines \in SUBSET Nat
         /\ ReadPage(c.offset).next \in Nat
<1>1. log \in Seq(Cells) /\ scene \in Scenes
  BY DEF ReaderTypes
<1>2. PICK o \in 0..Len(log) : o = c.offset
  BY DEF Shaped, Fair
<1>3. /\ ReadPage(o).next \in o..Len(log)
      /\ ReadPage(o).lines \subseteq NewlinesIn(o, Len(log))
  BY <1>1, PageIs
<1>4. NewlinesIn(o, Len(log)) \subseteq Nat
  BY <1>1 DEF NewlinesIn
<1> QED BY <1>1, <1>2, <1>3, <1>4

\* A session that takes a page, and leaves a drain on the last one only, stays fair.
LEMMA Reads ==
  ASSUME ReaderTypes, NEW c, Shaped(c), Fair(c), NEW r, Shaped(r), r.mode = c.mode,
         r.from = c.from,
         r.offset = ReadPage(c.offset).next, r.shown = c.shown \cup ReadPage(c.offset).lines,
         r.jumped = c.jumped,
         r.at = "drain" => r.mode = "watch" /\ Over,
         r.mode = "watch" /\ r.at = "out" /\ r.answer # "detached" => Over /\ ~ReadPage(c.offset).more
  PROVE  Fair(r)
<1>1. /\ c.offset \in 0..Len(log) /\ c.from \in 0..c.offset /\ Len(log) \in Nat
  BY DEF Shaped, Fair, ReaderTypes
<1>2. /\ r.offset \in c.offset..Len(log)
      /\ CursorOk(c.from, c.offset) =>
              /\ CursorOk(c.from, r.offset)
              /\ Intact(c.from, r.offset) = Intact(c.from, c.offset) \cup ReadPage(c.offset).lines
      /\ ~ReadPage(c.offset).more => NewlinesIn(r.offset, Len(log)) = {}
  <2>1. log \in Seq(Cells) /\ scene \in Scenes
    BY DEF ReaderTypes
  <2>2. PICK o \in 0..Len(log) : o = c.offset
    BY <1>1
  <2>3. /\ ReadPage(o).next \in o..Len(log)
        /\ \A a \in 0..o : CursorOk(a, o) =>
             /\ CursorOk(a, ReadPage(o).next)
             /\ Intact(a, ReadPage(o).next) = Intact(a, o) \cup ReadPage(o).lines
        /\ ~ReadPage(o).more => NewlinesIn(ReadPage(o).next, Len(log)) = {}
    BY <2>1, PageIs
  <2> QED BY <1>1, <2>2, <2>3
<1>3. r.from <= r.offset /\ r.offset <= Len(log)
  BY <1>1, <1>2
<1>4. ~r.jumped => CursorOk(r.from, r.offset) /\ r.shown = Intact(r.from, r.offset)
  BY <1>2 DEF Fair
<1>5. ~ReadPage(c.offset).more => Intact(r.from, r.offset) = Intact(r.from, Len(log))
  <2> SUFFICES ASSUME NewlinesIn(r.offset, Len(log)) = {}
               PROVE  NewlinesIn(r.from, r.offset) = NewlinesIn(r.from, Len(log))
    BY <1>2 DEF Intact
  <2> QED BY <1>1, <1>2 DEF NewlinesIn
<1>6. r.mode = "watch" /\ r.at = "out" /\ r.answer # "detached" => Over /\ r.shown = Intact(0, Len(log))
  BY <1>4, <1>5 DEF Fair
<1> QED BY <1>3, <1>4, <1>6 DEF Fair

\* The runner appends while nobody has seen the run end.
LEMMA LogStep ==
  ASSUME ReaderInv, NEW cell \in Cells, Write(cell)
  PROVE  ReaderInv'
<1>1. log \in Seq(Cells) /\ log' = Append(log, cell) /\ UNCHANGED <<scene, session, manifest, alive>>
  BY DEF Write, ReaderInv, ReaderTypes
<1>2. /\ log' \in Seq(Cells) /\ Len(log') = Len(log) + 1
      /\ \A i \in 1..Len(log) : log'[i] = log[i] /\ LineStart(i)' = LineStart(i)
      /\ \A a \in Nat, b \in 0..Len(log) : Intact(a, b)' = Intact(a, b)
  BY <1>1, LogGrows
<1>3. ReaderTypes'
  BY <1>1, <1>2 DEF ReaderInv, ReaderTypes, Shaped
<1>4. ASSUME NEW s \in Sessions PROVE Fair(session[s])'
  <2> DEFINE c == session[s]
  <2>1. Fair(c) /\ c.from \in Nat /\ c.offset \in Nat /\ c.from <= c.offset /\ c.offset <= Len(log)
        /\ Len(log) \in Nat
    BY <1>1 DEF ReaderInv, ReaderTypes, Shaped, Fair
  <2>2. c.offset \in 0..Len(log) /\ c.from \in 0..Len(log) /\ Len(log) <= Len(log')
    BY <1>2, <2>1
  <2>3. CursorOk(c.from, c.offset) => CursorOk(c.from, c.offset)'
    <3>1. UNCHANGED Page
      BY <1>1 DEF Page
    <3>2. c.offset # 0 => log'[c.offset] = log[c.offset] /\ LineStart(c.offset)' = LineStart(c.offset)
      BY <1>1, <1>2, <2>2
    <3>3. UNCHANGED c
      BY <1>1
    <3> HIDE DEF c
    <3> QED BY <3>1, <3>2, <3>3 DEF CursorOk
  <2>4. c.from # 0 => log'[c.from] = log[c.from]
    BY <1>2, <2>2
  <2>5. manifest = "running" /\ alive
    BY DEF Write
  <2>6. UNCHANGED c /\ UNCHANGED Intact(c.from, c.offset)
    BY <1>1, <1>2, <2>2
  <2> QED BY <1>2, <2>1, <2>2, <2>3, <2>4, <2>5, <2>6 DEF Fair, Over
<1> QED BY <1>3, <1>4 DEF ReaderInv

\* The end of a run is final.
LEMMA EndStep ==
  ASSUME ReaderInv, Finish \/ Die \/ Reap
  PROVE  ReaderInv'
<1>1. UNCHANGED <<scene, log, session>> /\ (Over => Over')
  BY DEF Finish, Die, Reap, Over, ReaderInv
<1>2. ReaderTypes'
  BY <1>1 DEF ReaderInv, ReaderTypes, Shaped
<1>3. ASSUME NEW s \in Sessions PROVE Fair(session[s])'
  BY <1>1, Unmoved DEF ReaderInv, Fair
<1> QED BY <1>2, <1>3 DEF ReaderInv

\* A session opens at the top or right after a newline.
LEMMA OpenStep ==
  ASSUME ReaderInv, NEW s \in Sessions, NEW mode \in Modes, NEW from \in 0..Len(log),
         Open(s, mode, from)
  PROVE  ReaderInv'
<1> DEFINE r == [Idle EXCEPT !.mode = mode, !.from = from, !.offset = from,
                             !.at = IF mode \in HoldModes THEN "manifest" ELSE "page"]
<1>1. session' = [session EXCEPT ![s] = r] /\ UNCHANGED <<scene, log, manifest, alive>>
  BY DEF Open
<1>2. log \in Seq(Cells) /\ Len(log) \in Nat
  BY DEF ReaderInv, ReaderTypes
<1>3. from \in Nat /\ from <= Len(log) /\ (from = 0 \/ log[from] \in Kinds)
      /\ (mode \in {"logs", "watch"} => from = 0)
  BY <1>2, NewlinesAre DEF Open, HoldModes
<1>4. Intact(from, from) = {}
  BY <1>3 DEF Intact, NewlinesIn
<1>5. Shaped(r)
  BY <1>3 DEF Shaped, Idle
<1>6. Fair(r)
  <2>1. r.from = from /\ r.offset = from /\ r.mode = mode /\ r.at \in {"manifest", "page"} /\ r.shown = {}
    BY DEF Idle
  <2>2. ~r.jumped
    BY DEF Idle
  <2> HIDE DEF r
  <2> QED BY <1>3, <1>4, <2>1, <2>2 DEF Fair, CursorOk
<1> HIDE DEF r
<1> QED BY <1>1, <1>5, <1>6, Kept

\* The steps of a reader that read no page.
LEMMA WaitStep ==
  ASSUME ReaderInv, NEW s \in Sessions,
         \/ Hurry(s, "due") \/ Hurry(s, "aborted") \/ Detach(s)
         \/ ReadManifest(s) \/ ProbeRunner(s) \/ HardExit(s)
  PROVE  ReaderInv'
<1> DEFINE c == session[s]
           r == session'[s]
<1>1. UNCHANGED <<scene, log, manifest, alive>>
  BY DEF Hurry, Detach, ReadManifest, ProbeRunner, HardExit
<1>2. Shaped(c) /\ Fair(c) /\ ReaderTypes
  BY DEF ReaderInv, ReaderTypes
<1>3. /\ session' = [session EXCEPT ![s] = r] /\ Shaped(r)
      /\ r.mode = c.mode /\ r.from = c.from /\ r.offset = c.offset
      /\ r.shown = c.shown /\ r.jumped = c.jumped
      /\ (r.at = "drain" => r.mode = "watch" /\ Over)
      /\ (r.mode = "watch" /\ r.at = "out" => r.answer = "detached")
  <2>1. CASE Hurry(s, "due")
    <3>1. r = [c EXCEPT !.due = TRUE] /\ c.mode \in HoldModes
      BY <1>2, <2>1 DEF Hurry, ReaderTypes
    <3> QED BY <1>2, <2>1, <3>1 DEF Hurry, ReaderTypes, Shaped, Fair, HoldModes
  <2>2. CASE Hurry(s, "aborted")
    <3>1. r = [c EXCEPT !.aborted = TRUE] /\ c.mode \in HoldModes
      BY <1>2, <2>2 DEF Hurry, ReaderTypes
    <3> QED BY <1>2, <2>2, <3>1 DEF Hurry, ReaderTypes, Shaped, Fair, HoldModes
  <2>3. CASE Detach(s)
    <3>1. r = [c EXCEPT !.at = "out", !.answer = "detached"]
      BY <1>2, <2>3 DEF Detach, ReaderTypes
    <3> QED BY <1>2, <2>3, <3>1 DEF Detach, ReaderTypes, Shaped
  <2>4. CASE ReadManifest(s)
    <3> DEFINE at == CASE c.mode = "logs" -> IF Terminal(manifest) THEN "out" ELSE "page"
                       [] Terminal(manifest) -> IF c.mode = "watch" THEN "drain" ELSE "page"
                       [] OTHER -> "probe"
               reply == IF c.mode = "logs" /\ Terminal(manifest) THEN manifest ELSE c.answer
    <3>1. r = [c EXCEPT !.saw = manifest, !.at = at, !.answer = reply]
      BY <1>2, <2>4 DEF ReadManifest, ReaderTypes
    <3>2. /\ at \in {"out", "page", "drain", "probe"}
          /\ (at = "drain" => c.mode = "watch" /\ manifest # "running")
          /\ (c.mode = "watch" => at # "out")
      BY DEF Terminal
    <3> HIDE DEF at, reply
    <3> QED BY <1>2, <2>4, <3>1, <3>2 DEF ReadManifest, ReaderTypes, Shaped, Over
  <2>5. CASE ProbeRunner(s)
    <3> DEFINE at == IF c.mode = "watch" /\ ~alive THEN "drain" ELSE "page"
               saw == IF alive THEN "running" ELSE "orphaned"
    <3>1. r = [c EXCEPT !.saw = saw, !.at = at]
      BY <1>2, <2>5 DEF ProbeRunner, ReaderTypes
    <3>2. at \in {"page", "drain"} /\ (at = "drain" => c.mode = "watch" /\ ~alive)
      OBVIOUS
    <3> HIDE DEF at, saw
    <3> QED BY <1>2, <2>5, <3>1, <3>2 DEF ProbeRunner, ReaderTypes, Shaped, Over
  <2>6. CASE HardExit(s)
    <3>1. r = [c EXCEPT !.at = "out", !.answer = "hard exit"] /\ c.mode \in HoldModes
      BY <1>2, <2>6 DEF HardExit, ReaderTypes
    <3> QED BY <1>2, <2>6, <3>1 DEF HardExit, ReaderTypes, Shaped, HoldModes
  <2> QED BY <2>1, <2>2, <2>3, <2>4, <2>5, <2>6
<1> HIDE DEF c, r
<1>4. Fair(r)
  BY <1>2, <1>3, Stays
<1> QED BY <1>1, <1>3, <1>4, Kept

\* logs and watch print a page.
LEMMA PrintStep ==
  ASSUME ReaderInv, NEW s \in Sessions, ShowPage(s) \/ Drain(s)
  PROVE  ReaderInv'
<1> DEFINE c == session[s]
           page == ReadPage(c.offset)
           r == session'[s]
<1>1. UNCHANGED <<scene, log, manifest, alive>>
  BY DEF ShowPage, Drain
<1>2. Shaped(c) /\ Fair(c) /\ ReaderTypes
  BY DEF ReaderInv, ReaderTypes
<1>3. page.next \in Nat /\ page.lines \in SUBSET Nat
  BY <1>2, PageTyped
<1>4. /\ session' = [session EXCEPT ![s] = r] /\ Shaped(r)
      /\ r.mode = c.mode /\ r.from = c.from /\ r.offset = page.next
      /\ r.shown = c.shown \cup page.lines /\ r.jumped = c.jumped
      /\ (r.at = "drain" => r.mode = "watch" /\ Over)
      /\ (r.mode = "watch" /\ r.at = "out" /\ r.answer # "detached" => Over /\ ~page.more)
  <2>1. CASE ShowPage(s)
    <3> DEFINE at == IF page.more /\ c.mode = "logs" THEN "page" ELSE "manifest"
    <3>1. r = [c EXCEPT !.offset = page.next, !.shown = c.shown \cup page.lines, !.at = at]
      BY <1>2, <2>1 DEF ShowPage, ReaderTypes
    <3>2. at \in {"page", "manifest"}
      OBVIOUS
    <3>3. session' = [session EXCEPT ![s] = r]
      BY <1>2, <2>1 DEF ShowPage, ReaderTypes
    <3> HIDE DEF page, at, r
    <3> QED BY <1>2, <1>3, <3>1, <3>2, <3>3 DEF Shaped
  <2>2. CASE Drain(s)
    <3> DEFINE at == IF DrainEnds(page) THEN "out" ELSE "drain"
               reply == IF DrainEnds(page) THEN c.saw ELSE c.answer
    <3>1. r = [c EXCEPT !.offset = page.next, !.shown = c.shown \cup page.lines,
                        !.at = at, !.answer = reply]
      BY <1>2, <2>2 DEF Drain, DrainLines, ReaderTypes
    <3>2. at \in {"out", "drain"} /\ (at = "out" => ~page.more)
      BY DEF DrainEnds
    <3>3. session' = [session EXCEPT ![s] = r]
      BY <1>2, <2>2 DEF Drain, ReaderTypes
    <3>4. c.mode = "watch" /\ Over
      BY <1>2, <2>2 DEF Drain, Fair
    <3> HIDE DEF page, at, reply, r
    <3> QED BY <1>2, <1>3, <3>1, <3>2, <3>3, <3>4 DEF Shaped
  <2> QED BY <2>1, <2>2
<1>5. Fair(r)
  <2> HIDE DEF c, r
  <2> QED BY <1>2, <1>4, Reads
<1> HIDE DEF c, r, page
<1> QED BY <1>1, <1>4, <1>5, Kept

\* A hold takes a page, and may jump past what is left.
LEMMA HoldStep ==
  ASSUME ReaderInv, NEW s \in Sessions, NEW stale \in BOOLEAN, HoldPage(s, stale)
  PROVE  ReaderInv'
<1> DEFINE c == session[s]
           page == ReadPage(c.offset)
           r == session'[s]
           phaseHit == PhaseHit(s, page)
           tail == LastOf(c.tail \o Keep(page, phaseHit), TailLines)
           land == Max({page.next, Max({0, Len(log) - Page})})
           read == [c EXCEPT !.offset = page.next, !.shown = c.shown \cup page.lines, !.tail = tail]
<1>1. UNCHANGED <<scene, log, manifest, alive>> /\ c.mode \in HoldModes
  BY DEF HoldPage
<1>2. Shaped(c) /\ Fair(c) /\ ReaderTypes /\ c.mode \notin {"logs", "watch"}
  BY <1>1 DEF ReaderInv, ReaderTypes, HoldModes
<1>3. page.next \in Nat /\ page.lines \in SUBSET Nat
  BY <1>2, PageTyped
<1>4. CASE Jumps(s, page)
  <2> DEFINE jumped == c.jumped \/ land > page.next
             kept == IF land > page.next THEN <<>> ELSE tail
             late == IF c.due THEN c.late + 1 ELSE c.late
  <2>1. r = [read EXCEPT !.offset = land, !.at = "manifest", !.tail = kept,
                         !.jumped = jumped, !.late = late]
        /\ session' = [session EXCEPT ![s] = r]
    BY <1>2, <1>4 DEF HoldPage, ReaderTypes
  <2>2. land \in Nat /\ page.next <= land /\ land <= Len(log)
    <3>1. page.next <= Len(log) /\ Len(log) \in Nat /\ Page \in Nat
      BY <1>2, PageTyped, ScenesAssumption DEF ReaderTypes, Page
    <3>2. Max({0, Len(log) - Page}) \in 0..Len(log)
      BY <3>1, MaxPair
    <3> DEFINE top == Max({0, Len(log) - Page})
    <3>3. land = IF page.next >= top THEN page.next ELSE top
      <4>1. page.next \in Int /\ top \in Int
        BY <1>3, <3>1, <3>2
      <4>2. land = Max({page.next, top})
        OBVIOUS
      <4> HIDE DEF page, top, land
      <4> QED BY <4>1, <4>2, MaxPair
    <3> HIDE DEF page, top, land
    <3> QED BY <1>3, <3>1, <3>2, <3>3 DEF top
  <2>3. jumped \in BOOLEAN /\ (jumped <=> c.jumped \/ land > page.next)
    BY <1>2 DEF Shaped
  <2> HIDE DEF page, land, jumped, kept, late, tail, r
  <2>4. /\ Shaped(r) /\ r.mode = c.mode /\ r.from = c.from /\ r.offset = land /\ r.at = "manifest"
        /\ r.shown = c.shown \cup page.lines
    BY <1>2, <1>3, <2>1, <2>2, <2>3 DEF Shaped
  <2>5. r.jumped = jumped
    BY <1>2, <2>1 DEF Shaped
  <2>6. r.jumped <=> c.jumped \/ land > page.next
    BY <2>3, <2>5, Zenon
  <2>7. /\ c.from \in Nat /\ c.offset \in Nat /\ c.from <= c.offset /\ c.offset <= page.next
        /\ Len(log) \in Nat
    <3>1. page.next \in c.offset..Len(log)
      BY <1>2, PageTyped DEF page
    <3> QED BY <1>2, <1>3, <3>1 DEF Shaped, Fair, ReaderTypes
  <2>8. ASSUME r.jumped PROVE Fair(r)
    <3>1. r.from <= r.offset /\ r.offset <= Len(log)
      BY <1>3, <2>2, <2>4, <2>7
    <3> HIDE DEF c
    <3> QED BY <1>2, <2>4, <2>8, <3>1, JumpedIs
  <2>9. ASSUME ~r.jumped PROVE Fair(r)
    <3>1. ~c.jumped /\ land = page.next
      <4>1. ~(land > page.next) /\ ~c.jumped
        BY <2>6, <2>9, Zenon
      <4> QED BY <1>3, <2>2, <4>1
    <3>2. r.jumped \in BOOLEAN /\ c.jumped \in BOOLEAN
      BY <1>2, <2>4 DEF Shaped
    <3>3. r.jumped = c.jumped
      BY <2>9, <3>1, <3>2, Zenon
    <3>4. r.offset = page.next
      BY <2>4, <3>1
    <3> HIDE DEF c
    <3> QED BY <1>2, <2>4, <3>3, <3>4, Reads DEF page
  <2>10. Fair(r)
    BY <2>8, <2>9, Zenon
  <2> HIDE DEF c
  <2> QED BY <1>1, <2>1, <2>4, <2>10, Kept
<1>5. CASE ~Jumps(s, page)
  <2>1. PICK at, reply : /\ r = [read EXCEPT !.at = at, !.answer = reply]
                          /\ session' = [session EXCEPT ![s] = r]
                          /\ at \in {"out", "manifest"}
    <3> DEFINE terminal == Terminal(c.saw)
               reply == CASE terminal -> "terminal" [] phaseHit -> "phase" [] OTHER -> "woken"
    <3>1. \/ session' = [session EXCEPT ![s] = [read EXCEPT !.at = "out", !.answer = reply]]
          \/ session' = [session EXCEPT ![s] = [read EXCEPT !.at = "manifest"]]
      BY <1>5, Zenon DEF HoldPage
    <3> HIDE DEF reply, page, tail
    <3>2. CASE session' = [session EXCEPT ![s] = [read EXCEPT !.at = "out", !.answer = reply]]
      BY <1>2, <3>2 DEF ReaderTypes
    <3>3. CASE session' = [session EXCEPT ![s] = [read EXCEPT !.at = "manifest"]]
      <4>1. r = [read EXCEPT !.at = "manifest"] /\ session' = [session EXCEPT ![s] = r]
        BY <1>2, <3>3 DEF ReaderTypes
      <4>2. r = [read EXCEPT !.at = "manifest", !.answer = c.answer]
        BY <1>2, <4>1 DEF Shaped
      <4> QED BY <4>1, <4>2
    <3> QED BY <3>1, <3>2, <3>3
  <2> HIDE DEF page, tail, r
  <2>2. /\ Shaped(r) /\ r.mode = c.mode /\ r.from = c.from /\ r.offset = page.next /\ r.at = at
        /\ r.shown = c.shown \cup page.lines
    BY <1>2, <1>3, <2>1 DEF Shaped
  <2>3. r.jumped = c.jumped
    BY <1>2, <2>1 DEF Shaped
  <2> HIDE DEF c
  <2>4. Fair(r)
    BY <1>2, <2>1, <2>2, <2>3, Reads DEF page
  <2> QED BY <1>1, <2>1, <2>2, <2>4, Kept
<1> QED BY <1>4, <1>5

\* ReaderInv is invariant.
LEMMA ReaderHolds == Spec => []ReaderInv
<1>1. Init => ReaderInv
  <2> SUFFICES ASSUME Init PROVE ReaderInv
    OBVIOUS
  <2>1. ReaderTypes
    <3>1. \A s \in Sessions : session[s] = Idle
      BY DEF Init
    <3>2. Shaped(Idle)
      BY DEF Shaped, Idle
    <3>3. session \in [Sessions -> {session[s] : s \in Sessions}]
      BY DEF Init
    <3>4. log \in Seq(Cells) /\ scene \in Scenes
      BY DEF Init
    <3> QED BY <3>1, <3>2, <3>3, <3>4 DEF ReaderTypes
  <2>2. Intact(0, 0) = {}
    BY DEF Intact, NewlinesIn
  <2>3. ASSUME NEW s \in Sessions PROVE Fair(session[s])
    <3>1. session[s] = Idle /\ Len(log) = 0
      BY DEF Init
    <3> QED BY <2>2, <3>1 DEF Idle, Fair, CursorOk
  <2> QED BY <2>1, <2>3 DEF ReaderInv
<1>2. ReaderInv /\ [Next]_vars => ReaderInv'
  <2> SUFFICES ASSUME ReaderInv, [Next]_vars PROVE ReaderInv'
    OBVIOUS
  <2>1. CASE \E cell \in Kinds \cup {"part"} : Write(cell)
    BY <2>1, LogStep DEF Cells
  <2>2. CASE Finish \/ Die \/ Reap
    BY <2>2, EndStep
  <2>3. ASSUME NEW s \in Sessions, NEW mode \in Modes, NEW from \in 0..Len(log), Open(s, mode, from)
        PROVE  ReaderInv'
    BY <2>3, OpenStep
  <2>4. ASSUME NEW s \in Sessions, Hurry(s, "due") \/ Hurry(s, "aborted") \/ Detach(s) \/ Advance(s)
        PROVE  ReaderInv'
    BY <2>4, WaitStep, PrintStep, HoldStep DEF Advance
  <2>5. CASE UNCHANGED vars
    BY <2>5, Unmoved DEF vars, ReaderInv, ReaderTypes, Fair, Over, Shaped
  <2> QED BY <2>1, <2>2, <2>3, <2>4, <2>5 DEF Next
<1> QED BY <1>1, <1>2, PTL DEF Spec

\* No reader loses, repeats or invents an event, for any page size, growth cap and number
\* of sessions, whatever is torn, clipped or skipped.
THEOREM ReadersHonest == Spec => []CursorHonest
<1>1. ReaderInv => CursorHonest
  BY DEF ReaderInv, ReaderTypes, Shaped, Fair, CursorHonest
<1> QED BY <1>1, ReaderHolds, PTL

\* A watcher that saw the run end has shown all of its events: its drain ends on an empty
\* page of a log nobody writes any more.
THEOREM WatchersComplete == Spec => []WatchShowsTheEnd
<1>1. ReaderInv => WatchShowsTheEnd
  BY DEF ReaderInv, Fair, WatchShowsTheEnd
<1> QED BY <1>1, ReaderHolds, PTL

\* The members of a sequence with one more.
LEMMA AppendSet ==
  ASSUME NEW T, NEW h \in Seq(T), NEW x \in T
  PROVE  ToSet(Append(h, x)) = ToSet(h) \cup {x}
<1>1. ToSet(Append(h, x)) \subseteq ToSet(h) \cup {x}
  BY DEF ToSet
<1>2. ToSet(h) \subseteq ToSet(Append(h, x))
  BY DEF ToSet
<1>3. x \in ToSet(Append(h, x))
  <2>1. Append(h, x)[Len(h) + 1] = x /\ Len(h) + 1 \in DOMAIN Append(h, x)
    OBVIOUS
  <2> QED BY <2>1 DEF ToSet
<1> QED BY <1>1, <1>2, <1>3

\* No session holds twice.
Distinct(h) == \A i, j \in DOMAIN h : h[i] = h[j] => i = j

\* RemoveAt takes one member of a sequence without repetitions away.
LEMMA RemoveSet ==
  ASSUME NEW T, NEW h \in Seq(T), Distinct(h), NEW i \in DOMAIN h
  PROVE  /\ RemoveAt(h, i) \in Seq(T) /\ Len(RemoveAt(h, i)) = Len(h) - 1
         /\ Distinct(RemoveAt(h, i)) /\ ToSet(RemoveAt(h, i)) = ToSet(h) \ {h[i]}
<1> DEFINE g == RemoveAt(h, i)
           back(j) == IF j < i THEN j ELSE j + 1
<1>1. i \in 1..Len(h) /\ Len(h) \in Nat
  OBVIOUS
<1>2. g \in Seq(T) /\ Len(g) = Len(h) - 1
  <2> DEFINE left == SubSeq(h, 1, i - 1)
             right == SubSeq(h, i + 1, Len(h))
  <2>1. left \in Seq(T) /\ Len(left) = i - 1 /\ right \in Seq(T) /\ Len(right) = Len(h) - i
    BY <1>1
  <2>2. g = left \o right
    BY DEF RemoveAt
  <2> HIDE DEF left, right, g
  <2> QED BY <1>1, <2>1, <2>2
<1>3. \A j \in 1..Len(g) : g[j] = h[back(j)] /\ back(j) \in 1..Len(h) /\ back(j) # i
  <2> DEFINE left == SubSeq(h, 1, i - 1)
             right == SubSeq(h, i + 1, Len(h))
  <2>1. left \in Seq(T) /\ Len(left) = i - 1 /\ \A k \in 1..(i - 1) : left[k] = h[k]
    BY <1>1
  <2>2. right \in Seq(T) /\ Len(right) = Len(h) - i /\ \A k \in 1..(Len(h) - i) : right[k] = h[k + i]
    BY <1>1
  <2>3. g = left \o right
    BY DEF RemoveAt
  <2> HIDE DEF left, right, g
  <2> TAKE j \in 1..Len(g)
  <2>4. CASE j < i
    <3>1. g[j] = left[j]
      BY <1>1, <2>1, <2>2, <2>3, <2>4
    <3> QED BY <1>1, <1>2, <2>1, <2>4, <3>1
  <2>5. CASE ~(j < i)
    <3>1. g[j] = right[j - (i - 1)] /\ j - (i - 1) \in 1..(Len(h) - i)
      BY <1>1, <1>2, <2>1, <2>2, <2>3, <2>5
    <3>2. right[j - (i - 1)] = h[j - (i - 1) + i] /\ j - (i - 1) + i = j + 1
      BY <1>1, <2>2, <3>1
    <3> QED BY <1>1, <1>2, <2>5, <3>1, <3>2
  <2> QED BY <2>4, <2>5
<1> HIDE DEF g
<1>4. Distinct(g)
  <2> SUFFICES ASSUME NEW j \in 1..Len(g), NEW k \in 1..Len(g), g[j] = g[k] PROVE j = k
    BY <1>2 DEF Distinct
  <2>1. back(j) = back(k)
    <3> HIDE DEF back
    <3>1. back(j) \in DOMAIN h /\ back(k) \in DOMAIN h /\ h[back(j)] = h[back(k)]
      BY <1>3
    <3> QED BY <3>1 DEF Distinct
  <2> QED BY <1>1, <1>2, <2>1
<1>5. ToSet(g) \subseteq ToSet(h) \ {h[i]}
  <2> SUFFICES ASSUME NEW j \in 1..Len(g) PROVE g[j] \in ToSet(h) \ {h[i]}
    BY <1>2 DEF ToSet
  <2> QED BY <1>1, <1>3 DEF ToSet, Distinct
<1>6. ToSet(h) \ {h[i]} \subseteq ToSet(g)
  <2> SUFFICES ASSUME NEW k \in 1..Len(h), k # i PROVE h[k] \in ToSet(g)
    BY DEF ToSet
  <2> DEFINE j == IF k < i THEN k ELSE k - 1
  <2>1. j \in 1..Len(g) /\ back(j) = k
    BY <1>1, <1>2
  <2> HIDE DEF back, j
  <2>2. g[j] = h[k]
    BY <1>3, <2>1
  <2> QED BY <1>2, <2>1, <2>2 DEF ToSet
<1> QED BY <1>2, <1>4, <1>5, <1>6 DEF g

\* A hold in progress.
InHold(c) == c.mode \in HoldModes /\ c.at # "out"

\* The inductive invariant of activeHolds.
HoldsInv ==
  /\ holds \in Seq(Sessions) /\ Distinct(holds)
  /\ Registered = {s \in Sessions : InHold(session[s])}
  /\ IsFiniteSet(Registered) /\ Len(holds) = Cardinality(Registered)
  /\ preempted \subseteq Registered /\ Cardinality(Live) <= MaxHolds

\* A registration marks one hold at most, and one is enough: it adds one.
LEMMA Joins ==
  ASSUME HoldsInv, NEW s \in Sessions, ~InHold(session[s]), InHold(session'[s]),
         \A t \in Sessions \ {s} : session'[t] = session[t], Registration(s)
  PROVE  HoldsInv'
<1> DEFINE joined == Append(holds, s)
           live == ToSet(joined) \ preempted
<1>1. s \notin Registered /\ holds \in Seq(Sessions) /\ joined \in Seq(Sessions) /\ holds' = joined
  BY DEF HoldsInv, Registration
<1>2. ToSet(joined) = Registered \cup {s}
  BY <1>1, AppendSet DEF Registered
<1>3. Registered' = Registered \cup {s}
  BY <1>1, <1>2 DEF Registered
<1>4. IsFiniteSet(Registered') /\ Cardinality(Registered') = Cardinality(Registered) + 1
  BY <1>1, <1>3, FS_AddElement DEF HoldsInv
<1>5. Len(joined) = Len(holds) + 1 /\ Distinct(joined)
  <2>1. Len(joined) = Len(holds) + 1 /\ Len(holds) \in Nat
    BY <1>1
  <2>2. \A i \in 1..Len(holds) : joined[i] = holds[i] /\ holds[i] \in Registered
    BY <1>1 DEF Registered, ToSet
  <2>3. joined[Len(holds) + 1] = s
    BY <1>1
  <2> SUFFICES ASSUME NEW i \in 1..Len(joined), NEW j \in 1..Len(joined),
      joined[i] = joined[j] PROVE i = j
    BY <1>1, <2>1 DEF Distinct
  <2> HIDE DEF joined
  <2>4. i \in 1..Len(holds) /\ j \in 1..Len(holds) => i = j
    BY <2>2 DEF Distinct, HoldsInv
  <2> QED BY <1>1, <2>1, <2>2, <2>3, <2>4
<1>6. live = Live \cup {s} /\ s \notin Live /\ IsFiniteSet(Live) /\ Cardinality(Live) \in Nat
  <2>1. IsFiniteSet(Live)
    BY FS_Subset DEF HoldsInv, Live
  <2> QED BY <1>1, <1>2, <2>1, FS_CardinalityType DEF Live, HoldsInv
<1>7. IsFiniteSet(live) /\ Cardinality(live) = Cardinality(Live) + 1
  <2> HIDE DEF live
  <2> QED BY <1>6, FS_AddElement
<1>8. MaxHolds \in Nat \ {0}
  BY ReadersAssumption
<1>9. preempted' \subseteq Registered' /\ Cardinality(Registered' \ preempted') <= MaxHolds
  <2>1. CASE Cardinality(live) > MaxHolds
    <3>1. preempted' = preempted \cup {Oldest(joined, live)}
      BY <2>1 DEF Registration
    <3>2. Oldest(joined, live) \in live
      <4> DEFINE at == {i \in DOMAIN joined : joined[i] \in live}
      <4>1. at \in SUBSET Nat
        BY <1>1
      <4>2. at # {}
        <5>1. Len(holds) + 1 \in DOMAIN joined /\ joined[Len(holds) + 1] = s /\ s \in live
          <6> HIDE DEF live
          <6> QED BY <1>1, <1>6
        <5> QED BY <5>1
      <4>3. Min(at) \in at
        <5> HIDE DEF at
        <5> QED BY <4>1, <4>2, MinOf
      <4> QED BY <4>3 DEF Oldest
    <3> HIDE DEF live
    <3>3. Registered' \ preempted' = live \ {Oldest(joined, live)}
      BY <1>2, <1>3, <3>1 DEF live
    <3>4. Cardinality(live \ {Oldest(joined, live)}) = Cardinality(live) - 1
      BY <1>7, <3>2, FS_RemoveElement
    <3>5. preempted' \subseteq Registered'
      BY <1>2, <1>3, <3>1, <3>2 DEF live, HoldsInv
    <3>6. Cardinality(Registered' \ preempted') = Cardinality(Live)
      <4>1. Cardinality(live) - 1 = Cardinality(Live)
        BY <1>6, <1>7
      <4>2. Cardinality(live \ {Oldest(joined, live)}) = Cardinality(Live)
        BY <3>4, <4>1
      <4> QED BY <3>3, <4>2
    <3>7. Cardinality(Live) <= MaxHolds
      BY DEF HoldsInv
    <3> QED BY <3>5, <3>6, <3>7
  <2>2. CASE ~(Cardinality(live) > MaxHolds)
    <3>1. preempted' = preempted /\ Registered' \ preempted' = live
      BY <1>2, <1>3, <2>2 DEF Registration
    <3>2. Cardinality(live) <= MaxHolds
      <4> HIDE DEF live
      <4> QED BY <1>6, <1>7, <1>8, <2>2
    <3> QED BY <1>3, <3>1, <3>2 DEF HoldsInv
  <2> QED BY <2>1, <2>2
<1>10. Registered' = {t \in Sessions : InHold(session'[t])}
  BY <1>3 DEF HoldsInv
<1> QED BY <1>1, <1>4, <1>5, <1>9, <1>10 DEF HoldsInv, Live, InHold

\* A hold that answers takes its registration and its mark away.
LEMMA Leaves ==
  ASSUME HoldsInv, NEW s \in Sessions, InHold(session[s]), ~InHold(session'[s]),
         \A t \in Sessions \ {s} : session'[t] = session[t], Release(s)
  PROVE  HoldsInv'
<1> DEFINE at == {i \in DOMAIN holds : holds[i] = s}
<1>1. holds \in Seq(Sessions) /\ Distinct(holds) /\ s \in Registered
  BY DEF HoldsInv
<1>2. PICK i \in DOMAIN holds : holds[i] = s /\ at = {i}
  BY <1>1 DEF Registered, ToSet, Distinct
<1>3. Min(at) = i
  <2>1. at \in SUBSET Nat /\ at # {}
    BY <1>1, <1>2
  <2> HIDE DEF at
  <2> QED BY <1>2, <2>1, MinOf
<1>4. holds' = RemoveAt(holds, i) /\ preempted' = preempted \ {s}
  BY <1>3 DEF Release
<1>5. /\ holds' \in Seq(Sessions) /\ Len(holds') = Len(holds) - 1
      /\ Distinct(holds') /\ Registered' = Registered \ {s}
  BY <1>1, <1>2, <1>4, RemoveSet DEF Registered
<1>6. IsFiniteSet(Registered') /\ Cardinality(Registered') = Cardinality(Registered) - 1
  BY <1>1, <1>5, FS_RemoveElement DEF HoldsInv
<1>7. Live' \subseteq Live /\ IsFiniteSet(Live)
  BY <1>4, <1>5, FS_Subset DEF Live, HoldsInv
<1>8. Cardinality(Live') <= MaxHolds
  BY <1>7, FS_Subset, FS_CardinalityType, ReadersAssumption DEF HoldsInv
<1>9. Registered' = {t \in Sessions : InHold(session'[t])}
  BY <1>5 DEF HoldsInv
<1> QED BY <1>4, <1>5, <1>6, <1>8, <1>9 DEF HoldsInv, InHold

\* A step that neither begins nor ends a hold.
LEMMA Quiet ==
  ASSUME HoldsInv, UNCHANGED <<holds, preempted>>,
         \A t \in Sessions : InHold(session'[t]) <=> InHold(session[t])
  PROVE  HoldsInv'
<1>1. Registered' = Registered /\ Live' = Live
  BY DEF Registered, Live
<1>2. Registered = {t \in Sessions : InHold(session'[t])}
  BY DEF HoldsInv
<1> QED BY <1>1, <1>2 DEF HoldsInv, InHold

\* Every step keeps the registered holds and the calls in progress the same.
LEMMA HoldsStep ==
  ASSUME ReaderInv, HoldsInv, [Next]_vars
  PROVE  HoldsInv'
<1> USE DEF ReaderInv, ReaderTypes
<1>1. CASE UNCHANGED vars
  BY <1>1, Quiet DEF vars
<1>2. CASE (\E cell \in Kinds \cup {"part"} : Write(cell)) \/ Finish \/ Die \/ Reap
  BY <1>2, Quiet DEF Write, Finish, Die, Reap
<1>3. ASSUME NEW s \in Sessions, NEW mode \in Modes, NEW from \in 0..Len(log), Open(s, mode, from)
      PROVE  HoldsInv'
  <2>1. session[s] = Idle /\ (\A t \in Sessions \ {s} : session'[t] = session[t])
    BY <1>3 DEF Open
  <2>2. ~InHold(session[s])
    BY <2>1 DEF InHold, Idle
  <2>3. session'[s].mode = mode /\ (mode \in HoldModes => session'[s].at = "manifest")
    BY <1>3 DEF Open, Idle
  <2>4. CASE mode \in HoldModes
    <3>1. Registration(s)
      BY <1>3, <2>4 DEF Open
    <3>2. InHold(session'[s])
      BY <2>3, <2>4 DEF InHold
    <3> QED BY <2>1, <2>2, <3>1, <3>2, Joins
  <2>5. CASE mode \notin HoldModes
    <3>1. UNCHANGED <<holds, preempted>>
      BY <1>3, <2>5 DEF Open
    <3>2. ~InHold(session'[s])
      BY <2>3, <2>5 DEF InHold
    <3> QED BY <2>1, <2>2, <3>1, <3>2, Quiet
  <2> QED BY <2>4, <2>5
<1>4. ASSUME NEW s \in Sessions,
             \/ Hurry(s, "due") \/ Hurry(s, "aborted") \/ Detach(s)
             \/ ReadManifest(s) \/ ProbeRunner(s) \/ ShowPage(s) \/ Drain(s)
      PROVE  HoldsInv'
  <2>1. UNCHANGED <<holds, preempted>> /\ \A t \in Sessions \ {s} : session'[t] = session[t]
    BY <1>4 DEF Hurry, Detach, ReadManifest, ProbeRunner, ShowPage, Drain
  <2>2. Shaped(session[s]) /\ Fair(session[s])
    OBVIOUS
  <2>3. InHold(session'[s]) <=> InHold(session[s])
    <3>1. CASE Hurry(s, "due") \/ Hurry(s, "aborted")
      <4>1. session'[s] = [session[s] EXCEPT !["due"] = TRUE]
            \/ session'[s] = [session[s] EXCEPT !["aborted"] = TRUE]
        BY <3>1 DEF Hurry
      <4>2. session'[s].mode = session[s].mode /\ session'[s].at = session[s].at
        BY <2>2, <4>1 DEF Shaped
      <4> QED BY <4>2 DEF InHold
    <3>2. CASE Detach(s)
      BY <2>2, <3>2 DEF Detach, Shaped, InHold, HoldModes
    <3>3. CASE ReadManifest(s)
      BY <2>2, <3>3 DEF ReadManifest, Shaped, InHold, HoldModes
    <3>4. CASE ProbeRunner(s)
      BY <2>2, <3>4 DEF ProbeRunner, Shaped, InHold, HoldModes
    <3>5. CASE ShowPage(s)
      BY <2>2, <3>5 DEF ShowPage, Shaped, InHold, HoldModes
    <3>6. CASE Drain(s)
      <4>1. session[s].mode = "watch" /\ session'[s].mode = session[s].mode
        BY <2>2, <3>6 DEF Drain, Fair, Shaped
      <4> QED BY <4>1 DEF InHold, HoldModes
    <3> QED BY <1>4, <3>1, <3>2, <3>3, <3>4, <3>5, <3>6
  <2> QED BY <2>1, <2>3, Quiet
<1>5. ASSUME NEW s \in Sessions, HardExit(s)
      PROVE  HoldsInv'
  <2>1. Release(s) /\ InHold(session[s]) /\ \A t \in Sessions \ {s} : session'[t] = session[t]
    BY <1>5 DEF HardExit, InHold
  <2>2. session'[s].at = "out"
    BY <1>5 DEF HardExit, Shaped
  <2> QED BY <2>1, <2>2, Leaves DEF InHold
<1>6. ASSUME NEW s \in Sessions, NEW stale \in BOOLEAN, HoldPage(s, stale)
      PROVE  HoldsInv'
  <2> DEFINE c == session[s]
             page == ReadPage(c.offset)
  <2>1. InHold(c) /\ Shaped(c)
    BY <1>6 DEF HoldPage, InHold
  <2>2. \/ /\ UNCHANGED <<holds, preempted>>
           /\ \E r : session' = [session EXCEPT ![s] = r] /\ r.at = "manifest" /\ r.mode = c.mode
        \/ /\ Release(s)
           /\ \E r : session' = [session EXCEPT ![s] = r] /\ r.at = "out"
    <3> DEFINE phaseHit == PhaseHit(s, page)
               tail == LastOf(c.tail \o Keep(page, phaseHit), TailLines)
               land == Max({page.next, Max({0, Len(log) - Page})})
               read == [c EXCEPT !.offset = page.next, !.shown = c.shown \cup page.lines, !.tail = tail]
               reply == CASE Terminal(c.saw) -> "terminal" [] phaseHit -> "phase" [] OTHER -> "woken"
               jump == [read EXCEPT !.offset = land, !.at = "manifest",
                                    !.tail = IF land > page.next THEN <<>> ELSE tail,
                                    !.jumped = read.jumped \/ land > page.next,
                                    !.late = IF c.due THEN read.late + 1 ELSE read.late]
               wake == [read EXCEPT !.at = "out", !.answer = reply]
               turn == [read EXCEPT !.at = "manifest"]
    <3>1. \/ UNCHANGED <<holds, preempted>> /\ session' = [session EXCEPT ![s] = jump]
          \/ Release(s) /\ session' = [session EXCEPT ![s] = wake]
          \/ UNCHANGED <<holds, preempted>> /\ session' = [session EXCEPT ![s] = turn]
      BY <1>6, Zenon DEF HoldPage
    <3>2. jump.at = "manifest" /\ jump.mode = c.mode
      <4> HIDE DEF phaseHit, tail, land, page
      <4> QED BY <2>1 DEF Shaped
    <3>3. wake.at = "out" /\ turn.at = "manifest" /\ turn.mode = c.mode
      <4> HIDE DEF phaseHit, tail, page, reply
      <4> QED BY <2>1 DEF Shaped
    <3> HIDE DEF jump, wake, turn
    <3> QED BY <3>1, <3>2, <3>3
  <2>3. \A t \in Sessions \ {s} : session'[t] = session[t]
    BY <2>2
  <2>4. CASE UNCHANGED <<holds, preempted>> /\ session'[s].at = "manifest" /\ session'[s].mode = c.mode
    BY <2>1, <2>3, <2>4, Quiet DEF InHold
  <2>5. CASE Release(s) /\ session'[s].at = "out"
    BY <2>1, <2>3, <2>5, Leaves DEF InHold
  <2> QED BY <2>2, <2>4, <2>5
<1> QED BY <1>1, <1>2, <1>3, <1>4, <1>5, <1>6 DEF Next, Advance

\* The registered holds are the calls in progress, and at most MaxHolds of them have not
\* been told to leave.
THEOREM HoldsCounted == Spec => []HoldsAccounted
<1>1. Init => HoldsInv
  <2> SUFFICES ASSUME Init PROVE HoldsInv
    OBVIOUS
  <2>1. holds = <<>> /\ preempted = {} /\ Registered = {} /\ Live = {}
    BY DEF Init, Registered, Live, ToSet
  <2>2. \A s \in Sessions : ~InHold(session[s])
    BY DEF Init, InHold, Idle
  <2> QED BY <2>1, <2>2, FS_EmptySet, ReadersAssumption DEF HoldsInv, Distinct
<1>2. ReaderInv /\ HoldsInv /\ [Next]_vars => HoldsInv'
  BY HoldsStep
<1>3. HoldsInv => HoldsAccounted
  BY DEF HoldsInv, HoldsAccounted, InHold
<1> QED BY <1>1, <1>2, <1>3, ReaderHolds, PTL DEF Spec
-----------------------------------------------------------------------------
(* Layers of settings *)

\* A later layer does not change what the backend was before it.
LEMMA BackendAfterAppend ==
  ASSUME NEW L \in Seq(Profiles), NEW o \in Profiles, NEW n \in 0..Len(L)
  PROVE  BackendAfter(Append(L, o), n) = BackendAfter(L, n)
<1> DEFINE given(M) == {i \in 1..n : M[i]["backend"] # NotSet}
<1>1. given(Append(L, o)) = given(L) /\ given(L) \in SUBSET Nat /\ n \in Nat /\ \A x \in given(L) : x <= n
  OBVIOUS
<1>2. given(L) # {} => Max(given(L)) \in 1..n
  <2>1. given(L) \subseteq 1..n
    OBVIOUS
  <2> HIDE DEF given
  <2> QED BY <1>1, <2>1, MaxOf
<1>3. \A M : BackendAfter(M, n) = IF given(M) = {} THEN NotSet ELSE M[Max(given(M))]["backend"]
  BY DEF BackendAfter
<1>4. \A i \in 1..n : Append(L, o)[i] = L[i]
  OBVIOUS
<1> HIDE DEF given
<1> QED BY <1>1, <1>2, <1>3, <1>4

\* The backend is never dropped by a switch of itself.
LEMMA BackendIsLast ==
  ASSUME NEW L \in Seq(Profiles)
  PROVE  LastExplicit(L, "backend") = BackendAfter(L, Len(L))
<1>1. DOMAIN L = 1..Len(L) /\ "backend" \notin Scoped
  BY DEF Scoped
<1> QED BY <1>1, Zenon DEF BackendAfter, LastExplicit

\* resolveSubagentProfile computes the last explicit setting, one layer at a time: a
\* switch of backend drops the scoped settings below it, and nothing else.
LEMMA LastAppend ==
  ASSUME NEW L \in Seq(Profiles), NEW o \in Profiles, NEW p \in Profiles, NEW k \in ProfileKeys,
         \A q \in ProfileKeys : p[q] = LastExplicit(L, q)
  PROVE  resolveSubagentProfile(p, o)[k] = LastExplicit(Append(L, o), k)
<1> DEFINE M == Append(L, o)
           given(N) == {i \in DOMAIN N : N[i][k] # NotSet}
           Lost(N, i) == \E j \in i + 1 .. Len(N) :
             /\ N[j]["backend"] # NotSet
             /\ BackendAfter(N, j - 1) \notin {NotSet, N[j]["backend"]}
<1>1. "backend" \in ProfileKeys /\ "backend" \notin Scoped
  BY DEF ProfileKeys, Scoped
<1>2. p["backend"] = BackendAfter(L, Len(L))
  BY <1>1, BackendIsLast
<1>3. /\ M \in Seq(Profiles) /\ Len(M) = Len(L) + 1 /\ M[Len(L) + 1] = o
      /\ \A i \in 1..Len(L) : M[i] = L[i]
  OBVIOUS
<1>4. \A N : LastExplicit(N, k) = IF given(N) = {} \/ (k \in Scoped /\ Lost(N, Max(given(N))))
                                  THEN NotSet ELSE N[Max(given(N))][k]
  BY DEF LastExplicit
<1>5. resolveSubagentProfile(p, o)[k] = IF Switches(p, o) /\ k \in Scoped THEN o[k] ELSE Or(o[k], p[k])
  BY DEF resolveSubagentProfile
<1>6. CASE o[k] # NotSet
  <2>1. Max(given(M)) = Len(L) + 1
    <3>1. Len(L) + 1 \in given(M) /\ given(M) \in SUBSET Nat /\ \A x \in given(M) : x <= Len(L) + 1
      BY <1>3, <1>6
    <3> HIDE DEF given
    <3> QED BY <3>1, MaxIs
  <2>2. given(M) # {} /\ ~Lost(M, Len(L) + 1)
    BY <1>3, <1>6
  <2>3. resolveSubagentProfile(p, o)[k] = o[k]
    BY <1>5, <1>6 DEF Or
  <2> HIDE DEF M, given, Lost
  <2>4. LastExplicit(M, k) = M[Len(L) + 1][k]
    BY <1>4, <2>1, <2>2
  <2> QED BY <1>3, <2>3, <2>4 DEF M
<1>7. CASE o[k] = NotSet
  <2>1. given(M) = given(L)
    BY <1>3, <1>7
  <2>2. given(L) # {} => Max(given(L)) \in 1..Len(L)
    <3>1. /\ given(L) \in SUBSET Nat /\ given(L) \subseteq 1..Len(L) /\ Len(L) \in Nat
          /\ \A x \in given(L) : x <= Len(L)
      OBVIOUS
    <3> HIDE DEF given
    <3> QED BY <3>1, MaxOf
  <2>3. \A i \in 1..Len(L) : Lost(M, i) <=> Lost(L, i) \/ Switches(p, o)
    <3>1. \A j \in 1..Len(M) : BackendAfter(M, j - 1) = BackendAfter(L, j - 1)
      BY <1>3, BackendAfterAppend
    <3> TAKE i \in 1..Len(L)
    <3>2. Switches(p, o) <=> /\ M[Len(L) + 1]["backend"] # NotSet
                             /\ BackendAfter(M, Len(L)) \notin {NotSet, M[Len(L) + 1]["backend"]}
      BY <1>2, <1>3, BackendAfterAppend DEF Switches
    <3>3. Lost(M, i) <=> \/ \E j \in i + 1 .. Len(L) :
                              /\ M[j]["backend"] # NotSet
                              /\ BackendAfter(M, j - 1) \notin {NotSet, M[j]["backend"]}
                         \/ /\ M[Len(L) + 1]["backend"] # NotSet
                            /\ BackendAfter(M, Len(L)) \notin {NotSet, M[Len(L) + 1]["backend"]}
      <4> HIDE DEF M
      <4> QED BY <1>3
    <3>4. (\E j \in i + 1 .. Len(L) : /\ M[j]["backend"] # NotSet
                                      /\ BackendAfter(M, j - 1) \notin {NotSet, M[j]["backend"]})
          <=> Lost(L, i)
      <4> HIDE DEF M
      <4> QED BY <1>3, <3>1
    <3> HIDE DEF M, Lost
    <3> QED BY <3>2, <3>3, <3>4
  <2>4. given(L) # {} => M[Max(given(L))] = L[Max(given(L))]
    BY <1>3, <2>2
  <2>5. resolveSubagentProfile(p, o)[k] = IF Switches(p, o) /\ k \in Scoped THEN NotSet ELSE p[k]
    BY <1>5, <1>7 DEF Or
  <2>6. p[k] = LastExplicit(L, k)
    OBVIOUS
  <2> HIDE DEF M, given, Lost
  <2>7. CASE given(L) = {}
    BY <1>4, <2>1, <2>5, <2>6, <2>7 DEF M
  <2>8. CASE given(L) # {}
    BY <1>4, <2>1, <2>2, <2>3, <2>4, <2>5, <2>6, <2>8 DEF M
  <2> QED BY <2>7, <2>8
<1> QED BY <1>6, <1>7

\* No layer sets nothing.
LEMMA LastOfNone == \A k \in ProfileKeys : LastExplicit(<<>>, k) = NotSet
<1> TAKE k \in ProfileKeys
<1>1. {i \in DOMAIN <<>> : <<>>[i][k] # NotSet} = {}
  OBVIOUS
<1> QED BY <1>1, Zenon DEF LastExplicit

-----------------------------------------------------------------------------
\* The manifests a run may have.
RunRecords ==
  [script : Scripts, args : Values, profile : Profiles, budget : Values, cap : Values, from : Nat,
   layers : Seq(Profiles), asked : Asks, bound : BOOLEAN,
   status : {"created", "running", "stopped", "completed", "cleanup-failed", "orphaned"},
   proc : {"none", "spawned", "running", "gone"}]

\* The types of the files, of the runs and of the calls.
StartTypes ==
  /\ {user, project} \subseteq Settings \cup {Absent, Unreadable} /\ script \in Scripts
  /\ runs \in Seq(RunRecords)
  /\ pc \in [Calls -> {"idle", "asking", "launching", "done"}]
  /\ mine \in [Calls -> Nat] /\ exited \in [Calls -> BOOLEAN]
  /\ answer \in [Calls -> {"none", "refused", "not spawned", "exited", "started", "late", "died"}]
  /\ plan \in [Calls -> RunRecords \cup {<<>>}]
  /\ \A c \in Calls : pc[c] = "asking" => plan[c] \in RunRecords

(* What a caller knows of the run it created. *)
Launched ==
  /\ \A c \in Calls : answer[c] \in {"exited", "started"} => pc[c] = "done"
  /\ \A c \in Calls : exited[c] => pc[c] \in {"launching", "done"}
  /\ \A c \in Calls : pc[c] = "launching" \/ exited[c] \/ answer[c] \in {"exited", "started"} =>
       mine[c] \in DOMAIN runs
  /\ \A c \in Calls : exited[c] => runs[mine[c]].proc = "gone"
  /\ \A r \in DOMAIN runs : runs[r].bound => runs[r].status # "created"

(* Its settings are those of its layers, and its runner can start it. *)
WellMade(run) ==
  /\ \A k \in ProfileKeys : run.profile[k] = LastExplicit(run.layers, k)
  /\ Startable(run)

\* Every run was planned by a call, and its token cap is the one asked for or inherited.
Planned ==
  /\ \A r \in DOMAIN runs : WellMade(runs[r]) /\ runs[r].from < r
  /\ \A r \in DOMAIN runs : runs[r].cap =
       IF runs[r].from = 0 THEN clearableCap(runs[r].asked.cap)
       ELSE CapOr(runs[r].asked.cap, runs[runs[r].from].cap)
  /\ \A c \in Calls : pc[c] = "asking" =>
       /\ WellMade(plan[c]) /\ plan[c].from = 0 /\ plan[c].proc = "none" /\ ~plan[c].bound
       /\ plan[c].cap = clearableCap(plan[c].asked.cap)

(* A call has no run before its user has answered, and then the one shown. *)
Reviews ==
  /\ \A c \in Calls : pc[c] = "idle" => plan[c] = <<>> /\ mine[c] = 0
  /\ \A c \in Calls : pc[c] = "asking" => mine[c] = 0
  /\ \A c \in Calls : mine[c] # 0 => mine[c] \in DOMAIN runs
  /\ ReviewedIsWhatRuns

\* The inductive invariant of starting a run.
StartInv == StartTypes /\ Launched /\ LaunchAnswerTrue /\ Planned /\ Reviews

(* What is written once, when a run is created. *)
Written(run) == <<run.script, run.args, run.profile, run.cap, run.from, run.layers, run.asked>>

\* A run is a manifest, and what it resumes is a number.
LEMMA RunTypes ==
  ASSUME StartTypes
  PROVE  /\ \A r \in DOMAIN runs : r \in Nat /\ runs[r] \in RunRecords /\ runs[r].from \in Nat
         /\ DOMAIN runs = 1..Len(runs) /\ Len(runs) \in Nat
<1>1. runs \in Seq(RunRecords)
  BY DEF StartTypes
<1>3. DOMAIN runs = 1..Len(runs) /\ Len(runs) \in Nat
  BY <1>1
<1> SUFFICES \A r \in DOMAIN runs : r \in Nat /\ runs[r] \in RunRecords /\ runs[r].from \in Nat
  BY <1>3
<1> TAKE r \in DOMAIN runs
<1>2. r \in Nat /\ runs[r] \in RunRecords
  BY <1>1
<1> QED BY <1>2 DEF RunRecords

\* loadSubagentConfig resolves the layers of the two files.
LEMMA SettingsTypes ==
  ASSUME StartTypes, Readable
  PROVE  /\ loadSubagentConfig \in Profiles /\ Layers \in Seq(Profiles)
         /\ \A k \in ProfileKeys : loadSubagentConfig[k] = LastExplicit(Layers, k)
<1>1. \A l \in {user, project} : l \in Profiles \/ l = Absent
  BY StartAssumption DEF StartTypes, Readable
<1>2. \A p, o \in Profiles : resolveSubagentProfile(p, o) \in Profiles
  BY DEF resolveSubagentProfile, Profiles, Or
<1>3. Nothing \in Profiles /\ \A k \in ProfileKeys : Nothing[k] = NotSet
  BY StartAssumption DEF Nothing, Profiles, NotSet
<1>4. \A o \in Profiles : resolveSubagentProfile(Nothing, o) = o
  BY <1>3 DEF resolveSubagentProfile, Switches, Or, Profiles, ProfileKeys
<1> DEFINE below == IF user = Absent THEN Nothing ELSE user
<1>5. /\ below \in Profiles /\ LayerOf(user) \in Seq(Profiles)
      /\ \A k \in ProfileKeys : below[k] = LastExplicit(LayerOf(user), k)
  <2>1. CASE user = Absent
    BY <1>3, <2>1, LastOfNone DEF LayerOf
  <2>2. CASE user # Absent
    <3>1. user \in Profiles /\ LayerOf(user) = Append(<<>>, user)
      BY <1>1, <2>2 DEF LayerOf
    <3>2. \A k \in ProfileKeys : resolveSubagentProfile(Nothing, user)[k] = LastExplicit(Append(<<>>, user), k)
      <4> TAKE k \in ProfileKeys
      <4>1. <<>> \in Seq(Profiles) /\ \A q \in ProfileKeys : Nothing[q] = LastExplicit(<<>>, q)
        BY <1>3, LastOfNone
      <4> QED BY <1>3, <3>1, <4>1, LastAppend
    <3> QED BY <1>4, <2>2, <3>1, <3>2
  <2> QED BY <2>1, <2>2
<1>6. CASE project = Absent
  <2>1. loadSubagentConfig = below /\ Layers = LayerOf(user) \o <<>>
    BY <1>6 DEF loadSubagentConfig, Layers, LayerOf
  <2>2. LayerOf(user) \o <<>> = LayerOf(user)
    BY <1>5
  <2> QED BY <1>5, <2>1, <2>2
<1>7. CASE project # Absent
  <2>1. project \in Profiles /\ loadSubagentConfig = resolveSubagentProfile(below, project)
    BY <1>1, <1>7 DEF loadSubagentConfig
  <2>2. Layers = LayerOf(user) \o <<project>> /\ LayerOf(user) \o <<project>> = Append(LayerOf(user), project)
    BY <1>5, <1>7, <2>1 DEF Layers, LayerOf
  <2>3. \A k \in ProfileKeys : loadSubagentConfig[k] = LastExplicit(Append(LayerOf(user), project), k)
    <3> HIDE DEF below
    <3> QED BY <1>5, <2>1, LastAppend
  <2>4. Append(LayerOf(user), project) \in Seq(Profiles)
    BY <1>5, <2>1
  <2> HIDE DEF below
  <2> QED BY <1>2, <1>5, <2>1, <2>2, <2>3, <2>4
<1> QED BY <1>6, <1>7

\* A fresh start plans a well-made run.
LEMMA FreshIsPlanned ==
  ASSUME StartTypes, Readable, NEW ask \in Asks, Startable(FreshRun(ask))
  PROVE  /\ FreshRun(ask) \in RunRecords /\ WellMade(FreshRun(ask)) /\ FreshRun(ask).from = 0
         /\ FreshRun(ask).cap = clearableCap(FreshRun(ask).asked.cap)
<1>1. ask.overrides \in Profiles /\ ask.args \in Values /\ ask.budget \in Values /\ ask.cap \in Values
  BY StartAssumption
<1> DEFINE profile == resolveSubagentProfile(loadSubagentConfig, ask.overrides)
           layers == Append(Layers, ask.overrides)
<1>2. profile \in Profiles
  BY <1>1, SettingsTypes DEF resolveSubagentProfile, Profiles, Or
<1>3. layers \in Seq(Profiles)
  BY <1>1, SettingsTypes
<1>4. \A k \in ProfileKeys : profile[k] = LastExplicit(layers, k)
  BY <1>1, SettingsTypes, LastAppend
<1>5. clearableCap(ask.cap) \in Values
  BY <1>1, StartAssumption DEF clearableCap
<1>6. (IF ask.args = NotSet THEN "null" ELSE ask.args) \in Values /\ script \in Scripts
  BY <1>1, StartAssumption DEF StartTypes
<1> HIDE DEF profile, layers
<1>7. FreshRun(ask) = Run(script, IF ask.args = NotSet THEN "null" ELSE ask.args, profile,
                          ask.budget, clearableCap(ask.cap), 0, layers, ask)
  BY DEF FreshRun, profile, layers
<1>8. FreshRun(ask) \in RunRecords
  BY <1>1, <1>2, <1>3, <1>5, <1>6, <1>7 DEF Run, RunRecords
<1> QED BY <1>4, <1>7, <1>8 DEF Run, WellMade

\* A resume plans a well-made run from the one it resumes.
LEMMA ResumedIsPlanned ==
  ASSUME StartInv, NEW r \in DOMAIN runs, NEW ask \in Asks,
         NEW source \in {script, runs[r].script},
         NEW budget \in Values, NEW cap \in Values,
         Startable(ResumedRun(r, ask, source, budget, cap))
  PROVE  /\ ResumedRun(r, ask, source, budget, cap) \in RunRecords
         /\ WellMade(ResumedRun(r, ask, source, budget, cap))
         /\ Written(ResumedRun(r, ask, source, budget, cap))[4] = cap
         /\ Written(ResumedRun(r, ask, source, budget, cap))[5] = r
         /\ Written(ResumedRun(r, ask, source, budget, cap))[7] = ask
<1>1. ask.overrides \in Profiles /\ ask.args \in Values
  BY StartAssumption
<1>2. runs[r] \in RunRecords /\ r \in Nat /\ WellMade(runs[r]) /\ script \in Scripts
  <2>1. runs \in Seq(RunRecords)
    BY DEF StartInv, StartTypes
  <2>2. r \in 1..Len(runs) /\ runs[r] \in RunRecords
    BY <2>1
  <2>3. WellMade(runs[r]) /\ script \in Scripts
    BY DEF StartInv, StartTypes, Planned
  <2> QED BY <2>2, <2>3
<1>3. runs[r].profile \in Profiles /\ runs[r].layers \in Seq(Profiles) /\ runs[r].args \in Values /\ runs[r].script \in Scripts
  BY <1>2 DEF RunRecords
<1> DEFINE profile == resolveSubagentProfile(runs[r].profile, ask.overrides)
           layers == Append(runs[r].layers, ask.overrides)
           args == Or(ask.args, runs[r].args)
<1>4. profile \in Profiles
  BY <1>1, <1>3 DEF resolveSubagentProfile, Profiles, Or
<1>5. layers \in Seq(Profiles) /\ args \in Values
  BY <1>1, <1>3 DEF Or
<1>6. \A k \in ProfileKeys : profile[k] = LastExplicit(layers, k)
  BY <1>1, <1>2, <1>3, LastAppend DEF WellMade
<1> HIDE DEF profile, layers, args
<1>7. ResumedRun(r, ask, source, budget, cap) = Run(source, args, profile, budget, cap, r, layers, ask)
  BY DEF ResumedRun, profile, layers, args
<1>8. source \in Scripts
  BY <1>2, <1>3
<1>9. ResumedRun(r, ask, source, budget, cap) \in RunRecords
  BY <1>2, <1>4, <1>5, <1>7, <1>8 DEF Run, RunRecords
<1> QED BY <1>6, <1>7, <1>9 DEF Run, WellMade, Written

(* A step leaves what was written, or appends one planned run. *)
Planning(fresh) ==
  /\ fresh \in RunRecords /\ WellMade(fresh)
  /\ \/ fresh.from = 0 /\ fresh.cap = clearableCap(fresh.asked.cap)
     \/ fresh.from \in DOMAIN runs /\ fresh.cap = CapOr(fresh.asked.cap, runs[fresh.from].cap)

\* What creating a run does.
Created(c, fresh) ==
  /\ mine' = [mine EXCEPT ![c] = Len(runs) + 1]
  /\ \E proc \in {"none", "spawned"} : runs' = Append(runs, [fresh EXCEPT !.proc = proc])
  /\ \/ pc' = [pc EXCEPT ![c] = "launching"] /\ UNCHANGED answer
     \/ Answer(c, "not spawned")
  /\ UNCHANGED <<plan, exited, fileVars>>

\* Create does that.
LEMMA CreateCreates ==
  ASSUME NEW c \in Calls, NEW fresh \in RunRecords, fresh.proc = "none", Create(c, fresh),
         UNCHANGED fileVars
  PROVE  Created(c, fresh)
<1>1. fresh = [fresh EXCEPT !.proc = "none"]
  BY DEF RunRecords
<1> QED BY <1>1 DEF Create, Created

\* A call creates the run it planned, the one its user was shown if there was a review.
Creates(c) ==
  \E fresh \in RunRecords :
    /\ Planning(fresh) /\ fresh.proc = "none" /\ ~fresh.bound /\ Created(c, fresh)
    /\ pc[c] = "asking" => fresh = plan[c]

\* A call is refused and leaves everything else alone.
Refuses(c) == Refuse(c) /\ UNCHANGED fileVars

\* A call that resumes creates a run it planned.
LEMMA ResumedPlanning ==
  ASSUME StartInv, NEW r \in DOMAIN runs, NEW ask \in Asks,
         NEW source \in {script, runs[r].script},
         NEW budget \in Values, NEW cap \in Values, cap = CapOr(ask.cap, runs[r].cap),
             NEW c \in Calls, pc[c] = "idle",
         Startable(ResumedRun(r, ask, source, budget, cap)),
         Create(c, ResumedRun(r, ask, source, budget, cap)), UNCHANGED fileVars
  PROVE  Creates(c)
<1> DEFINE fresh == ResumedRun(r, ask, source, budget, cap)
<1>1. fresh \in RunRecords /\ WellMade(fresh)
  BY ResumedIsPlanned
<1>2. fresh.cap = cap /\ fresh.from = r /\ fresh.asked = ask /\ fresh.proc = "none" /\ ~fresh.bound
  BY DEF ResumedRun, Run
<1> HIDE DEF fresh
<1>3. Planning(fresh)
  BY <1>1, <1>2 DEF Planning
<1>4. Created(c, fresh)
  BY <1>1, <1>2, CreateCreates DEF fresh
<1> QED BY <1>1, <1>2, <1>3, <1>4 DEF Creates

\* A call that starts afresh creates a run it planned.
LEMMA FreshPlanning ==
  ASSUME StartInv, NEW ask \in Asks, Readable, Startable(FreshRun(ask)), NEW c \in Calls,
         pc[c] = "idle",
         Create(c, FreshRun(ask)), UNCHANGED fileVars
  PROVE  Creates(c)
<1>1. StartTypes
  BY DEF StartInv
<1>2. /\ FreshRun(ask) \in RunRecords /\ WellMade(FreshRun(ask)) /\ FreshRun(ask).from = 0
      /\ FreshRun(ask).cap = clearableCap(FreshRun(ask).asked.cap)
  BY <1>1, FreshIsPlanned
<1>3. FreshRun(ask).proc = "none" /\ ~FreshRun(ask).bound
  BY DEF FreshRun, Run
<1>4. Created(c, FreshRun(ask))
  BY <1>2, <1>3, CreateCreates
<1> QED BY <1>2, <1>3, <1>4 DEF Creates, Planning

(* The steps of a call, for what they do to the runs and to the caller. *)
LEMMA CallSteps ==
  ASSUME StartInv, NEW c \in Calls,
         runCommand(c) \/ Review(c) \/ resumeCommand(c) \/ startFresh(c) \/ startResumed(c)
  PROVE  /\ pc[c] \in {"idle", "asking"}
         /\ \/ Creates(c)
            \/ Refuses(c)
            \/ /\ runs' = Reaped /\ Answer(c, "refused") /\ UNCHANGED <<plan, mine, exited, fileVars>>
            \/ \E fresh \in RunRecords :
                 /\ WellMade(fresh) /\ fresh.from = 0 /\ fresh.cap = clearableCap(fresh.asked.cap)
                 /\ fresh.proc = "none" /\ ~fresh.bound
                 /\ plan' = [plan EXCEPT ![c] = fresh] /\ pc' = [pc EXCEPT ![c] = "asking"]
                 /\ UNCHANGED <<runs, mine, exited, answer, fileVars>>
<1>0. StartTypes /\ Planned /\ \A r \in DOMAIN runs : runs[r] \in RunRecords
  <2>1. runs \in Seq(RunRecords)
    BY DEF StartInv, StartTypes
  <2> QED BY <2>1 DEF StartInv
<1>1. CASE runCommand(c)
  <2>1. PICK ask \in Asks, insideWorker \in BOOLEAN :
           LET fresh == FreshRun(ask)
           IN  \/ /\ insideWorker \/ ~Readable \/ ~Startable(fresh)
                  /\ Refuse(c)
               \/ /\ ~insideWorker /\ Readable /\ Startable(fresh)
                  /\ Create(c, fresh)
               \/ /\ ~insideWorker /\ Readable /\ Startable(fresh)
                  /\ plan' = [plan EXCEPT ![c] = fresh]
                  /\ pc' = [pc EXCEPT ![c] = "asking"]
                  /\ UNCHANGED <<runs, mine, exited, answer>>
    BY <1>1 DEF runCommand
  <2>2. pc[c] = "idle" /\ UNCHANGED fileVars
    BY <1>1 DEF runCommand
  <2>3. CASE Refuse(c)
    BY <2>2, <2>3 DEF Refuses
  <2>4. CASE Readable /\ Startable(FreshRun(ask)) /\ Create(c, FreshRun(ask))
    BY <2>2, <2>4, FreshPlanning
  <2>5. CASE /\ Readable /\ Startable(FreshRun(ask))
             /\ plan' = [plan EXCEPT ![c] = FreshRun(ask)]
             /\ pc' = [pc EXCEPT ![c] = "asking"]
             /\ UNCHANGED <<runs, mine, exited, answer>>
    <3>1. /\ FreshRun(ask) \in RunRecords /\ WellMade(FreshRun(ask)) /\ FreshRun(ask).from = 0
          /\ FreshRun(ask).cap = clearableCap(FreshRun(ask).asked.cap)
      BY <1>0, <2>5, FreshIsPlanned
    <3>2. FreshRun(ask).proc = "none" /\ ~FreshRun(ask).bound
      BY DEF FreshRun, Run
    <3> QED BY <2>2, <2>5, <3>1, <3>2
  <2> QED BY <2>1, <2>3, <2>4, <2>5
<1>2. CASE Review(c)
  <2>1. pc[c] = "asking" /\ UNCHANGED fileVars /\ (Create(c, plan[c]) \/ Refuse(c))
    BY <1>2 DEF Review, Reviewed
  <2>2. plan[c] \in RunRecords /\ Planning(plan[c]) /\ plan[c].proc = "none" /\ ~plan[c].bound
    BY <1>0, <2>1 DEF StartTypes, Planned, Planning
  <2>3. CASE Create(c, plan[c])
    BY <2>1, <2>2, <2>3, CreateCreates DEF Creates
  <2> QED BY <2>1, <2>3 DEF Refuses
<1>3. CASE resumeCommand(c)
  <2>1. PICK r \in DOMAIN runs, ask \in Asks : \E source \in {script, runs[r].script} :
       /\ ask.budget = NotSet /\ ask.cap = NotSet
       /\ LET fresh == ResumedRun(r, ask, source, runs[r].budget, runs[r].cap)
          IN  \/ /\ liveStatus(runs[r]) = "orphaned"
                 /\ runs' = Reaped
                 /\ Answer(c, "refused")
                 /\ UNCHANGED <<plan, mine, exited>>
              \/ /\ liveStatus(runs[r]) # "orphaned"
                 /\ ~isResumableStatus(liveStatus(runs[r])) \/ ~Resumable(fresh)
                 /\ Refuse(c)
              \/ /\ isResumableStatus(liveStatus(runs[r])) /\ Resumable(fresh)
                 /\ Create(c, fresh)
    BY <1>3 DEF resumeCommand
  <2>2. PICK source \in {script, runs[r].script} :
       /\ ask.budget = NotSet /\ ask.cap = NotSet
       /\ LET fresh == ResumedRun(r, ask, source, runs[r].budget, runs[r].cap)
          IN  \/ /\ runs' = Reaped
                 /\ Answer(c, "refused")
                 /\ UNCHANGED <<plan, mine, exited>>
              \/ Refuse(c)
              \/ Resumable(fresh) /\ Create(c, fresh)
    BY <2>1
  <2>3. pc[c] = "idle" /\ UNCHANGED fileVars
    BY <1>3 DEF resumeCommand
  <2>4. CASE /\ Resumable(ResumedRun(r, ask, source, runs[r].budget, runs[r].cap))
             /\ Create(c, ResumedRun(r, ask, source, runs[r].budget, runs[r].cap))
    <3>1. runs[r].budget \in Values /\ runs[r].cap \in Values /\ runs[r].cap = CapOr(ask.cap, runs[r].cap)
      BY <1>0, <2>2 DEF RunRecords, CapOr
    <3> QED BY <2>3, <2>4, <3>1, ResumedPlanning DEF Resumable
  <2> QED BY <2>2, <2>3, <2>4 DEF Refuses
<1>4. CASE startFresh(c)
  <2>1. PICK ask \in Asks :
          IF Readable /\ Startable(FreshRun(ask)) THEN Create(c, FreshRun(ask)) ELSE Refuse(c)
    BY <1>4 DEF startFresh
  <2>2. pc[c] = "idle" /\ UNCHANGED fileVars
    BY <1>4 DEF startFresh
  <2> QED BY <2>1, <2>2, FreshPlanning DEF Refuses
<1>5. CASE startResumed(c)
  <2>1. PICK r \in DOMAIN runs, ask \in Asks : \E source \in {script, runs[r].script} :
       LET fresh == ResumedRun(r, ask, source, ask.budget, CapOr(ask.cap, runs[r].cap))
       IN  IF isResumableStatus(liveStatus(runs[r])) /\ Resumable(fresh) THEN Create(c, fresh) ELSE Refuse(c)
    BY <1>5 DEF startResumed
  <2>2. PICK source \in {script, runs[r].script} :
       LET fresh == ResumedRun(r, ask, source, ask.budget, CapOr(ask.cap, runs[r].cap))
       IN  (Resumable(fresh) /\ Create(c, fresh)) \/ Refuse(c)
    BY <2>1
  <2>3. pc[c] = "idle" /\ UNCHANGED fileVars
    BY <1>5 DEF startResumed
  <2>4. ask.budget \in Values /\ CapOr(ask.cap, runs[r].cap) \in Values
    BY <1>0, StartAssumption DEF RunRecords, CapOr, clearableCap
  <2>5. CASE /\ Resumable(ResumedRun(r, ask, source, ask.budget, CapOr(ask.cap, runs[r].cap)))
             /\ Create(c, ResumedRun(r, ask, source, ask.budget, CapOr(ask.cap, runs[r].cap)))
    BY <2>3, <2>4, <2>5, ResumedPlanning DEF Resumable
  <2> QED BY <2>2, <2>3, <2>5 DEF Refuses
<1> QED BY <1>1, <1>2, <1>3, <1>4, <1>5

(* What was written stays: runs only change their status, binding and runner. *)
LEMMA WrittenStays ==
  ASSUME StartInv, DOMAIN runs' = DOMAIN runs,
         \A r \in DOMAIN runs : Written(runs'[r]) = Written(runs[r])
  PROVE  /\ \A r \in DOMAIN runs' : WellMade(runs'[r]) /\ runs'[r].from < r
         /\ \A r \in DOMAIN runs' : runs'[r].cap =
              IF runs'[r].from = 0 THEN clearableCap(runs'[r].asked.cap)
              ELSE CapOr(runs'[r].asked.cap, runs'[runs'[r].from].cap)
<1>1. \A r \in DOMAIN runs :
        /\ runs'[r].script = runs[r].script /\ runs'[r].args = runs[r].args
        /\ runs'[r].profile = runs[r].profile /\ runs'[r].cap = runs[r].cap
        /\ runs'[r].from = runs[r].from /\ runs'[r].layers = runs[r].layers
        /\ runs'[r].asked = runs[r].asked
  BY DEF Written
<1>2. \A r \in DOMAIN runs : WellMade(runs'[r]) <=> WellMade(runs[r])
  BY <1>1 DEF WellMade, Startable
<1>3. \A r \in DOMAIN runs : r \in Nat /\ runs[r].from \in Nat
  BY RunTypes DEF StartInv
<1>4. \A r \in DOMAIN runs : runs[r].from # 0 => runs[r].from \in DOMAIN runs
  <2>1. runs \in Seq(RunRecords) /\ \A r \in DOMAIN runs : runs[r].from < r
    BY DEF StartInv, StartTypes, Planned
  <2> QED BY <1>3, <2>1
<1> QED BY <1>1, <1>2, <1>4 DEF StartInv, Planned

\* Creating a run keeps the invariant.
LEMMA CreatesKeeps ==
  ASSUME StartInv, NEW c \in Calls, pc[c] \in {"idle", "asking"}, Creates(c)
  PROVE  StartInv'
<1>1. PICK fresh \in RunRecords :
    /\ Planning(fresh) /\ fresh.proc = "none" /\ ~fresh.bound /\ Created(c, fresh)
    /\ pc[c] = "asking" => fresh = plan[c]
  BY DEF Creates
<1>2. PICK proc \in {"none", "spawned"} : runs' = Append(runs, [fresh EXCEPT !.proc = proc])
  BY <1>1 DEF Created
<1> DEFINE n == Len(runs) + 1
<1>3. runs \in Seq(RunRecords) /\ StartTypes /\ Launched /\ LaunchAnswerTrue /\ Planned /\ Reviews
  BY DEF StartInv, StartTypes
<1>4. [fresh EXCEPT !.proc = proc] \in RunRecords /\ Written([fresh EXCEPT !.proc = proc]) = Written(fresh)
  BY <1>2 DEF RunRecords, Written
<1>5. /\ runs' \in Seq(RunRecords) /\ DOMAIN runs' = DOMAIN runs \cup {n} /\ n \notin DOMAIN runs
      /\ runs'[n] = [fresh EXCEPT !.proc = proc] /\ \A r \in DOMAIN runs : runs'[r] = runs[r] /\ r < n
      /\ n \in Nat \ {0}
  BY <1>2, <1>3, <1>4
<1>6. /\ runs'[n].script = fresh.script /\ runs'[n].args = fresh.args
      /\ runs'[n].profile = fresh.profile /\ runs'[n].cap = fresh.cap
      /\ runs'[n].from = fresh.from /\ runs'[n].layers = fresh.layers
      /\ runs'[n].asked = fresh.asked /\ ~runs'[n].bound
  BY <1>1, <1>4, <1>5 DEF Written, RunRecords
<1> HIDE DEF n
<1>7. /\ mine' = [mine EXCEPT ![c] = n] /\ UNCHANGED <<plan, exited, user, project, script>>
      /\ \/ pc' = [pc EXCEPT ![c] = "launching"] /\ answer' = answer
         \/ pc' = [pc EXCEPT ![c] = "done"] /\ answer' = [answer EXCEPT ![c] = "not spawned"]
  BY <1>1 DEF Created, Answer, fileVars, n
<1>8. StartTypes'
  BY <1>3, <1>5, <1>7 DEF StartTypes
<1>9. mine \in [Calls -> Nat] /\ pc \in [Calls -> {"idle", "asking", "launching", "done"}] /\ DOMAIN answer = Calls
  BY <1>3 DEF StartTypes
<1>10. ~exited[c] /\ answer[c] \notin {"exited", "started"}
  BY <1>3 DEF Launched
<1> DEFINE Told(d) == answer[d] \in {"exited", "started"}
<1>11. /\ \A d \in Calls \ {c} : mine'[d] = mine[d] /\ pc'[d] = pc[d] /\ answer'[d] = answer[d]
       /\ mine'[c] = n /\ pc'[c] \in {"launching", "done"} /\ ~Told(c)' /\ ~exited'[c]
  BY <1>7, <1>9, <1>10
<1>12. Launched' /\ LaunchAnswerTrue'
  <2>1. \A d \in Calls : exited'[d] \/ Told(d)' =>
          /\ exited'[d] = exited[d] /\ answer'[d] = answer[d] /\ pc'[d] = pc[d]
          /\ mine'[d] = mine[d] /\ mine[d] \in DOMAIN runs /\ runs'[mine[d]] = runs[mine[d]]
    BY <1>3, <1>5, <1>7, <1>11 DEF Launched
  <2>2. \A d \in Calls : pc'[d] = "launching" => mine'[d] \in DOMAIN runs'
    BY <1>3, <1>5, <1>11 DEF Launched
  <2>3. \A r \in DOMAIN runs' : runs'[r].bound => runs'[r].status # "created"
    BY <1>3, <1>5, <1>6 DEF Launched
  <2>4. Launched'
    BY <1>3, <1>5, <2>1, <2>2, <2>3 DEF Launched
  <2>5. LaunchAnswerTrue'
    BY <1>3, <2>1 DEF LaunchAnswerTrue
  <2> QED BY <2>4, <2>5
<1>13. WellMade(runs'[n])
  BY <1>1, <1>6 DEF Planning, WellMade, Startable
<1>14. \A r \in DOMAIN runs : runs[r].from \in Nat /\ runs[r].from < r /\ (runs[r].from # 0 => runs[r].from \in DOMAIN runs)
  <2>1. \A r \in DOMAIN runs : r \in Nat /\ runs[r].from \in Nat /\ runs[r].from < r
    BY <1>3, RunTypes DEF Planned
  <2>2. DOMAIN runs = 1..Len(runs) /\ Len(runs) \in Nat
    BY <1>3
  <2> QED BY <2>1, <2>2
<1>15. /\ fresh.from \in Nat /\ fresh.from < n
       /\ \/ fresh.from = 0 /\ fresh.cap = clearableCap(fresh.asked.cap)
          \/ fresh.from # 0 /\ fresh.from \in DOMAIN runs /\ fresh.cap = CapOr(fresh.asked.cap, runs[fresh.from].cap)
  BY <1>1, <1>3, <1>5 DEF Planning
<1>16. Planned'
  <2>1. \A r \in DOMAIN runs' : WellMade(runs'[r]) /\ runs'[r].from < r
    <3> TAKE r \in DOMAIN runs'
    <3>1. CASE r = n
      BY <1>6, <1>13, <1>15, <3>1
    <3>2. CASE r # n
      BY <1>3, <1>5, <3>2 DEF Planned
    <3> QED BY <3>1, <3>2
  <2>2. \A r \in DOMAIN runs' : runs'[r].cap =
          IF runs'[r].from = 0 THEN clearableCap(runs'[r].asked.cap)
          ELSE CapOr(runs'[r].asked.cap, runs'[runs'[r].from].cap)
    <3> TAKE r \in DOMAIN runs'
    <3>1. CASE r = n
      <4>1. runs'[n].from # 0 => runs'[runs'[n].from] = runs[fresh.from]
        BY <1>5, <1>6, <1>15
      <4> QED BY <1>6, <1>15, <3>1, <4>1
    <3>2. CASE r # n
      <4>1. runs'[r] = runs[r] /\ (runs[r].from # 0 => runs'[runs[r].from] = runs[runs[r].from])
        BY <1>5, <1>14, <3>2
      <4>2. r \in DOMAIN runs
        BY <1>5, <3>2
      <4> QED BY <1>3, <4>1, <4>2 DEF Planned
    <3> QED BY <3>1, <3>2
  <2>3. \A d \in Calls : pc'[d] = "asking" => pc[d] = "asking"
    BY <1>7, <1>9
  <2> QED BY <1>3, <1>7, <2>1, <2>2, <2>3 DEF Planned
<1>17. /\ \A d \in Calls \ {c} : mine'[d] = mine[d] /\ pc'[d] = pc[d]
       /\ mine'[c] = n /\ pc'[c] \in {"launching", "done"}
  BY <1>7, <1>9
<1>18. plan[c] # <<>> => fresh = plan[c]
  BY <1>1, <1>3 DEF Reviews
<1>19. Reviews'
  <2>1. \A d \in Calls : mine'[d] # 0 => mine'[d] \in DOMAIN runs'
    BY <1>3, <1>5, <1>17 DEF Reviews
  <2>2. ReviewedIsWhatRuns'
    <3> SUFFICES ASSUME NEW d \in Calls, plan[d] # <<>>, mine'[d] # 0
                 PROVE  LET made == runs'[mine'[d]]
                        IN  made.script = plan[d].script /\ made.profile = plan[d].profile /\ made.cap = plan[d].cap
      BY <1>7 DEF ReviewedIsWhatRuns
    <3>1. CASE d = c
      BY <1>6, <1>17, <1>18, <3>1
    <3>2. CASE d # c
      <4>1. mine'[d] = mine[d] /\ mine[d] \in DOMAIN runs /\ runs'[mine[d]] = runs[mine[d]]
        BY <1>3, <1>5, <1>17, <3>2 DEF Reviews
      <4> QED BY <1>3, <4>1 DEF Reviews, ReviewedIsWhatRuns
    <3> QED BY <3>1, <3>2
  <2> QED BY <1>3, <1>7, <1>17, <2>1, <2>2 DEF Reviews
<1> QED BY <1>8, <1>12, <1>16, <1>19 DEF StartInv

\* The steps of a call keep the invariant.
LEMMA CallKeeps ==
  ASSUME StartInv, NEW c \in Calls,
         runCommand(c) \/ Review(c) \/ resumeCommand(c) \/ startFresh(c) \/ startResumed(c)
  PROVE  StartInv'
<1>1. pc[c] \in {"idle", "asking"} /\ StartTypes /\ Launched /\ LaunchAnswerTrue /\ Planned /\ Reviews
  BY CallSteps DEF StartInv
<1>2. ~exited[c] /\ answer[c] \notin {"exited", "started"}
  BY <1>1 DEF Launched
<1>3. CASE Creates(c)
  BY <1>1, <1>3, CreatesKeeps
<1>4. CASE Refuses(c)
  <2>1. /\ pc' = [pc EXCEPT ![c] = "done"] /\ answer' = [answer EXCEPT ![c] = "refused"]
        /\ UNCHANGED <<runs, plan, mine, exited, user, project, script>>
    BY <1>4 DEF Refuses, Refuse, Answer, fileVars
  <2>2. StartTypes'
    BY <1>1, <2>1 DEF StartTypes
  <2>3. Launched' /\ LaunchAnswerTrue'
    BY <1>1, <1>2, <2>1 DEF Launched, LaunchAnswerTrue, StartTypes
  <2>4. \A d \in Calls : pc'[d] = "asking" => pc[d] = "asking"
    BY <1>1, <2>1 DEF StartTypes
  <2>5. Planned'
    BY <1>1, <2>1, <2>4 DEF Planned
  <2>6. \A d \in Calls : pc'[d] \in {"idle", "asking"} => pc'[d] = pc[d]
    BY <1>1, <2>1 DEF StartTypes
  <2>7. Reviews'
    BY <1>1, <2>1, <2>6 DEF Reviews, ReviewedIsWhatRuns
  <2> QED BY <2>2, <2>3, <2>5, <2>7 DEF StartInv
<1>5. CASE runs' = Reaped /\ Answer(c, "refused") /\ UNCHANGED <<plan, mine, exited, fileVars>>
  <2>1. /\ pc' = [pc EXCEPT ![c] = "done"] /\ answer' = [answer EXCEPT ![c] = "refused"]
        /\ UNCHANGED <<plan, mine, exited, user, project, script>>
    BY <1>5 DEF Answer, fileVars
  <2>2. runs \in Seq(RunRecords)
    BY <1>1 DEF StartTypes
  <2>3. \A r \in DOMAIN runs :
          /\ [runs[r] EXCEPT !.status = liveStatus(runs[r])] \in RunRecords
          /\ Written([runs[r] EXCEPT !.status = liveStatus(runs[r])]) = Written(runs[r])
          /\ [runs[r] EXCEPT !.status = liveStatus(runs[r])].proc = runs[r].proc
          /\ [runs[r] EXCEPT !.status = liveStatus(runs[r])].bound = runs[r].bound
          /\ [runs[r] EXCEPT !.status = liveStatus(runs[r])].status = "created" => runs[r].status = "created"
    <3> TAKE r \in DOMAIN runs
    <3>1. runs[r] \in RunRecords
      BY <2>2
    <3> QED BY <3>1 DEF RunRecords, Written, liveStatus
  <2>4. runs' \in Seq(RunRecords) /\ DOMAIN runs' = DOMAIN runs
    BY <1>5, <2>2, <2>3 DEF Reaped
  <2>5. \A r \in DOMAIN runs :
          /\ Written(runs'[r]) = Written(runs[r]) /\ runs'[r].proc = runs[r].proc
          /\ runs'[r].bound = runs[r].bound /\ (runs'[r].status = "created" => runs[r].status = "created")
    BY <1>5, <2>3 DEF Reaped
  <2>6. StartTypes'
    BY <1>1, <2>1, <2>4 DEF StartTypes
  <2>7. Launched' /\ LaunchAnswerTrue'
    BY <1>1, <1>2, <2>1, <2>4, <2>5 DEF Launched, LaunchAnswerTrue, StartTypes
  <2>8. \A d \in Calls : pc'[d] = "asking" => pc[d] = "asking"
    BY <1>1, <2>1 DEF StartTypes
  <2>9. Planned'
    BY <1>1, <2>1, <2>4, <2>5, <2>8, WrittenStays DEF Planned
  <2>10. \A d \in Calls : pc'[d] \in {"idle", "asking"} => pc'[d] = pc[d]
    BY <1>1, <2>1 DEF StartTypes
  <2>11. \A r \in DOMAIN runs : runs'[r].script = runs[r].script /\ runs'[r].profile = runs[r].profile /\ runs'[r].cap = runs[r].cap
    BY <2>5 DEF Written
  <2>12. Reviews'
    BY <1>1, <2>1, <2>4, <2>10, <2>11 DEF Reviews, ReviewedIsWhatRuns
  <2> QED BY <2>6, <2>7, <2>9, <2>12 DEF StartInv
<1>6. CASE \E fresh \in RunRecords :
             /\ WellMade(fresh) /\ fresh.from = 0 /\ fresh.cap = clearableCap(fresh.asked.cap)
             /\ fresh.proc = "none" /\ ~fresh.bound
             /\ plan' = [plan EXCEPT ![c] = fresh] /\ pc' = [pc EXCEPT ![c] = "asking"]
             /\ UNCHANGED <<runs, mine, exited, answer, fileVars>>
  <2>1. PICK fresh \in RunRecords :
             /\ WellMade(fresh) /\ fresh.from = 0 /\ fresh.cap = clearableCap(fresh.asked.cap)
             /\ fresh.proc = "none" /\ ~fresh.bound
             /\ plan' = [plan EXCEPT ![c] = fresh] /\ pc' = [pc EXCEPT ![c] = "asking"]
             /\ UNCHANGED <<runs, mine, exited, answer, user, project, script>>
    BY <1>6 DEF fileVars
  <2>2. StartTypes'
    BY <1>1, <2>1 DEF StartTypes
  <2>3. Launched' /\ LaunchAnswerTrue'
    BY <1>1, <1>2, <2>1 DEF Launched, LaunchAnswerTrue, StartTypes
  <2>4. \A d \in Calls : pc'[d] = "asking" => (d = c /\ plan'[d] = fresh) \/ (pc[d] = "asking" /\ plan'[d] = plan[d])
    BY <1>1, <2>1 DEF StartTypes
  <2>5. Planned'
    BY <1>1, <2>1, <2>4 DEF Planned
  <2>6. mine[c] = 0
    BY <1>1 DEF Reviews
  <2>7. \A d \in Calls : /\ d # c => plan'[d] = plan[d] /\ pc'[d] = pc[d]
                         /\ d = c => pc'[d] = "asking"
    BY <1>1, <2>1 DEF StartTypes
  <2>8. Reviews'
    BY <1>1, <2>1, <2>6, <2>7 DEF Reviews, ReviewedIsWhatRuns
  <2> QED BY <2>2, <2>3, <2>5, <2>8 DEF StartInv
<1> QED BY <1>3, <1>4, <1>5, <1>6, CallSteps

\* So do the steps of a caller that waits for its runner.
LEMMA PollKeeps ==
  ASSUME StartInv, NEW c \in Calls, ExitEvent(c) \/ Poll(c) \/ CallerDies(c)
  PROVE  StartInv'
<1>1. StartTypes /\ Launched /\ LaunchAnswerTrue /\ Planned /\ Reviews
  BY DEF StartInv
<1>2. UNCHANGED <<runs, plan, mine, user, project, script>>
  BY DEF ExitEvent, Poll, CallerDies, fileVars
<1>3. /\ pc \in [Calls -> {"idle", "asking", "launching", "done"}] /\ exited \in [Calls -> BOOLEAN]
      /\ DOMAIN answer = Calls
  BY <1>1 DEF StartTypes
<1>4. \A d \in Calls : pc'[d] = "asking" => pc[d] = "asking"
  BY <1>3 DEF ExitEvent, Poll, CallerDies, Answer
<1>5. Planned'
  BY <1>1, <1>2, <1>4 DEF Planned
<1>9. \A d \in Calls : pc'[d] \in {"idle", "asking"} => pc'[d] = pc[d]
  BY <1>3 DEF ExitEvent, Poll, CallerDies, Answer
<1>10. Reviews'
  BY <1>1, <1>2, <1>9 DEF Reviews, ReviewedIsWhatRuns
<1>6. CASE ExitEvent(c)
  BY <1>1, <1>2, <1>3, <1>5, <1>6, <1>10 DEF ExitEvent, StartInv, StartTypes, Launched,
      LaunchAnswerTrue
<1>7. CASE Poll(c)
  <2>1. pc[c] = "launching" /\ pc' = [pc EXCEPT ![c] = "done"] /\ UNCHANGED exited
    BY <1>7 DEF Poll, Answer
  <2>2. mine[c] \in DOMAIN runs /\ (exited[c] => runs[mine[c]].proc = "gone")
        /\ (runs[mine[c]].bound => runs[mine[c]].status # "created")
    BY <1>1, <2>1 DEF Launched
  <2>3. \/ answer' = [answer EXCEPT ![c] = "started"] /\ runs[mine[c]].bound
        \/ answer' = [answer EXCEPT ![c] = "exited"] /\ exited[c] /\ ~runs[mine[c]].bound
        \/ answer' = [answer EXCEPT ![c] = "late"]
    BY <1>7, <2>2 DEF Poll, Answer, Verdict, Bound
  <2>4. StartTypes'
    BY <1>1, <1>2, <2>1, <2>3 DEF StartTypes
  <2>5. Launched'
    BY <1>1, <1>2, <1>3, <2>1, <2>2, <2>3 DEF Launched
  <2>6. LaunchAnswerTrue'
    BY <1>1, <1>2, <1>3, <2>1, <2>2, <2>3 DEF LaunchAnswerTrue
  <2> QED BY <1>5, <1>10, <2>4, <2>5, <2>6 DEF StartInv
<1>8. CASE CallerDies(c)
  <2>1. /\ pc[c] = "asking" /\ pc' = [pc EXCEPT ![c] = "done"] /\ UNCHANGED exited
        /\ answer' = [answer EXCEPT ![c] = "died"]
    BY <1>8 DEF CallerDies, Answer
  <2>2. StartTypes'
    BY <1>1, <1>2, <2>1 DEF StartTypes
  <2>3. Launched' /\ LaunchAnswerTrue'
    BY <1>1, <1>2, <1>3, <2>1 DEF Launched, LaunchAnswerTrue
  <2> QED BY <1>5, <1>10, <2>2, <2>3 DEF StartInv
<1> QED BY <1>6, <1>7, <1>8

\* And the steps of a runner, and of a stop.
LEMMA RunnerKeeps ==
  ASSUME StartInv, NEW r \in DOMAIN runs, Bind(r) \/ RunnerRejects(r) \/ RunnerEnds(r) \/ StopUnbound(r)
  PROVE  StartInv'
<1>1. runs \in Seq(RunRecords) /\ runs[r] \in RunRecords
  <2>1. runs \in Seq(RunRecords)
    BY DEF StartInv, StartTypes
  <2> QED BY <2>1
<1>2. StartTypes /\ Launched /\ LaunchAnswerTrue /\ Planned /\ Reviews
  BY DEF StartInv
<1>3. UNCHANGED <<user, project, script, pc, plan, mine, exited, answer>>
  BY DEF Bind, RunnerRejects, RunnerEnds, StopUnbound, Becomes, fileVars, callVars
<1>4. runs[r].bound => runs[r].status # "created"
  BY <1>2 DEF Launched
<1>5. PICK status \in {"created", "running", "stopped", "completed", "cleanup-failed", "orphaned"},
           bound \in BOOLEAN, proc \in {"none", "spawned", "running", "gone"} :
        /\ runs' = [runs EXCEPT ![r].status = status, ![r].bound = bound, ![r].proc = proc]
        /\ bound => status # "created"
        /\ runs[r].proc = "gone" => proc = "gone" /\ (bound => runs[r].bound)
        /\ runs[r].bound => bound
  <2>1. CASE Bind(r)
    BY <2>1 DEF Bind, Becomes
  <2>2. CASE RunnerRejects(r)
    <3>1. runs' = [runs EXCEPT ![r].status = runs[r].status, ![r].bound = runs[r].bound, ![r].proc = "gone"]
      BY <2>2 DEF RunnerRejects, Becomes
    <3>2. /\ runs[r].status \in {"created", "running", "stopped", "completed", "cleanup-failed", "orphaned"}
          /\ runs[r].bound \in BOOLEAN
      BY <1>1 DEF RunRecords
    <3> QED BY <1>4, <3>1, <3>2
  <2>3. CASE RunnerEnds(r)
    BY <2>3 DEF RunnerEnds, Becomes
  <2>4. CASE StopUnbound(r)
    <3>1. runs' = [runs EXCEPT ![r].status = "stopped", ![r].bound = FALSE, ![r].proc = runs[r].proc] /\ ~runs[r].bound
      BY <1>1, <1>4, <2>4 DEF StopUnbound, Becomes, RunRecords
    <3>2. runs[r].proc \in {"none", "spawned", "running", "gone"}
      BY <1>1 DEF RunRecords
    <3> QED BY <3>1, <3>2
  <2> QED BY <2>1, <2>2, <2>3, <2>4
<1>6. [[[runs[r] EXCEPT !.status = status] EXCEPT !.bound = bound] EXCEPT !.proc = proc] \in RunRecords
  BY <1>1 DEF RunRecords
<1>7. /\ runs' \in Seq(RunRecords) /\ DOMAIN runs' = DOMAIN runs
      /\ \A q \in DOMAIN runs \ {r} : runs'[q] = runs[q]
      /\ Written(runs'[r]) = Written(runs[r])
      /\ runs'[r].status = status /\ runs'[r].bound = bound /\ runs'[r].proc = proc
  <2>1. /\ DOMAIN runs' = DOMAIN runs
        /\ runs' = [q \in DOMAIN runs |-> IF q = r
             THEN [[[runs[r] EXCEPT !.status = status] EXCEPT !.bound = bound] EXCEPT !.proc = proc] ELSE runs[q]]
    BY <1>1, <1>5
  <2>2. \A q \in DOMAIN runs \ {r} : runs'[q] = runs[q]
    BY <2>1
  <2>3. runs'[r] = [[[runs[r] EXCEPT !.status = status] EXCEPT !.bound = bound] EXCEPT !.proc = proc]
    BY <2>1
  <2>4. runs' \in Seq(RunRecords)
    <3>1. DOMAIN runs = 1..Len(runs) /\ Len(runs) \in Nat
      BY <1>1
    <3>2. \A q \in DOMAIN runs : runs'[q] \in RunRecords
      BY <1>1, <1>6, <2>2, <2>3
    <3> HIDE DEF RunRecords
    <3> QED BY <2>1, <3>1, <3>2, <1>6, <1>1
  <2> QED BY <1>1, <2>1, <2>2, <2>3, <2>4 DEF RunRecords, Written
<1>8. StartTypes'
  BY <1>2, <1>3, <1>7 DEF StartTypes
<1>9. Launched' /\ LaunchAnswerTrue'
  BY <1>2, <1>3, <1>5, <1>7 DEF Launched, LaunchAnswerTrue
<1>10. Planned'
  <2>1. \A q \in DOMAIN runs : Written(runs'[q]) = Written(runs[q])
    BY <1>7
  <2> QED BY <1>2, <1>3, <1>7, <2>1, WrittenStays DEF Planned
<1>11. \A q \in DOMAIN runs : runs'[q].script = runs[q].script /\ runs'[q].profile = runs[q].profile /\ runs'[q].cap = runs[q].cap
  BY <1>7 DEF Written
<1>12. Reviews'
  BY <1>2, <1>3, <1>7, <1>11 DEF Reviews, ReviewedIsWhatRuns
<1> QED BY <1>8, <1>9, <1>10, <1>12 DEF StartInv

\* StartInv is inductive.
LEMMA StartKeeps == StartInv /\ [StartNext]_startVars => StartInv'
<1> SUFFICES ASSUME StartInv, [StartNext]_startVars PROVE StartInv'
  OBVIOUS
<1>1. CASE UNCHANGED startVars
  BY <1>1 DEF startVars, fileVars, callVars, StartInv, StartTypes, Launched, LaunchAnswerTrue,
      Planned, Reviews,
    ReviewedIsWhatRuns
<1>2. CASE Edit
  <2>1. /\ UNCHANGED <<runs, pc, plan, mine, exited, answer>> /\ script' \in Scripts \cup {script}
        /\ {user', project'} \subseteq Settings \cup {Absent, Unreadable, user, project}
    BY <1>2 DEF Edit, callVars
  <2> QED BY <2>1 DEF StartInv, StartTypes, Launched, LaunchAnswerTrue, Planned, Reviews,
      ReviewedIsWhatRuns
<1> QED BY <1>1, <1>2, CallKeeps, PollKeeps, RunnerKeeps DEF StartNext

\* It holds at first.
LEMMA StartStarts == StartInit => StartInv
<1> SUFFICES ASSUME StartInit PROVE StartInv
  OBVIOUS
<1>1. StartTypes
  BY StartAssumption DEF StartInit, StartTypes
<1>2. Launched /\ LaunchAnswerTrue /\ Planned /\ Reviews
  BY DEF StartInit, Launched, LaunchAnswerTrue, Planned, Reviews, ReviewedIsWhatRuns
<1> QED BY <1>1, <1>2 DEF StartInv

\* What a caller is told of the run it launched is true when it is told: `started` of a
\* run whose runner bound itself, `exited` of one whose runner is gone without.
THEOREM StartAnswers == StartSpec => []LaunchAnswerTrue
<1>1. StartInv => LaunchAnswerTrue
  BY DEF StartInv
<1> QED BY <1>1, StartStarts, StartKeeps, PTL DEF StartSpec

\* No run is created that its own runner would reject.
THEOREM StartStartable == StartSpec => []EveryRunStartable
<1>1. StartInv => EveryRunStartable
  BY DEF StartInv, Planned, WellMade, EveryRunStartable
<1> QED BY <1>1, StartStarts, StartKeeps, PTL DEF StartSpec

-----------------------------------------------------------------------------
(* The chain of runs a run was resumed along. *)

\* A run and those it was resumed from, one step up.
Above(f, r) == IF runs[r].from = 0 THEN {r} ELSE {r} \cup f[runs[r].from]

\* The chain of resumes is well founded: a run resumes an earlier one.
LEMMA LineageIs ==
  ASSUME StartTypes, Planned
  PROVE  \A r \in DOMAIN runs : Lineage[r] = Above(Lineage, r)
<1>1. \A r \in DOMAIN runs : r \in Nat /\ runs[r].from \in Nat /\ runs[r].from < r
  BY RunTypes DEF Planned
<1>2. DOMAIN runs = 1..Len(runs) /\ Len(runs) \in Nat
  BY RunTypes
<1> DEFINE S == {n \in Nat : n <= Len(runs) => \E f : \A r \in 1..n : f[r] = Above(f, r)}
<1>3. 0 \in S
  OBVIOUS
<1>4. \A n \in Nat : n \in S => n + 1 \in S
  <2> SUFFICES ASSUME NEW n \in Nat, n \in S, n + 1 <= Len(runs)
               PROVE  \E f : \A r \in 1..(n + 1) : f[r] = Above(f, r)
    OBVIOUS
  <2>1. PICK f : \A r \in 1..n : f[r] = Above(f, r)
    OBVIOUS
  <2> DEFINE g == [r \in 1..(n + 1) |-> IF r = n + 1 THEN Above(f, n + 1) ELSE f[r]]
  <2>2. \A r \in 1..(n + 1) : Above(g, r) = Above(f, r)
    <3> TAKE r \in 1..(n + 1)
    <3>1. runs[r].from # 0 => runs[r].from \in 1..n
      BY <1>1, <1>2
    <3>2. \A q \in 1..n : g[q] = f[q]
      OBVIOUS
    <3> QED BY <3>1, <3>2 DEF Above
  <2>3. \A r \in 1..(n + 1) : g[r] = Above(f, r)
    BY <2>1
  <2> QED BY <2>2, <2>3
<1>5. Len(runs) \in S
  <2> HIDE DEF S
  <2> QED BY <1>2, <1>3, <1>4, NatSet
<1>6. PICK f : \A r \in DOMAIN runs : f[r] = Above(f, r)
  BY <1>2, <1>5
<1> DEFINE g == [r \in DOMAIN runs |-> f[r]]
<1>7. g = [r \in DOMAIN runs |-> IF runs[r].from = 0 THEN {r} ELSE {r} \cup g[runs[r].from]]
  <2>1. \A r \in DOMAIN runs : Above(g, r) = Above(f, r)
    <3> TAKE r \in DOMAIN runs
    <3>1. runs[r].from # 0 => runs[r].from \in DOMAIN runs
      BY <1>1, <1>2
    <3>2. \A q \in DOMAIN runs : g[q] = f[q]
      OBVIOUS
    <3> QED BY <3>1, <3>2 DEF Above
  <2> QED BY <1>6, <2>1 DEF Above
<1>8. Lineage = [r \in DOMAIN runs |-> IF runs[r].from = 0 THEN {r} ELSE {r} \cup Lineage[runs[r].from]]
  <2> HIDE DEF g
  <2> QED BY <1>7, Zenon DEF Lineage
<1> QED BY <1>8 DEF Above

\* So it lies below the run.
LEMMA LineageBelow ==
  ASSUME StartTypes, Planned
  PROVE  \A r \in DOMAIN runs : r \in Lineage[r] /\ Lineage[r] \subseteq 1..r
<1>1. \A r \in DOMAIN runs : r \in Nat \ {0} /\ runs[r].from \in Nat /\ runs[r].from < r
  <2>1. DOMAIN runs = 1..Len(runs)
    BY RunTypes
  <2> QED BY <2>1, RunTypes DEF Planned
<1>2. \A r \in DOMAIN runs : runs[r].from # 0 => runs[r].from \in DOMAIN runs
  <2>1. DOMAIN runs = 1..Len(runs) /\ Len(runs) \in Nat
    BY RunTypes
  <2> QED BY <1>1, <2>1
<1> DEFINE S == {n \in Nat : \A r \in DOMAIN runs : r <= n => r \in Lineage[r] /\ Lineage[r] \subseteq 1..r}
<1>3. 0 \in S
  BY <1>1
<1>4. \A n \in Nat : n \in S => n + 1 \in S
  <2> SUFFICES ASSUME NEW n \in Nat, n \in S, NEW r \in DOMAIN runs, r <= n + 1
               PROVE  r \in Lineage[r] /\ Lineage[r] \subseteq 1..r
    OBVIOUS
  <2>1. Lineage[r] = IF runs[r].from = 0 THEN {r} ELSE {r} \cup Lineage[runs[r].from]
    BY LineageIs DEF Above
  <2>2. runs[r].from # 0 => Lineage[runs[r].from] \subseteq 1..runs[r].from
    BY <1>1, <1>2
  <2> QED BY <1>1, <2>1, <2>2
<1>5. Nat \subseteq S
  <2> HIDE DEF S
  <2> QED BY <1>3, <1>4, NatSet
<1> QED BY <1>1, <1>5

\* The cap of a run is the last one given along its chain.
LEMMA CapIsInForce ==
  ASSUME StartTypes, Planned
  PROVE  \A r \in DOMAIN runs : runs[r].cap = CapInForce(r)
<1>1. \A r \in DOMAIN runs : r \in Nat \ {0} /\ runs[r].from \in Nat /\ runs[r].from < r
  <2>1. DOMAIN runs = 1..Len(runs)
    BY RunTypes
  <2> QED BY <2>1, RunTypes DEF Planned
<1>2. \A r \in DOMAIN runs : runs[r].from # 0 => runs[r].from \in DOMAIN runs
  <2>1. DOMAIN runs = 1..Len(runs) /\ Len(runs) \in Nat
    BY RunTypes
  <2> QED BY <1>1, <2>1
<1> DEFINE given(r) == {i \in Lineage[r] : runs[i].asked.cap # NotSet}
<1>3. \A r \in DOMAIN runs : CapInForce(r) =
        IF given(r) = {} THEN NotSet ELSE clearableCap(runs[Max(given(r))].asked.cap)
  BY DEF CapInForce
<1>4. \A r \in DOMAIN runs : CapInForce(r) =
        IF runs[r].asked.cap # NotSet THEN clearableCap(runs[r].asked.cap)
        ELSE IF runs[r].from = 0 THEN NotSet ELSE CapInForce(runs[r].from)
  <2> TAKE r \in DOMAIN runs
  <2>1. Lineage[r] = IF runs[r].from = 0 THEN {r} ELSE {r} \cup Lineage[runs[r].from]
    BY LineageIs DEF Above
  <2>2. CASE runs[r].asked.cap # NotSet
    <3>1. r \in given(r) /\ given(r) \in SUBSET Nat /\ \A x \in given(r) : x <= r
      BY <1>1, <2>2, LineageBelow
    <3>2. Max(given(r)) = r
      <4> HIDE DEF given
      <4> QED BY <3>1, MaxIs
    <3> HIDE DEF given
    <3> QED BY <1>3, <2>2, <3>1, <3>2
  <2>3. CASE runs[r].asked.cap = NotSet /\ runs[r].from = 0
    <3>1. given(r) = {}
      BY <2>1, <2>3
    <3> HIDE DEF given
    <3> QED BY <1>3, <2>3, <3>1
  <2>4. CASE runs[r].asked.cap = NotSet /\ runs[r].from # 0
    <3>1. given(r) = given(runs[r].from)
      BY <2>1, <2>4
    <3> HIDE DEF given
    <3> QED BY <1>2, <1>3, <2>4, <3>1
  <2> QED BY <2>2, <2>3, <2>4
<1>5. \A r \in DOMAIN runs : runs[r].cap =
        IF runs[r].asked.cap # NotSet THEN clearableCap(runs[r].asked.cap)
        ELSE IF runs[r].from = 0 THEN NotSet ELSE runs[runs[r].from].cap
  BY DEF Planned, CapOr, clearableCap, NotSet, Zero
<1> DEFINE S == {n \in Nat : \A r \in DOMAIN runs : r <= n => runs[r].cap = CapInForce(r)}
<1> HIDE DEF given
<1>6. 0 \in S
  BY <1>1
<1>7. \A n \in Nat : n \in S => n + 1 \in S
  <2> SUFFICES ASSUME NEW n \in Nat, n \in S, NEW r \in DOMAIN runs, r <= n + 1
               PROVE  runs[r].cap = CapInForce(r)
    OBVIOUS
  <2>1. runs[r].from # 0 => runs[runs[r].from].cap = CapInForce(runs[r].from)
    BY <1>1, <1>2
  <2> QED BY <1>4, <1>5, <2>1
<1>8. Nat \subseteq S
  <2> HIDE DEF S
  <2> QED BY <1>6, <1>7, NatSet
<1> QED BY <1>1, <1>8

(* Along any chain of resumes and edits, a setting is the last one given.    *)
THEOREM StartSettings == StartSpec => []SettingsAreLastExplicit
<1>1. StartInv => SettingsAreLastExplicit
  BY CapIsInForce DEF StartInv, Planned, WellMade, SettingsAreLastExplicit
<1> QED BY <1>1, StartStarts, StartKeeps, PTL DEF StartSpec

(* The run a user said yes to is the run that runs.                          *)
THEOREM StartReviewed == StartSpec => []ReviewedIsWhatRuns
<1>1. StartInv => ReviewedIsWhatRuns
  BY DEF StartInv, Reviews
<1> QED BY <1>1, StartStarts, StartKeeps, PTL DEF StartSpec
-----------------------------------------------------------------------------
(* Releases and installers *)

\* Where a publisher is.
Publishing == {"stat", "tar", "sidecar", "latest"}
\* Where an installer has a stage of its own.
Holding == {"decide", "exists", "move"}              \* an installer with a stage of its own
\* Where it has verified a download.
Checked == Holding \cup {"stage"}                    \* it has verified a download
\* Where it has no stage.
Bare == {"resolve", "node", "look", "download", "stage", "flip"}
\* Where a live installer is.
Steps == Holding \cup Bare

\* The states of an installer.
Processes ==
  [at : {"over"} \cup Steps, pid : 0..MaxStarts, v : Targets, sha : Nat, t : Targets]
\* A version and the build of it; build 0 is none.
Releases == [v : Targets, build : Nat]
\* An installed copy.
Copies == [is : {"absent", "partial", "complete"}, build : Nat]

\* The types of the release store and of the publisher.
StoreTypes ==
  /\ tar \in [Targets -> Nat] /\ side \in [Targets -> Nat]
  /\ latest \in Releases
  /\ pub \in [at : {"idle"} \cup Publishing, v : Targets, build : Nat, up : BOOLEAN,
              force : BOOLEAN, resume : BOOLEAN]
  /\ builds \in Nat /\ forced \subseteq Versions

\* The types of a host.
HostTypes ==
  /\ inst \in [Installers -> Processes] /\ starts \in 0..MaxStarts
  /\ stage \in [Pids -> Releases]
  /\ app \in [Targets -> Copies]
  /\ current \in Targets /\ landed \subseteq Targets \X Nat

\* The types of both.
DistributionTypes == StoreTypes /\ HostTypes

(* What the publisher has done so far stands in the store. *)
Published ==
  /\ pub.at # "idle" => pub.v # 0 /\ pub.build # 0
  /\ pub.at = "tar" /\ ~pub.force => tar[pub.v] = 0
  /\ pub.at \in {"sidecar", "latest"} => tar[pub.v] = pub.build
  /\ pub.at = "latest" => side[pub.v] = pub.build
  /\ latest.build # 0 => latest.v # 0
  /\ tar[0] \in {0, 1} /\ side[0] \in {0, tar[0]}

(* A live installer has a pid to itself, and a stage from its reaping to its rename. *)
OwnStage ==
  /\ \A i \in Installers : ~Dead(i) => inst[i].pid \in 1..starts
  /\ \A i, j \in Installers : ~Dead(i) /\ ~Dead(j) /\ inst[i].pid = inst[j].pid => i = j
  /\ \A p \in Pids : p > starts => stage[p] = NoStage
  /\ \A i \in Installers : inst[i].at \in Bare => stage[inst[i].pid] = NoStage

(* What an installer verified is what the store gives out. *)
Verified ==
  /\ \A i \in Installers : inst[i].at \in Steps \ {"resolve"} => inst[i].v # 0
  /\ \A i \in Installers : inst[i].at \in Checked =>
       Expected(i) # 0 /\ (inst[i].t \notin forced => tar[inst[i].t] = Expected(i))
  /\ \A copy \in landed : copy[2] # 0

\* The inductive invariant of the release store.
StoreInv == StoreTypes /\ Published /\ LatestResolves

\* The inductive invariant of the store and a host.
DistributionInv ==
  StoreInv /\ HostTypes /\ OwnStage /\ Verified /\ StageStands /\ OneBuildPerVersion

\* It holds at first.
LEMMA DistributionStarts == DistributionInit => DistributionInv
  BY DistributionAssumption DEF DistributionInit, DistributionInv, StoreInv, DistributionTypes,
      StoreTypes, HostTypes, Published, OwnStage, Verified, LatestResolves, StageStands,
      OneBuildPerVersion, Resting, NotRun, NoStage, NoCopy, Targets, Dead, Pids, Bare, Checked,
      Holding, Steps, Publishing, Processes, Releases, Copies

\* Every step of a publisher, and its death, keeps the store's invariant.
LEMMA StoreSteps ==
  ASSUME StoreInv, MirrorNode \/ Publish \/ StatRelease \/ UploadTar \/ UploadSidecar \/ UploadLatest \/ PublisherDies
  PROVE  StoreInv'
<1> USE DistributionAssumption DEF StoreInv, Targets, store, host, Releases
<1>1. StoreTypes' /\ Published'
  <2>1. CASE MirrorNode
    BY <2>1 DEF StoreTypes, Published, MirrorNode, PubAt
  <2>2. CASE Publish
    BY <2>2 DEF StoreTypes, Published, Publish, PubAt, Publishing
  <2>3. CASE StatRelease
    <3> USE <2>3 DEF StatRelease, PubAt
    <3>1. CASE pub.force \/ tar[pub.v] = 0
      BY <3>1 DEF StoreTypes, Published, AfterStat, PubGo, Publishing
    <3>2. CASE ~(pub.force \/ tar[pub.v] = 0) /\ pub.resume
      <4>1. /\ pub' = [pub EXCEPT !.at = "latest", !.up = FALSE, !.build = tar[pub.v]]
            /\ side' = [side EXCEPT ![pub.v] = tar[pub.v]]
            /\ UNCHANGED <<tar, latest, builds, forced, inst, starts, host>>
        BY <3>2 DEF Reconciled
      <4>2. pub.v \in Targets /\ tar[pub.v] \in Nat
        BY DEF StoreTypes
      <4>3. StoreTypes'
        BY <4>1, <4>2 DEF StoreTypes, Publishing
      <4>4. Published'
        BY <4>1, <4>2, <3>2 DEF StoreTypes, Published, Publishing
      <4> QED BY <4>3, <4>4
    <3>3. CASE ~(pub.force \/ tar[pub.v] = 0) /\ ~pub.resume
      <4>1. /\ pub' = Resting
            /\ UNCHANGED <<tar, side, latest, builds, forced, inst, starts, host>>
        BY <3>3
      <4> QED BY <4>1 DEF StoreTypes, Published, Resting
    <3> QED BY <3>1, <3>2, <3>3
  <2>4. CASE UploadTar
    BY <2>4 DEF StoreTypes, Published, UploadTar, PubGo, PubAt, Publishing
  <2>5. CASE UploadSidecar
    BY <2>5 DEF StoreTypes, Published, UploadSidecar, PubGo, PubAt, Publishing
  <2>6. CASE UploadLatest
    BY <2>6 DEF StoreTypes, Published, UploadLatest, PubAt, Publishing, Resting
  <2>7. CASE PublisherDies
    BY <2>7 DEF StoreTypes, Published, PublisherDies, Resting
  <2> QED BY <2>1, <2>2, <2>3, <2>4, <2>5, <2>6, <2>7
<1>2. LatestResolves'
  BY DEF LatestResolves, StoreTypes, Published, MirrorNode, Publish, StatRelease, UploadTar,
      UploadSidecar, UploadLatest, PublisherDies, AfterStat, Reconciled, PubGo, PubAt,
      Publishing, Resting
<1> QED BY <1>1, <1>2

\* And the host's: a build that an installer verified is replaced by force only.
LEMMA PublisherSteps ==
  ASSUME DistributionInv, MirrorNode \/ Publish \/ StatRelease \/ UploadTar \/ UploadSidecar \/ UploadLatest \/ PublisherDies
  PROVE  DistributionInv'
<1> USE DistributionAssumption DEF DistributionInv, StoreInv, Targets, store, host, Releases
<1>1. StoreInv'
  BY StoreSteps
<1>2. HostTypes'
  BY DEF HostTypes, MirrorNode, Publish, StatRelease, UploadTar, UploadSidecar, UploadLatest,
      PublisherDies
<1>3. OwnStage'
  <2>1. UNCHANGED <<inst, starts, stage>>
    BY DEF MirrorNode, Publish, StatRelease, UploadTar, UploadSidecar, UploadLatest, PublisherDies
  <2> QED BY <2>1 DEF OwnStage, Dead
<1>4. UNCHANGED <<inst, stage, landed>>
  BY DEF MirrorNode, Publish, StatRelease, UploadTar, UploadSidecar, UploadLatest, PublisherDies
<1>5. \A t \in Targets : t \notin forced' => t \notin forced /\ (tar[t] # 0 => tar'[t] = tar[t])
  BY DEF DistributionTypes, StoreTypes, HostTypes, Published, MirrorNode, Publish, StatRelease,
      UploadTar, UploadSidecar, UploadLatest, PublisherDies, PubAt
<1>6. side[0] # 0 => side'[0] = side[0]
  BY DEF DistributionTypes, StoreTypes, HostTypes, Published, MirrorNode, Publish, StatRelease,
      UploadTar, UploadSidecar, UploadLatest, PublisherDies, PubAt, Reconciled
<1>7. \A i \in Installers : inst[i].at \in Checked => Expected(i)' = Expected(i)
  BY <1>4, <1>6 DEF Expected, Verified
<1>8. Verified'
  <2>1. \A i \in Installers : inst'[i].at \in Checked =>
           Expected(i)' # 0 /\ (inst'[i].t \notin forced' => tar'[inst'[i].t] = Expected(i)')
    <3> SUFFICES ASSUME NEW i \in Installers, inst[i].at \in Checked
                 PROVE Expected(i) # 0 /\ (inst[i].t \notin forced' => tar'[inst[i].t] = Expected(i))
      BY <1>4, <1>7
    <3> inst[i].t \in Targets
      BY DEF DistributionTypes, StoreTypes, HostTypes, Processes
    <3> QED BY <1>5 DEF Verified
  <2> QED BY <1>4, <2>1 DEF Verified
<1>9. StageStands'
  BY <1>4, <1>7 DEF StageStands, Checked, Holding
<1>10. OneBuildPerVersion'
  <2> SUFFICES ASSUME NEW copy \in landed, copy[1] \notin forced' PROVE copy[2] = tar'[copy[1]]
    BY <1>4 DEF OneBuildPerVersion
  <2> copy[1] \in Targets /\ copy[2] \in Nat /\ copy[2] # 0
    BY DEF DistributionTypes, StoreTypes, HostTypes, Verified
  <2>1. copy[1] \notin forced
    BY DEF UploadTar, MirrorNode, Publish, StatRelease, UploadSidecar, UploadLatest, PublisherDies
  <2>2. copy[2] = tar[copy[1]]
    BY <2>1 DEF OneBuildPerVersion
  <2> QED BY <1>5, <2>2
<1> QED BY <1>1, <1>2, <1>3, <1>8, <1>9, <1>10

\* What the steps of an installer leave alone.
LEMMA InstallerKeeps ==
  ASSUME NEW i \in Installers, Installer(i)
  PROVE  /\ UNCHANGED <<tar, side, latest, pub, builds, forced>>
         /\ ~Stage(i) /\ ~Decide(i) /\ ~Move(i) => UNCHANGED stage
         /\ ~Move(i) => UNCHANGED landed
         /\ ~RunInstaller(i) /\ ~Update(i) => UNCHANGED starts
BY DEF Installer, RunInstaller, Starts, Update, Resolve, ChooseNode, LookForCopy, Download,
    Stage, Decide, Wipe, Move, FlipCurrent, InstallerDies, store, host

\* An installer that starts.
Starting(p, want) == [at |-> "resolve", pid |-> p, v |-> want, sha |-> 0, t |-> 0]

\* An installer starts with a pid no live one has.
LEMMA InstallerStarts ==
  ASSUME DistributionInv, NEW i \in Installers, RunInstaller(i) \/ Update(i)
  PROVE  /\ Dead(i) /\ starts + 1 \in Pids /\ starts' = starts + 1 /\ starts' \in 0..MaxStarts
         /\ UNCHANGED <<stage, app, landed, current>>
         /\ \E want \in Targets, p \in Pids \ LivePids :
              /\ inst' = [inst EXCEPT ![i] = Starting(p, want)]
              /\ Starting(p, want) \in Processes
              /\ ReusePids \/ p = starts + 1
<1>1. PICK want \in Targets : Starts(i, want)
  BY DEF RunInstaller, Update, Targets
<1>2. starts \in 0..MaxStarts
  BY DEF DistributionInv, StoreInv, DistributionTypes, StoreTypes, HostTypes
<1>3. PICK p \in Pids \ LivePids :
         /\ inst' = [inst EXCEPT ![i] = Starting(p, want)]
         /\ ReusePids \/ p = starts + 1
  BY <1>1 DEF Starts, Starting
<1>4. Starting(p, want) \in Processes
  <2>1. p \in 0..MaxStarts /\ "resolve" \in Steps /\ 0 \in Targets
    BY DistributionAssumption DEF Pids, Steps, Bare, Targets
  <2> QED BY <2>1 DEF Starting, Processes
<1>5. /\ Dead(i) /\ starts < MaxStarts /\ starts' = starts + 1
      /\ UNCHANGED <<stage, app, landed, current>>
  BY <1>1 DEF Starts, host
<1>6. starts + 1 \in Pids /\ starts + 1 \in 0..MaxStarts
  BY <1>2, <1>5, DistributionAssumption DEF Pids
<1> QED BY <1>3, <1>4, <1>5, <1>6

\* The steps of an installer keep the types.
LEMMA InstallerTypes ==
  ASSUME DistributionInv, NEW i \in Installers, Installer(i)
  PROVE  DistributionTypes'
<1>1. DistributionTypes /\ inst[i] \in Processes
  BY DEF DistributionInv, StoreInv, DistributionTypes, StoreTypes, HostTypes
<1>2. /\ inst[i].t \in Targets /\ inst[i].v \in Targets /\ 0 \in Targets /\ NotRun \in Processes
      /\ inst[i].pid \in 0..MaxStarts /\ inst[i].sha \in Nat
  BY <1>1, DistributionAssumption DEF Processes, NotRun, Targets
<1>3. \A at \in {"over"} \cup Steps, t, v \in Targets, sha \in Nat :
        [[[[inst[i] EXCEPT !.at = at] EXCEPT !.t = t] EXCEPT !.v = v] EXCEPT !.sha = sha] \in Processes
  BY <1>1 DEF Processes
<1>4. \A at \in {"over"} \cup Steps : [inst[i] EXCEPT !.at = at] \in Processes
  BY <1>1 DEF Processes
<1>5. \A at \in {"over"} \cup Steps : Go(i, at) => inst' \in [Installers -> Processes]
  BY <1>1, <1>4 DEF DistributionTypes, StoreTypes, HostTypes, Go
<1>6. Landed(i) => inst' \in [Installers -> Processes]
  <2>1. [[inst[i] EXCEPT !.at = "look"] EXCEPT !.t = inst[i].v] \in Processes
    BY <1>1, <1>2 DEF Processes, Steps, Bare
  <2>2. [inst[i] EXCEPT !.at = "flip"] \in Processes
    BY <1>4 DEF Steps, Bare
  <2> QED BY <1>1, <2>1, <2>2 DEF DistributionTypes, StoreTypes, HostTypes, Landed
<1>7. inst' = [inst EXCEPT ![i] = NotRun] => inst' \in [Installers -> Processes]
  BY <1>1, <1>2 DEF DistributionTypes, StoreTypes, HostTypes
<1> USE DEF Steps, Bare, Holding
<1>8. CASE RunInstaller(i) \/ Update(i)
  <2>1. PICK x \in Processes : inst' = [inst EXCEPT ![i] = x]
    BY <1>8, InstallerStarts
  <2>2. starts' \in 0..MaxStarts /\ UNCHANGED <<stage, app, landed, current>>
    BY <1>8, InstallerStarts
  <2> QED BY <1>1, <2>1, <2>2, InstallerKeeps DEF DistributionTypes, StoreTypes, HostTypes
<1>9. CASE Resolve(i)
  <2>1. inst' \in [Installers -> Processes]
    <3> DEFINE found == IF inst[i].v = 0 THEN latest ELSE [v |-> inst[i].v, build |-> side[inst[i].v]]
    <3>1. found.v \in Targets /\ found.build \in Nat
      BY <1>1, <1>2 DEF DistributionTypes, StoreTypes, HostTypes, Releases
    <3>2. [[[inst[i] EXCEPT !.at = "node"] EXCEPT !.v = found.v] EXCEPT !.sha = found.build] \in Processes
      <4> HIDE DEF found
      <4> QED BY <3>1, <1>1 DEF Processes
    <3>3. CASE found.build = 0
      BY <1>7, <1>9, <3>3 DEF Resolve
    <3>4. CASE found.build # 0
      <4>1. inst' = [inst EXCEPT ![i].at = "node", ![i].v = found.v, ![i].sha = found.build]
        BY <1>9, <3>4 DEF Resolve
      <4> HIDE DEF found
      <4> QED BY <4>1, <3>2, <1>1 DEF DistributionTypes, StoreTypes, HostTypes
    <3> QED BY <3>3, <3>4
  <2> QED BY <1>1, <1>9, <2>1, InstallerKeeps DEF Resolve, host, DistributionTypes, StoreTypes,
      HostTypes
<1>10. CASE ChooseNode(i)
  <2>1. [[inst[i] EXCEPT !.at = "look"] EXCEPT !.t = inst[i].v] \in Processes
    BY <1>1, <1>2 DEF Processes
  <2>2. inst' \in [Installers -> Processes]
    BY <1>1, <1>5, <1>10, <2>1 DEF ChooseNode, DistributionTypes, StoreTypes, HostTypes
  <2> QED BY <1>1, <1>10, <2>2, InstallerKeeps DEF ChooseNode, host, DistributionTypes,
      StoreTypes, HostTypes
<1>11. CASE LookForCopy(i) \/ Download(i)
  <2>1. inst' \in [Installers -> Processes]
    BY <1>5, <1>11 DEF LookForCopy, Download
  <2> QED BY <1>1, <1>11, <2>1, InstallerKeeps DEF LookForCopy, Download, host,
      DistributionTypes, StoreTypes, HostTypes
<1>12. CASE Stage(i)
  <2>1. inst' \in [Installers -> Processes]
    BY <1>5, <1>12 DEF Stage
  <2>2. stage' \in [Pids -> Releases]
    <3>1. [v |-> inst[i].t, build |-> Expected(i)] \in Releases /\ NoStage \in Releases
      BY <1>1, <1>2 DEF Expected, NoStage, Releases, DistributionTypes, StoreTypes, HostTypes
    <3> QED BY <1>1, <1>12, <3>1 DEF Stage, DistributionTypes, StoreTypes, HostTypes
  <2> QED BY <1>1, <1>12, <2>1, <2>2, InstallerKeeps DEF Stage, DistributionTypes, StoreTypes,
      HostTypes
<1>13. CASE Decide(i)
  <2>1. inst' \in [Installers -> Processes]
    BY <1>5, <1>6, <1>13 DEF Decide
  <2>2. stage' \in [Pids -> Releases]
    <3>1. NoStage \in Releases
      BY <1>2 DEF NoStage, Releases
    <3> QED BY <1>1, <1>13, <3>1 DEF Decide, DistributionTypes, StoreTypes, HostTypes
  <2> QED BY <1>1, <1>13, <2>1, <2>2, InstallerKeeps DEF Decide, DistributionTypes, StoreTypes,
      HostTypes
<1>14. CASE Wipe(i)
  <2>1. inst' \in [Installers -> Processes]
    BY <1>5, <1>7, <1>14 DEF Wipe
  <2>2. app' \in [Targets -> Copies]
    <3>1. NoCopy \in Copies /\ [app[inst[i].t] EXCEPT !.is = "partial"] \in Copies
      BY <1>1, <1>2 DEF NoCopy, Copies, DistributionTypes, StoreTypes, HostTypes
    <3> QED BY <1>1, <1>14, <3>1 DEF Wipe, DistributionTypes, StoreTypes, HostTypes
  <2> QED BY <1>1, <1>14, <2>1, <2>2, InstallerKeeps DEF Wipe, DistributionTypes, StoreTypes,
      HostTypes
<1>15. CASE Move(i)
  <2>1. inst' \in [Installers -> Processes]
    BY <1>6, <1>7, <1>15 DEF Move
  <2>2. stage' \in [Pids -> Releases]
    <3>1. NoStage \in Releases
      BY <1>2 DEF NoStage, Releases
    <3> QED BY <1>1, <1>15, <3>1 DEF Move, DistributionTypes, StoreTypes, HostTypes
  <2>3. app' \in [Targets -> Copies] /\ landed' \subseteq Targets \X Nat
    <3>1. CASE app[inst[i].t] = NoCopy /\ stage[inst[i].pid] # NoStage
      <4>1. stage[inst[i].pid].build \in Nat
        <5>1. inst[i].pid \in Pids
          BY <1>1, <1>15, DistributionAssumption DEF Move, At, Dead, DistributionInv, StoreInv,
              DistributionTypes, StoreTypes, HostTypes, OwnStage, Pids
        <5> QED BY <1>1, <5>1 DEF DistributionTypes, StoreTypes, HostTypes, Releases
      <4>2. [is |-> "complete", build |-> stage[inst[i].pid].build] \in Copies
        BY <4>1 DEF Copies
      <4> QED BY <1>1, <1>2, <1>15, <3>1, <4>1, <4>2 DEF Move, DistributionTypes, StoreTypes,
          HostTypes
    <3>2. CASE ~(app[inst[i].t] = NoCopy /\ stage[inst[i].pid] # NoStage)
      BY <1>1, <1>15, <3>2 DEF Move, DistributionTypes, StoreTypes, HostTypes
    <3> QED BY <3>1, <3>2
  <2> QED BY <1>1, <1>15, <2>1, <2>2, <2>3, InstallerKeeps DEF Move, DistributionTypes,
      StoreTypes, HostTypes
<1>16. CASE FlipCurrent(i) \/ InstallerDies(i)
  BY <1>1, <1>2, <1>7, <1>16, InstallerKeeps DEF FlipCurrent, InstallerDies, host,
      DistributionTypes, StoreTypes, HostTypes
<1> QED BY <1>8, <1>9, <1>10, <1>11, <1>12, <1>13, <1>14, <1>15, <1>16 DEF Installer

\* What a step of an installer does to the stages: its own, and those of the dead.
StageAsLeft(i) ==
  /\ \A p \in Pids : stage'[p] # stage[p] =>
       p = inst[i].pid \/ (p \notin LivePids /\ stage'[p] = NoStage)
  /\ inst'[i].at \in Bare => stage'[inst[i].pid] = NoStage
  /\ inst'[i].at \in Holding =>
       stage'[inst[i].pid] = [v |-> inst'[i].t, build |-> Expected(i)']

\* What it has verified after the step.
CheckedAsLeft(i) ==
  /\ inst'[i].at \in Steps \ {"resolve"} => inst'[i].v # 0
  /\ inst'[i].at \in Checked =>
       Expected(i)' # 0 /\ (inst'[i].t \notin forced => tar[inst'[i].t] = Expected(i)')

\* The steps of a live installer, for what they do to its stage.
LEMMA InstallerMoves ==
  ASSUME DistributionInv, NEW i \in Installers, Installer(i), ~RunInstaller(i), ~Update(i)
  PROVE  /\ ~Dead(i) /\ \A j \in Installers \ {i} : inst'[j] = inst[j]
         /\ inst'[i].at # "over" => inst'[i].pid = inst[i].pid
         /\ StageAsLeft(i) /\ CheckedAsLeft(i)
<1>1. /\ DistributionTypes /\ inst[i] \in Processes /\ inst \in [Installers -> Processes]
      /\ stage \in [Pids -> Releases] /\ tar \in [Targets -> Nat] /\ side \in [Targets -> Nat]
  BY DEF DistributionInv, StoreInv, DistributionTypes, StoreTypes, HostTypes
<1>2. /\ inst[i].t \in Targets /\ inst[i].v \in Targets
      /\ inst[i].pid \in 0..MaxStarts /\ inst[i].sha \in Nat
  BY <1>1 DEF Processes
<1>3. UNCHANGED <<tar, side, latest, pub, builds, forced>>
  BY InstallerKeeps
<1>4. ~Dead(i) => inst[i].pid \in Pids /\ inst[i].pid \in LivePids
  BY <1>1, DistributionAssumption DEF DistributionInv, StoreInv, OwnStage, Pids, LivePids,
      DistributionTypes, StoreTypes, HostTypes
<1>5. /\ inst[i].at \in Bare => stage[inst[i].pid] = NoStage
      /\ inst[i].at \in Holding => stage[inst[i].pid] = [v |-> inst[i].t, build |-> Expected(i)]
  BY DEF DistributionInv, StoreInv, OwnStage, StageStands, Holding
<1>6. /\ inst[i].at \in Steps \ {"resolve"} => inst[i].v # 0
      /\ inst[i].at \in Checked =>
           Expected(i) # 0 /\ (inst[i].t \notin forced => tar[inst[i].t] = Expected(i))
  BY DEF DistributionInv, StoreInv, Verified
<1> USE DEF At, Dead, Steps, Holding, Bare, Checked
<1>7. \A at : Go(i, at) =>
        /\ \A j \in Installers \ {i} : inst'[j] = inst[j]
        /\ inst'[i].at = at /\ inst'[i].pid = inst[i].pid /\ inst'[i].t = inst[i].t
        /\ inst'[i].v = inst[i].v /\ inst'[i].sha = inst[i].sha /\ Expected(i)' = Expected(i)
  BY <1>1, <1>3 DEF Go, Processes, Expected
<1>8. inst' = [inst EXCEPT ![i] = NotRun] =>
        /\ \A j \in Installers \ {i} : inst'[j] = inst[j]
        /\ inst'[i].at = "over"
  BY <1>1 DEF NotRun
<1>9. Landed(i) =>
        /\ \A j \in Installers \ {i} : inst'[j] = inst[j]
        /\ inst'[i].at \in {"look", "flip"} /\ inst'[i].pid = inst[i].pid /\ inst'[i].v = inst[i].v
  BY <1>1 DEF Landed, Processes
<1>10. CASE Resolve(i)
  <2>1. UNCHANGED stage
    BY <1>10, InstallerKeeps DEF Stage, Decide, Move, Resolve
  <2> DEFINE found == IF inst[i].v = 0 THEN latest ELSE [v |-> inst[i].v, build |-> side[inst[i].v]]
  <2>2. CASE found.build = 0
    BY <1>8, <1>10, <2>1, <2>2 DEF Resolve, StageAsLeft, CheckedAsLeft
  <2>3. CASE found.build # 0
    <3>1. found.v # 0
      BY <2>3, <1>1 DEF DistributionInv, StoreInv, Published
    <3>2. inst' = [inst EXCEPT ![i].at = "node", ![i].v = found.v, ![i].sha = found.build]
      BY <1>10, <2>3 DEF Resolve
    <3> HIDE DEF found
    <3>3. /\ \A j \in Installers \ {i} : inst'[j] = inst[j]
          /\ inst'[i].at = "node" /\ inst'[i].pid = inst[i].pid /\ inst'[i].v = found.v
      BY <1>1, <3>2 DEF Processes
    <3>4. stage[inst[i].pid] = NoStage /\ ~Dead(i)
      BY <1>5, <1>10 DEF Resolve
    <3> QED BY <2>1, <3>1, <3>3, <3>4 DEF StageAsLeft, CheckedAsLeft
  <2> QED BY <2>2, <2>3
<1>11. CASE ChooseNode(i)
  <2>1. UNCHANGED stage
    BY <1>11 DEF ChooseNode, host
  <2>2. inst' = [inst EXCEPT ![i].at = "look", ![i].t = inst[i].v] =>
          /\ \A j \in Installers \ {i} : inst'[j] = inst[j]
          /\ inst'[i].at = "look" /\ inst'[i].pid = inst[i].pid /\ inst'[i].v = inst[i].v
    BY <1>1 DEF Processes
  <2>3. inst[i].at = "node" /\ (inst' = [inst EXCEPT ![i].at = "look", ![i].t = inst[i].v] \/ Go(i, "download"))
    BY <1>11 DEF ChooseNode
  <2> QED BY <1>5, <1>6, <1>7, <2>1, <2>2, <2>3 DEF StageAsLeft, CheckedAsLeft
<1>12. CASE LookForCopy(i)
  <2>1. inst[i].at = "look" /\ UNCHANGED stage /\ (Go(i, "flip") \/ Go(i, "download"))
    BY <1>12 DEF LookForCopy, host
  <2> QED BY <1>5, <1>6, <1>7, <2>1 DEF StageAsLeft, CheckedAsLeft
<1>13. CASE Download(i)
  <2>1. /\ inst[i].at = "download" /\ UNCHANGED stage
        /\ \/ Go(i, "over")
           \/ Go(i, "stage") /\ tar[inst[i].t] # 0 /\ tar[inst[i].t] = Expected(i)
    BY <1>13 DEF Download, host
  <2> QED BY <1>3, <1>5, <1>6, <1>7, <2>1 DEF StageAsLeft, CheckedAsLeft
<1>14. CASE Stage(i)
  <2>1. inst[i].at = "stage" /\ Go(i, "decide")
    BY <1>14 DEF Stage
  <2>2. PICK reaped \in SUBSET Reapable(i) :
          stage' = [p \in Pids |->
            IF p \in reaped THEN NoStage
            ELSE IF p = inst[i].pid /\ stage[p] = NoStage
              THEN [v |-> inst[i].t, build |-> Expected(i)] ELSE stage[p]]
    BY <1>14 DEF Stage
  <2>3. reaped \cap LivePids = {}
    BY DEF Reapable
  <2>4. stage[inst[i].pid] = NoStage /\ inst[i].pid \in Pids /\ inst[i].pid \notin reaped
    BY <1>4, <1>5, <2>1, <2>3
  <2>5. StageAsLeft(i)
    BY <1>1, <1>7, <2>1, <2>2, <2>3, <2>4 DEF StageAsLeft
  <2>6. CheckedAsLeft(i)
    BY <1>6, <1>7, <2>1 DEF CheckedAsLeft
  <2> QED BY <1>7, <2>1, <2>5, <2>6
<1>15. CASE Decide(i)
  <2>1. /\ inst[i].at = "decide"
        /\ \/ stage' = [stage EXCEPT ![inst[i].pid] = NoStage] /\ Landed(i)
           \/ Go(i, "exists") /\ UNCHANGED stage
    BY <1>15 DEF Decide
  <2> QED BY <1>1, <1>4, <1>5, <1>6, <1>7, <1>9, <2>1 DEF StageAsLeft, CheckedAsLeft
<1>16. CASE Wipe(i)
  <2>1. /\ inst[i].at = "exists" /\ UNCHANGED stage
        /\ Go(i, "move") \/ inst' = [inst EXCEPT ![i] = NotRun]
    BY <1>16 DEF Wipe
  <2> QED BY <1>5, <1>6, <1>7, <1>8, <2>1 DEF StageAsLeft, CheckedAsLeft
<1>17. CASE Move(i)
  <2>1. /\ inst[i].at = "move" /\ stage' = [stage EXCEPT ![inst[i].pid] = NoStage]
        /\ inst' = [inst EXCEPT ![i] = NotRun] \/ Landed(i)
    BY <1>17 DEF Move
  <2> QED BY <1>1, <1>4, <1>6, <1>8, <1>9, <2>1 DEF StageAsLeft, CheckedAsLeft
<1>18. CASE FlipCurrent(i) \/ InstallerDies(i)
  <2>1. /\ ~Dead(i) /\ UNCHANGED stage /\ inst' = [inst EXCEPT ![i] = NotRun]
    BY <1>18 DEF FlipCurrent, InstallerDies, host
  <2> QED BY <1>8, <2>1 DEF StageAsLeft, CheckedAsLeft
<1> QED BY <1>10, <1>11, <1>12, <1>13, <1>14, <1>15, <1>16, <1>17, <1>18 DEF Installer

(* The copies that were ever complete: a rename adds what its installer verified. *)
LEMMA InstallerLands ==
  ASSUME DistributionInv, NEW i \in Installers, Installer(i)
  PROVE  \A copy \in landed' : copy[2] # 0 /\ (copy[1] \notin forced => copy[2] = tar[copy[1]])
<1>1. \A copy \in landed : copy[2] # 0 /\ (copy[1] \notin forced => copy[2] = tar[copy[1]])
  BY DEF DistributionInv, StoreInv, Verified, OneBuildPerVersion
<1>2. CASE Move(i)
  <2>1. /\ Expected(i) # 0 /\ (inst[i].t \notin forced => tar[inst[i].t] = Expected(i))
        /\ stage[inst[i].pid] = [v |-> inst[i].t, build |-> Expected(i)]
    BY <1>2 DEF Move, At, DistributionInv, StoreInv, Verified, StageStands, Checked, Holding
  <2>2. landed' \subseteq landed \cup {<<inst[i].t, Expected(i)>>}
    BY <1>2, <2>1 DEF Move
  <2> QED BY <1>1, <2>1, <2>2
<1>3. CASE ~Move(i)
  BY <1>1, <1>3, InstallerKeeps
<1> QED BY <1>2, <1>3

\* The steps of an installer keep the invariant while no pid is given out again.
LEMMA InstallerSteps ==
  ASSUME ~ReusePids, DistributionInv, NEW i \in Installers, Installer(i)
  PROVE  DistributionInv'
<1>1. DistributionTypes /\ DistributionTypes'
  BY InstallerTypes DEF DistributionInv, StoreInv, DistributionTypes
<1>2. UNCHANGED <<tar, side, latest, pub, builds, forced>>
  BY InstallerKeeps
<1>3. Published' /\ LatestResolves'
  BY <1>2 DEF DistributionInv, StoreInv, Published, LatestResolves
<1>4. OneBuildPerVersion'
  BY <1>2, InstallerLands DEF OneBuildPerVersion
<1>5. \A j \in Installers : inst[j] \in Processes /\ inst'[j] \in Processes
  BY <1>1 DEF DistributionTypes, StoreTypes, HostTypes
<1>6. \A j \in Installers \ {i} : inst'[j] = inst[j] => Expected(j)' = Expected(j)
  BY <1>2 DEF Expected
<1>7. \A j \in Installers : ~Dead(j) => inst[j].pid \in 1..starts /\ inst[j].pid \in LivePids
  BY DEF DistributionInv, StoreInv, OwnStage, LivePids
<1>8. OwnStage /\ StageStands /\ Verified /\ starts \in 0..MaxStarts
  BY DEF DistributionInv, StoreInv, DistributionTypes, StoreTypes, HostTypes
<1>9. CASE RunInstaller(i) \/ Update(i)
  <2>1. PICK want \in Targets : inst' = [inst EXCEPT ![i] = Starting(starts + 1, want)]
    BY <1>9, InstallerStarts
  <2>2. /\ Dead(i) /\ starts + 1 \in Pids /\ starts' = starts + 1 /\ UNCHANGED stage
    BY <1>9, InstallerStarts
  <2>3. /\ \A j \in Installers \ {i} : inst'[j] = inst[j]
        /\ inst'[i].at = "resolve" /\ inst'[i].pid = starts + 1
    BY <1>1, <2>1 DEF DistributionTypes, StoreTypes, HostTypes, Starting
  <2>4. OwnStage'
    BY <1>7, <1>8, <2>2, <2>3 DEF OwnStage, Dead, Pids
  <2>5. StageStands'
    BY <1>6, <1>8, <2>2, <2>3 DEF StageStands
  <2>6. \A copy \in landed' : copy[2] # 0
    BY InstallerLands
  <2>7. Verified'
    BY <1>2, <1>6, <1>8, <2>3, <2>6 DEF Verified, Checked, Holding
  <2> QED BY <1>1, <1>3, <1>4, <2>4, <2>5, <2>7 DEF DistributionInv, StoreInv, DistributionTypes
<1>10. CASE ~RunInstaller(i) /\ ~Update(i)
  <2>1. /\ ~Dead(i) /\ \A j \in Installers \ {i} : inst'[j] = inst[j]
        /\ inst'[i].at # "over" => inst'[i].pid = inst[i].pid
        /\ StageAsLeft(i) /\ CheckedAsLeft(i)
    BY <1>10, InstallerMoves
  <2>2. UNCHANGED starts
    BY <1>10, InstallerKeeps
  <2>3. \A j \in Installers \ {i} : ~Dead(j) => inst[j].pid \in Pids /\ stage'[inst[j].pid] = stage[inst[j].pid]
    BY <1>7, <1>8, <2>1, DistributionAssumption DEF StageAsLeft, OwnStage, Pids
  <2>4. OwnStage'
    <3>1. \A j \in Installers : ~Dead(j)' => ~Dead(j) /\ inst'[j].pid = inst[j].pid
      BY <2>1 DEF Dead
    <3>2. \A j \in Installers : inst'[j].at \in Bare => stage'[inst'[j].pid] = NoStage
      BY <1>8, <2>1, <2>3 DEF OwnStage, StageAsLeft, Dead, Bare
    <3>3. \A p \in Pids : p > starts' => stage'[p] = NoStage
      BY <1>7, <1>8, <2>1, <2>2 DEF OwnStage, StageAsLeft, Pids
    <3> QED BY <1>8, <2>2, <3>1, <3>2, <3>3 DEF OwnStage
  <2>5. StageStands'
    BY <1>6, <1>8, <2>1, <2>3 DEF StageStands, StageAsLeft, Holding, Dead
  <2>6. \A copy \in landed' : copy[2] # 0
    BY InstallerLands
  <2>7. Verified'
    BY <1>2, <1>6, <1>8, <2>1, <2>6 DEF Verified, CheckedAsLeft
  <2> QED BY <1>1, <1>3, <1>4, <2>4, <2>5, <2>7 DEF DistributionInv, StoreInv, DistributionTypes
<1> QED BY <1>9, <1>10

\* DistributionInv is inductive while no pid is given out again.
LEMMA DistributionKeeps ==
  ASSUME ~ReusePids, DistributionInv, [DistributionNext]_distributionVars
  PROVE  DistributionInv'
<1>1. CASE UNCHANGED distributionVars
  BY <1>1 DEF distributionVars, DistributionInv, StoreInv, StoreTypes, HostTypes, Published,
      OwnStage,
    Verified, LatestResolves, StageStands, OneBuildPerVersion, Dead, Expected
<1>2. CASE DistributionNext
  BY <1>2, PublisherSteps, InstallerSteps DEF DistributionNext
<1> QED BY <1>1, <1>2

(* No publication that is interrupted anywhere leaves a pointer an install   *)
(* would refuse, however many releases, replacements and installers.         *)
THEOREM DistributionPointer == DistributionSpec => []LatestResolves
<1>1. DistributionInit => StoreInv
  BY DistributionAssumption DEF DistributionInit, StoreInv, StoreTypes, Published, LatestResolves,
    Resting, Targets, Publishing, Releases
<1>2. StoreInv /\ [DistributionNext]_distributionVars => StoreInv'
  <2> SUFFICES ASSUME StoreInv, [DistributionNext]_distributionVars PROVE StoreInv'
    OBVIOUS
  <2>1. UNCHANGED <<tar, side, latest, pub, builds, forced>> => StoreInv'
    BY DEF StoreInv, StoreTypes, Published, LatestResolves
  <2>2. CASE UNCHANGED distributionVars
    BY <2>1, <2>2 DEF distributionVars
  <2>3. CASE \E i \in Installers : Installer(i)
    BY <2>1, <2>3, InstallerKeeps
  <2>4. CASE MirrorNode \/ Publish \/ StatRelease \/ UploadTar \/ UploadSidecar \/ UploadLatest \/ PublisherDies
    BY <2>4, StoreSteps
  <2> QED BY <2>2, <2>3, <2>4 DEF DistributionNext
<1>3. StoreInv => LatestResolves
  BY DEF StoreInv
<1> QED BY <1>1, <1>2, <1>3, PTL DEF DistributionSpec

(* As long as no pid is given out again: the stage an installer renames is   *)
(* its own, whoever reaps stages meanwhile.                                  *)
THEOREM DistributionStage ==
  ASSUME ~ReusePids PROVE DistributionSpec => []StageStands
<1>1. DistributionInv => StageStands
  BY DEF DistributionInv
<1> QED BY <1>1, DistributionStarts, DistributionKeeps, PTL DEF DistributionSpec

(* As long as no pid is given out again: two complete copies of a version    *)
(* that was never forced are the same build, the one in the store.           *)
THEOREM DistributionOneBuild ==
  ASSUME ~ReusePids PROVE DistributionSpec => []OneBuildPerVersion
<1>1. DistributionInv => OneBuildPerVersion
  BY DEF DistributionInv
<1> QED BY <1>1, DistributionStarts, DistributionKeeps, PTL DEF DistributionSpec
=============================================================================
