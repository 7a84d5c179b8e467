---------------------------- MODULE MigrationProofs ----------------------------
(***************************************************************************)
(* The offline migration, for any workbooks and any dictionary: the build  *)
(* of its files, and what its stages make of the sheets.                   *)
(*                                                                         *)
(* A database built offline says what it was built from (BuildInv). A      *)
(* content never comes back, so what a build saw of a file lies between    *)
(* the first content it kept or named and the one at hand; once these two  *)
(* were found equal, all it saw is one. The review of the S/N, which is    *)
(* compared with nothing after it was read, is followed apart from the     *)
(* other sources (Looked): it is only known what came before what.         *)
(*                                                                         *)
(* The names of a valid candidate are those of its sheets (StagingInv).    *)
(*                                                                         *)
(* What a build of the full warehouse has written is what it has read of   *)
(* the two sheets (FullInv): a card shows the current row of its group, an *)
(* entry says which card its row belongs to, an issue is that of its row.  *)
(* The steps are stated first of a book and its tables that are named.     *)
(*                                                                         *)
(* A pilot takes no two rows of one identity for cards, and what repeats   *)
(* an identity has its card (PilotInv): the kinds of groups are apart, and *)
(* the rows of the quotas are alone in theirs.                             *)
(***************************************************************************)
EXTENDS OfflineBuild, CandidateStaging, FullReview, PilotMigration, TLAPS, FiniteSetTheorems,
  WellFoundedInduction

-----------------------------------------------------------------------------
(* The databases built offline: the lists of steps. *)

\* What a build compares with what it saw; and what else it looks at.
Origin == {"raw", "review", "working", "candidate"}
Sources == Origin \cup {"serialReview"}

Settles(S, i, x) == S[i] = Do("same", x) \/ (x = "review" /\ S[i] = Do("match", x))

\* The steps before the n-th.
Did(S, n, duty) == \E j \in 1..(n - 1) : S[j] = duty
Settled(S, n, x) == \E j \in 1..(n - 1) : Settles(S, j, x)

\* A list looks at a file after it was kept, or named, for the comparison to come; it
\* keeps each before all else and once, and looks at none again that was compared.
Ordered(S, i) ==
  LET x == S[i].of
  IN  /\ S[i] = Do(S[i].what, x)
      /\ x \in Origin \/ (x = "serialReview" /\ S[i].what \in {"read", "name", "approved"})
      /\ S[i].what = "keep" =>
           /\ x # "review"
           /\ \A j \in 1..(i - 1) :
                S[j].what \in {"keep", "listed", "quiet"} /\ (S[j].what = "keep" => S[j].of # x)
      /\ S[i].what \in {"read", "name"} /\ x \in Origin =>
           /\ ~Settled(S, i, x)
           /\ x # "review" => Did(S, i, Do("keep", x))
      /\ S[i].what = "name" /\ x \in Origin => ~Did(S, i, S[i])
      /\ S[i] = Do("name", "review") => ~Did(S, i, Do("read", "review"))
      /\ S[i].what = "same" => Did(S, i, Do("keep", x))
      /\ S[i] \in {Do("read", "review"), Do("match", "review")} => Did(S, i, Do("name", "review"))
      /\ S[i].what = "registered" =>
           \A y \in {"raw", "candidate"} : ~Settled(S, i, y) /\ Did(S, i, Do("keep", y))
      /\ S[i].what = "read" /\ x \in Origin => Settled(S, Len(S) + 1, x)

WellOrdered(S) ==
  /\ Len(S) \in Nat
  /\ \A i \in 1..Len(S) : Ordered(S, i)
  /\ Did(S, Len(S) + 1, Do("read", "raw"))

\* The pilot reads the review of the S/N once it is named and approved, the full
\* candidate names it once it is read.
ReviewOrdered(s, S) ==
  /\ s = "candidate" => \A i \in 1..Len(S) : S[i].of # "serialReview"
  /\ s = "pilot" =>
       /\ \A i \in 1..Len(S) :
            /\ S[i] = Do("read", "serialReview") => Did(S, i, Do("approved", "serialReview"))
            /\ S[i] = Do("approved", "serialReview") => Did(S, i, Do("name", "serialReview"))
            /\ S[i] = Do("name", "serialReview") =>
                 ~Did(S, i, Do("read", "serialReview")) /\ ~Did(S, i, Do("approved", "serialReview"))
       /\ Did(S, Len(S) + 1, Do("read", "serialReview"))
  /\ s = "full" =>
       /\ \A i \in 1..Len(S) :
            S[i] = Do("read", "serialReview") => ~Did(S, i, Do("name", "serialReview"))
       /\ Did(S, Len(S) + 1, Do("read", "serialReview"))
       /\ Did(S, Len(S) + 1, Do("name", "serialReview"))

LEMMA CandidateOrder == WellOrdered(CandidateSteps) /\ ReviewOrdered("candidate", CandidateSteps)
<1> DEFINE S == CandidateSteps
<1>1. /\ Len(S) = 13 /\ S[1] = Do("listed", "raw")
      /\ S[2] = Do("quiet", "working") /\ S[3] = Do("keep", "raw")
      /\ S[4] = Do("keep", "working") /\ S[5] = Do("read", "working")
      /\ S[6] = Do("name", "raw") /\ S[7] = Do("name", "review")
      /\ S[8] = Do("read", "review") /\ S[9] = Do("read", "raw")
      /\ S[10] = Do("match", "raw") /\ S[11] = Do("match", "review")
      /\ S[12] = Do("same", "raw") /\ S[13] = Do("same", "working")
  BY SMTT(60) DEF CandidateSteps, CandidateContent
<1> HIDE DEF S
<1>2. WellOrdered(S)
  BY <1>1, SMTT(60) DEF WellOrdered, Ordered, Did, Settled, Settles, Do, Origin
<1>4. ReviewOrdered("candidate", S)
  BY <1>1, SMTT(60) DEF ReviewOrdered, Did, Do
<1> QED
  BY <1>4, <1>2 DEF S

LEMMA PilotOrder ==
  /\ WellOrdered(PilotSteps(TRUE)) /\ ReviewOrdered("pilot", PilotSteps(TRUE))
  /\ \A n : n = Len(PilotSteps(TRUE)) + 1 =>
       /\ Did(PilotSteps(TRUE), n, Do("registered", "raw"))
       /\ Did(PilotSteps(TRUE), n, Do("read", "candidate"))
       /\ Settled(PilotSteps(TRUE), n, "raw") /\ Settled(PilotSteps(TRUE), n, "candidate")
<1> DEFINE S == PilotSteps(TRUE)
<1>1. /\ Len(S) = 14 /\ S[1] = Do("keep", "raw")
      /\ S[2] = Do("keep", "working") /\ S[3] = Do("keep", "candidate")
      /\ S[4] = Do("name", "serialReview") /\ S[5] = Do("approved", "serialReview")
      /\ S[6] = Do("read", "serialReview")
      /\ S[7] = Do("registered", "raw") /\ S[8] = Do("read", "raw")
      /\ S[9] = Do("read", "candidate") /\ S[10] = Do("name", "candidate")
      /\ S[11] = Do("read", "candidate") /\ S[12] = Do("same", "raw")
      /\ S[13] = Do("same", "working") /\ S[14] = Do("same", "candidate")
  BY SMTT(60) DEF PilotSteps, PilotReads
<1> HIDE DEF S
<1>2. WellOrdered(S)
  BY <1>1, SMTT(60) DEF WellOrdered, Ordered, Did, Settled, Settles, Do, Origin
<1>3. \A n : n = Len(S) + 1 =>
        /\ Did(S, n, Do("registered", "raw")) /\ Did(S, n, Do("read", "candidate"))
        /\ Settled(S, n, "raw") /\ Settled(S, n, "candidate")
  BY <1>1 DEF Did, Settled, Settles
<1>4. ReviewOrdered("pilot", S)
  BY <1>1, SMTT(60) DEF ReviewOrdered, Did, Do
<1> QED
  BY <1>4, <1>2, <1>3 DEF S

LEMMA SelectionOrder == WellOrdered(PilotSteps(FALSE)) /\ ReviewOrdered("pilot", PilotSteps(FALSE))
<1> DEFINE S == PilotSteps(FALSE)
<1>1. /\ Len(S) = 13 /\ S[1] = Do("keep", "raw")
      /\ S[2] = Do("keep", "working") /\ S[3] = Do("keep", "candidate")
      /\ S[4] = Do("name", "serialReview") /\ S[5] = Do("approved", "serialReview")
      /\ S[6] = Do("read", "serialReview")
      /\ S[7] = Do("registered", "raw") /\ S[8] = Do("read", "raw")
      /\ S[9] = Do("read", "candidate") /\ S[10] = Do("name", "candidate")
      /\ S[11] = Do("same", "raw") /\ S[12] = Do("same", "working")
      /\ S[13] = Do("same", "candidate")
  BY SMTT(60) DEF PilotSteps, PilotReads
<1> HIDE DEF S
<1>2. WellOrdered(S)
  BY <1>1, SMTT(60) DEF WellOrdered, Ordered, Did, Settled, Settles, Do, Origin
<1>4. ReviewOrdered("pilot", S)
  BY <1>1, SMTT(60) DEF ReviewOrdered, Did, Do
<1> QED
  BY <1>4, <1>2 DEF S

LEMMA FullOrder == WellOrdered(FullSteps) /\ ReviewOrdered("full", FullSteps)
<1> DEFINE S == FullSteps
<1>1. /\ Len(S) = 13 /\ S[1] = Do("keep", "raw")
      /\ S[2] = Do("keep", "working") /\ S[3] = Do("keep", "candidate")
      /\ S[4] = Do("read", "working") /\ S[5] = Do("name", "candidate")
      /\ S[6] = Do("name", "working") /\ S[7] = Do("read", "candidate")
      /\ S[8] = Do("read", "raw") /\ S[9] = Do("read", "serialReview")
      /\ S[10] = Do("name", "serialReview") /\ S[11] = Do("same", "raw")
      /\ S[12] = Do("same", "working") /\ S[13] = Do("same", "candidate")
  BY SMTT(60) DEF FullSteps, FullContent
<1> HIDE DEF S
<1>2. WellOrdered(S)
  BY <1>1, SMTT(60) DEF WellOrdered, Ordered, Did, Settled, Settles, Do, Origin
<1>4. ReviewOrdered("full", S)
  BY <1>1, SMTT(60) DEF ReviewOrdered, Did, Do
<1> QED
  BY <1>4, <1>2 DEF S

\* One content of file x comes before another, or is the other.
Older(x, u, v) ==
  IF x = "candidate" THEN u.id \in Nat /\ v.id \in Nat /\ (u = v \/ u.id < v.id)
  ELSE u \in Nat /\ v \in Nat /\ u <= v

Eldest(kept, named, x) == IF x \in DOMAIN kept THEN kept[x][1] ELSE named[x]

\* A content that was seen is not older than the one to compare with, not newer than the
\* one at hand, and no other once they were compared.
Between(S, n, kept, named, now, x, o) ==
  /\ Older(x, Eldest(kept, named, x), o) /\ Older(x, o, now[x])
  /\ Settled(S, n, x) => o = Eldest(kept, named, x)

\* What a build has seen when it is at step n.
Saw(S, n, kept, read, named, now) ==
  /\ n \in 1..(Len(S) + 1)
  /\ DOMAIN kept \subseteq Origin /\ DOMAIN read \subseteq Origin /\ DOMAIN named \subseteq Origin
  /\ \A x \in Origin : x \in DOMAIN kept <=> Did(S, n, Do("keep", x))
  /\ \A x \in Origin : x \in DOMAIN read <=> Did(S, n, Do("read", x))
  /\ \A x \in Origin : x \in DOMAIN named <=> Did(S, n, Do("name", x))
  /\ \A x \in DOMAIN kept : Between(S, n, kept, named, now, x, kept[x][1])
  /\ \A x \in DOMAIN read :
       read[x] # {} /\ \A o \in read[x] : Between(S, n, kept, named, now, x, o)
  /\ \A x \in DOMAIN named : Between(S, n, kept, named, now, x, named[x])
  /\ DOMAIN read \subseteq DOMAIN kept \cup DOMAIN named
  /\ Did(S, n, Do("registered", "raw")) => {"raw", "candidate"} \subseteq DOMAIN kept
  /\ Did(S, n, Do("registered", "raw")) =>
       \E c : Between(S, n, kept, named, now, "candidate", c)
              /\ Between(S, n, kept, named, now, "raw", c.raw)

LEMMA DidOn ==
  ASSUME NEW S, NEW n \in Nat \ {0}
  PROVE  /\ \A duty : Did(S, n + 1, duty) <=> Did(S, n, duty) \/ S[n] = duty
         /\ \A x : Settled(S, n + 1, x) <=> Settled(S, n, x) \/ Settles(S, n, x)
BY DEF Did, Settled

LEMMA OlderOn ==
  /\ \A x, u, v, w : Older(x, u, v) /\ Older(x, v, w) => Older(x, u, w)
  /\ \A x, u, v : Older(x, u, v) /\ Older(x, v, u) => u = v
BY DEF Older

\* The files change.
LEMMA SeenLater ==
  ASSUME NEW S, NEW n, NEW kept, NEW read, NEW named, NEW now, NEW then,
         Saw(S, n, kept, read, named, now),
         \A x \in Origin : Older(x, now[x], then[x])
  PROVE  Saw(S, n, kept, read, named, then)
<1>1. ASSUME NEW x \in Origin, NEW o, Between(S, n, kept, named, now, x, o)
      PROVE  Between(S, n, kept, named, then, x, o)
  BY <1>1, OlderOn DEF Between
<1> QED
  BY <1>1 DEF Saw, Origin

\* A step of each kind.
LEMMA KeepSees ==
  ASSUME NEW S, NEW n, NEW kept, NEW read, NEW named, NEW now, WellOrdered(S),
         Saw(S, n, kept, read, named, now), n <= Len(S),
         \A x \in Origin : Older(x, now[x], now[x]),
         NEW x, S[n] = Do("keep", x), NEW v, v[1] = now[x]
  PROVE  Saw(S, n + 1, With(kept, x, v), read, named, now)
<1> DEFINE k == With(kept, x, v)
<1>1. n \in 1..Len(S) /\ n \in Nat \ {0} /\ Ordered(S, n)
  BY DEF Saw, WellOrdered
<1>2. S[n].what = "keep" /\ S[n].of = x /\ x \in Origin /\ x # "review"
  BY <1>1 DEF Ordered, Do
<1>3. \A j \in 1..(n - 1) : S[j].what \in {"keep", "listed", "quiet"} /\ S[j] # Do("keep", x)
  BY <1>1, <1>2 DEF Ordered, Do
<1>4. \A y : /\ ~Did(S, n, Do("read", y)) /\ ~Did(S, n, Do("name", y)) /\ ~Settled(S, n, y)
             /\ ~Did(S, n, Do("registered", y))
  BY <1>3 DEF Did, Settled, Settles, Do
<1>5. ~Did(S, n, Do("keep", x))
  BY <1>3 DEF Did
<1>6. /\ DOMAIN k = DOMAIN kept \cup {x} /\ k[x] = v
      /\ \A y \in DOMAIN kept : y # x => k[y] = kept[y]
  BY DEF With
<1> HIDE DEF k
<1>7. /\ \A duty : Did(S, n + 1, duty) <=> Did(S, n, duty) \/ S[n] = duty
      /\ \A y : Settled(S, n + 1, y) <=> Settled(S, n, y) \/ Settles(S, n, y)
  BY <1>1, DidOn
<1>8. \A y : ~Settles(S, n, y)
  BY <1>2 DEF Settles, Do
<1>9. \A y : ~Settled(S, n + 1, y)
  BY <1>4, <1>7, <1>8
<1>10. DOMAIN read = {} /\ DOMAIN named = {} /\ x \notin DOMAIN kept
  BY <1>2, <1>4, <1>5 DEF Saw
<1>11. ASSUME NEW y \in DOMAIN k PROVE Between(S, n + 1, k, named, now, y, k[y][1])
  <2>1. CASE y = x
    BY <1>2, <1>6, <1>9, <2>1 DEF Between, Eldest
  <2>2. CASE y # x
    BY <1>6, <1>9, <2>2 DEF Between, Eldest, Saw
  <2> QED
    BY <2>1, <2>2
<1>12. /\ \A y \in Origin : y \in DOMAIN k <=> Did(S, n + 1, Do("keep", y))
       /\ \A y \in Origin : ~Did(S, n + 1, Do("read", y)) /\ ~Did(S, n + 1, Do("name", y))
       /\ ~Did(S, n + 1, Do("registered", "raw"))
  <2>1. \A y \in Origin : Did(S, n, Do("keep", y)) <=> y \in DOMAIN kept
    BY DEF Saw
  <2>2. \A y : /\ S[n] # Do("read", y) /\ S[n] # Do("name", y) /\ S[n] # Do("registered", y)
               /\ S[n] = Do("keep", y) <=> y = x
    BY <1>2 DEF Do
  <2>3. \A y \in Origin : y \in DOMAIN k <=> Did(S, n + 1, Do("keep", y))
    BY <1>6, <1>7, <2>1, <2>2
  <2> QED
    BY <1>4, <1>7, <2>2, <2>3
<1>13. DOMAIN k \subseteq Origin /\ n + 1 \in 1..(Len(S) + 1)
  BY <1>1, <1>2, <1>6 DEF Saw, WellOrdered
<1>14. Saw(S, n + 1, k, read, named, now)
  BY <1>10, <1>11, <1>12, <1>13 DEF Saw
<1> QED
  BY <1>14 DEF k

LEMMA ReadSees ==
  ASSUME NEW S, NEW n, NEW kept, NEW read, NEW named, NEW now, WellOrdered(S),
         Saw(S, n, kept, read, named, now), n <= Len(S),
         \A x \in Origin : Older(x, now[x], now[x]),
         NEW x \in Origin, S[n] = Do("read", x)
  PROVE  Saw(S, n + 1, kept, Upto(read, x, now[x]), named, now)
<1> DEFINE r == Upto(read, x, now[x])
<1>1. n \in 1..Len(S) /\ n \in Nat \ {0} /\ Ordered(S, n)
  BY DEF Saw, WellOrdered
<1>2. S[n].what = "read" /\ S[n].of = x /\ x \in Origin
  BY <1>1 DEF Ordered, Do
<1>3. ~Settled(S, n, x) /\ x \in DOMAIN kept \cup DOMAIN named
  <2>1. x # "review" => Did(S, n, Do("keep", x))
    BY <1>1, <1>2 DEF Ordered
  <2>2. x = "review" => Did(S, n, Do("name", x))
    BY <1>1, <1>2 DEF Ordered
  <2>3. ~Settled(S, n, x)
    BY <1>1, <1>2 DEF Ordered
  <2> QED
    BY <1>2, <2>1, <2>2, <2>3 DEF Saw
<1>4. /\ DOMAIN r = DOMAIN read \cup {x}
      /\ \A y \in DOMAIN read : y # x => r[y] = read[y]
      /\ r[x] = {now[x]} \cup IF x \in DOMAIN read THEN read[x] ELSE {}
  BY DEF With, Upto
<1> HIDE DEF r
<1>5. /\ \A duty : Did(S, n + 1, duty) <=> Did(S, n, duty) \/ S[n] = duty
      /\ \A y : Settled(S, n + 1, y) <=> Settled(S, n, y) \/ Settles(S, n, y)
  BY <1>1, DidOn
<1>6. \A y : /\ ~Settles(S, n, y)
             /\ S[n] # Do("keep", y) /\ S[n] # Do("name", y) /\ S[n] # Do("registered", y)
             /\ S[n] = Do("read", y) <=> y = x
  BY <1>2 DEF Settles, Do
<1>7. \A y, o : Between(S, n, kept, named, now, y, o) => Between(S, n + 1, kept, named, now, y, o)
  BY <1>5, <1>6 DEF Between
<1>8. Older(x, Eldest(kept, named, x), now[x])
  <2>1. CASE x \in DOMAIN kept
    BY <2>1 DEF Saw, Between, Eldest
  <2>2. CASE x \notin DOMAIN kept /\ x \in DOMAIN named
    BY <2>2 DEF Saw, Between, Eldest
  <2> QED
    BY <1>3, <2>1, <2>2
<1>9. Between(S, n + 1, kept, named, now, x, now[x])
  BY <1>2, <1>3, <1>5, <1>6, <1>8 DEF Between
<1>10. \A y \in DOMAIN r : r[y] # {} /\ \A o \in r[y] : Between(S, n + 1, kept, named, now, y, o)
  <2>1. \A y \in DOMAIN read : read[y] # {} /\ \A o \in read[y] : Between(S, n + 1, kept, named, now, y, o)
    BY <1>7 DEF Saw
  <2> QED
    BY <1>4, <1>9, <2>1
<1>11. \A y \in Origin : /\ y \in DOMAIN kept <=> Did(S, n + 1, Do("keep", y))
                         /\ y \in DOMAIN r <=> Did(S, n + 1, Do("read", y))
                         /\ y \in DOMAIN named <=> Did(S, n + 1, Do("name", y))
  <2>1. \A y \in Origin : /\ y \in DOMAIN kept <=> Did(S, n, Do("keep", y))
                          /\ y \in DOMAIN read <=> Did(S, n, Do("read", y))
                          /\ y \in DOMAIN named <=> Did(S, n, Do("name", y))
    BY DEF Saw
  <2> QED
    BY <1>4, <1>5, <1>6, <2>1
<1>12. Did(S, n + 1, Do("registered", "raw")) =>
         \E c : Between(S, n + 1, kept, named, now, "candidate", c)
                /\ Between(S, n + 1, kept, named, now, "raw", c.raw)
  BY <1>5, <1>6, <1>7 DEF Saw
<1>13. /\ DOMAIN r \subseteq Origin /\ n + 1 \in 1..(Len(S) + 1)
       /\ DOMAIN r \subseteq DOMAIN kept \cup DOMAIN named
       /\ Did(S, n + 1, Do("registered", "raw")) => {"raw", "candidate"} \subseteq DOMAIN kept
  BY <1>1, <1>2, <1>3, <1>4, <1>5, <1>6 DEF Saw, WellOrdered
<1>14. Saw(S, n + 1, kept, r, named, now)
  BY <1>7, <1>10, <1>11, <1>12, <1>13 DEF Saw
<1> QED
  BY <1>14 DEF r

LEMMA NameSees ==
  ASSUME NEW S, NEW n, NEW kept, NEW read, NEW named, NEW now, WellOrdered(S),
         Saw(S, n, kept, read, named, now), n <= Len(S),
         \A x \in Origin : Older(x, now[x], now[x]),
         NEW x \in Origin, S[n] = Do("name", x)
  PROVE  Saw(S, n + 1, kept, read, With(named, x, now[x]), now)
<1> DEFINE m == With(named, x, now[x])
<1>1. n \in 1..Len(S) /\ n \in Nat \ {0} /\ Ordered(S, n)
  BY DEF Saw, WellOrdered
<1>2. S[n].what = "name" /\ S[n].of = x /\ x \in Origin
  BY <1>1 DEF Ordered, Do
<1>3. ~Settled(S, n, x) /\ x \notin DOMAIN named /\ (x \in DOMAIN kept \/ x \notin DOMAIN read)
  <2>1. x # "review" => Did(S, n, Do("keep", x))
    BY <1>1, <1>2 DEF Ordered
  <2>2. x = "review" => ~Did(S, n, Do("read", x))
    BY <1>1, <1>2 DEF Ordered
  <2>3. ~Settled(S, n, x) /\ ~Did(S, n, Do("name", x))
    BY <1>1, <1>2 DEF Ordered
  <2> QED
    BY <1>2, <2>1, <2>2, <2>3 DEF Saw
<1>4. /\ DOMAIN m = DOMAIN named \cup {x} /\ m[x] = now[x]
      /\ \A y \in DOMAIN named : y # x => m[y] = named[y]
  BY DEF With
<1> HIDE DEF m
<1>5. /\ \A duty : Did(S, n + 1, duty) <=> Did(S, n, duty) \/ S[n] = duty
      /\ \A y : Settled(S, n + 1, y) <=> Settled(S, n, y) \/ Settles(S, n, y)
  BY <1>1, DidOn
<1>6. \A y : /\ ~Settles(S, n, y)
             /\ S[n] # Do("keep", y) /\ S[n] # Do("read", y) /\ S[n] # Do("registered", y)
             /\ S[n] = Do("name", y) <=> y = x
  BY <1>2 DEF Settles, Do
<1>7. \A y \in DOMAIN kept \cup DOMAIN named :
        (y # x \/ y \in DOMAIN kept) => Eldest(kept, m, y) = Eldest(kept, named, y)
  BY <1>4 DEF Eldest
<1>8. ASSUME NEW y \in DOMAIN kept \cup DOMAIN named, y # x \/ y \in DOMAIN kept,
             NEW o, Between(S, n, kept, named, now, y, o)
      PROVE  Between(S, n + 1, kept, m, now, y, o)
  BY <1>5, <1>6, <1>7, <1>8 DEF Between
<1>9. Between(S, n + 1, kept, m, now, x, now[x])
  <2>1. Older(x, Eldest(kept, m, x), now[x])
    BY <1>2, <1>3, <1>4, <1>7 DEF Saw, Between, Eldest
  <2> QED
    BY <1>2, <1>3, <1>5, <1>6, <2>1 DEF Between
<1>10. \A y \in DOMAIN m : Between(S, n + 1, kept, m, now, y, m[y])
  BY <1>4, <1>8, <1>9 DEF Saw
<1>11. \A y \in Origin : /\ y \in DOMAIN kept <=> Did(S, n + 1, Do("keep", y))
                         /\ y \in DOMAIN read <=> Did(S, n + 1, Do("read", y))
                         /\ y \in DOMAIN m <=> Did(S, n + 1, Do("name", y))
  <2>1. \A y \in Origin : /\ y \in DOMAIN kept <=> Did(S, n, Do("keep", y))
                          /\ y \in DOMAIN read <=> Did(S, n, Do("read", y))
                          /\ y \in DOMAIN named <=> Did(S, n, Do("name", y))
    BY DEF Saw
  <2> QED
    BY <1>4, <1>5, <1>6, <2>1
<1>12. \A y \in DOMAIN kept : Between(S, n + 1, kept, m, now, y, kept[y][1])
  BY <1>8 DEF Saw
<1>13. \A y \in DOMAIN read :
         read[y] # {} /\ \A o \in read[y] : Between(S, n + 1, kept, m, now, y, o)
  BY <1>3, <1>8 DEF Saw
<1>14. /\ DOMAIN m \subseteq Origin /\ n + 1 \in 1..(Len(S) + 1)
       /\ DOMAIN read \subseteq DOMAIN kept \cup DOMAIN m
  BY <1>1, <1>2, <1>4 DEF Saw, WellOrdered
<1>15. Did(S, n + 1, Do("registered", "raw")) =>
         /\ {"raw", "candidate"} \subseteq DOMAIN kept
         /\ \E c : Between(S, n + 1, kept, m, now, "candidate", c)
                  /\ Between(S, n + 1, kept, m, now, "raw", c.raw)
  BY <1>5, <1>6, <1>8 DEF Saw
<1>16. Saw(S, n + 1, kept, read, m, now)
  BY <1>10, <1>11, <1>12, <1>13, <1>14, <1>15 DEF Saw
<1> QED
  BY <1>16 DEF m

\* A comparison that holds.
LEMMA CheckSees ==
  ASSUME NEW S, NEW n, NEW kept, NEW read, NEW named, NEW now, WellOrdered(S),
         Saw(S, n, kept, read, named, now), n <= Len(S),
         \A x \in Origin : Older(x, now[x], now[x]),
         \A x \in Origin : S[n] \notin {Do("keep", x), Do("read", x), Do("name", x)},
         \A x \in Origin : Settles(S, n, x) => Eldest(kept, named, x) = now[x],
         S[n].what = "registered" => now["candidate"].raw = now["raw"]
  PROVE  Saw(S, n + 1, kept, read, named, now)
<1>1. n \in 1..Len(S) /\ n \in Nat \ {0} /\ Ordered(S, n)
  BY DEF Saw, WellOrdered
<1>2. /\ \A duty : Did(S, n + 1, duty) <=> Did(S, n, duty) \/ S[n] = duty
      /\ \A y : Settled(S, n + 1, y) <=> Settled(S, n, y) \/ Settles(S, n, y)
  BY <1>1, DidOn
<1>3. \A y \in Origin : S[n] # Do("keep", y) /\ S[n] # Do("read", y) /\ S[n] # Do("name", y)
  OBVIOUS
<1>4. ASSUME NEW y \in Origin, NEW o, Between(S, n, kept, named, now, y, o)
      PROVE  Between(S, n + 1, kept, named, now, y, o)
  BY <1>2, <1>4, OlderOn DEF Between
<1>5. ASSUME S[n] = Do("registered", "raw")
      PROVE  /\ {"raw", "candidate"} \subseteq DOMAIN kept
             /\ \E c : Between(S, n + 1, kept, named, now, "candidate", c)
                      /\ Between(S, n + 1, kept, named, now, "raw", c.raw)
  <2>1. S[n].what = "registered" /\ \A y : ~Settles(S, n, y)
    BY <1>5 DEF Do, Settles
  <2>2. \A y \in {"raw", "candidate"} : ~Settled(S, n, y) /\ Did(S, n, Do("keep", y))
    BY <1>1, <2>1 DEF Ordered
  <2>3. \A y \in {"raw", "candidate"} : y \in DOMAIN kept /\ ~Settled(S, n + 1, y)
    BY <1>2, <2>1, <2>2 DEF Saw, Origin
  <2>4. \A y \in {"raw", "candidate"} : Between(S, n + 1, kept, named, now, y, now[y])
    BY <2>3 DEF Saw, Between, Eldest, Origin
  <2> QED
    BY <2>1, <2>3, <2>4
<1>6. Did(S, n + 1, Do("registered", "raw")) =>
         /\ {"raw", "candidate"} \subseteq DOMAIN kept
         /\ \E c : Between(S, n + 1, kept, named, now, "candidate", c)
                  /\ Between(S, n + 1, kept, named, now, "raw", c.raw)
  BY <1>2, <1>4, <1>5 DEF Saw, Origin
<1>7. \A y \in Origin : /\ y \in DOMAIN kept <=> Did(S, n + 1, Do("keep", y))
                        /\ y \in DOMAIN read <=> Did(S, n + 1, Do("read", y))
                        /\ y \in DOMAIN named <=> Did(S, n + 1, Do("name", y))
  BY <1>2, <1>3 DEF Saw
<1>8. n + 1 \in 1..(Len(S) + 1)
  BY <1>1 DEF WellOrdered
<1>9. /\ \A x \in DOMAIN kept : Between(S, n + 1, kept, named, now, x, kept[x][1])
      /\ \A x \in DOMAIN read :
           read[x] # {} /\ \A o \in read[x] : Between(S, n + 1, kept, named, now, x, o)
      /\ \A x \in DOMAIN named : Between(S, n + 1, kept, named, now, x, named[x])
  BY <1>4 DEF Saw
<1> QED
  BY <1>6, <1>7, <1>8, <1>9 DEF Saw

\* What is seen of the sources that are compared.
But(f) == [x \in DOMAIN f \ {"serialReview"} |-> f[x]]

\* What a build of stage s has seen of the review of the S/N when it is at step n.
Looked(s, S, n, read, named, version) ==
  LET x == "serialReview"
  IN  /\ x \in DOMAIN read <=> Did(S, n, Do("read", x))
      /\ x \in DOMAIN named <=> Did(S, n, Do("name", x))
      /\ x \in DOMAIN named => named[x] \in Nat /\ named[x] <= version
      /\ x \in DOMAIN read => \A v \in read[x] : v \in Nat /\ v <= version
      /\ s = "pilot" =>
           /\ Did(S, n, Do("approved", x)) => x \in DOMAIN named /\ named[x] = FirstReview
           /\ x \in DOMAIN read =>
                Did(S, n, Do("approved", x)) /\ \A v \in read[x] : v >= named[x]
      /\ s = "full" /\ x \in DOMAIN read /\ x \in DOMAIN named =>
           \A v \in read[x] : v <= named[x]

\* At the end of its list a build knows one content of each file it read, and it is the
\* one it names.
NamesOf(kept, read, named) ==
  [x \in DOMAIN read |-> IF x \in DOMAIN named THEN named[x] ELSE kept[x][1]]

LEMMA EndKnows ==
  ASSUME NEW S, NEW n, NEW kept, NEW read, NEW named, NEW now, WellOrdered(S),
         Saw(S, n, kept, read, named, now), n > Len(S)
  PROVE  /\ \A x \in DOMAIN read : read[x] = {NamesOf(kept, read, named)[x]}
         /\ "raw" \in DOMAIN read /\ NamesOf(kept, read, named)["raw"] \in Nat
         /\ /\ Did(S, n, Do("registered", "raw")) /\ "candidate" \in DOMAIN read
            /\ Settled(S, n, "raw") /\ Settled(S, n, "candidate")
            => NamesOf(kept, read, named)["raw"] = NamesOf(kept, read, named)["candidate"].raw
<1> DEFINE N == NamesOf(kept, read, named)
<1>1. n = Len(S) + 1
  BY DEF Saw, WellOrdered
<1>2. ASSUME NEW x \in DOMAIN read PROVE Settled(S, n, x)
  <2>1. Did(S, n, Do("read", x))
    BY DEF Saw
  <2>2. PICK j \in 1..Len(S) : S[j] = Do("read", x)
    BY <1>1, <2>1 DEF Did, WellOrdered
  <2>3. S[j].what = "read" /\ S[j].of = x /\ x \in Origin
    BY <2>2 DEF Do, Saw
  <2> QED
    BY <1>1, <2>3 DEF WellOrdered, Ordered
<1>3. \A x \in DOMAIN read : N[x] = Eldest(kept, named, x)
  BY <1>2 DEF Saw, Between, Eldest, NamesOf
<1> HIDE DEF N
<1>4. \A x \in DOMAIN read : read[x] = {N[x]}
  BY <1>2, <1>3 DEF Saw, Between
<1>5. "raw" \in DOMAIN read
  BY <1>1 DEF WellOrdered, Saw, Origin
<1>6. N["raw"] \in Nat
  <2>1. PICK o : o \in read["raw"] /\ Between(S, n, kept, named, now, "raw", o)
    BY <1>5 DEF Saw
  <2> QED
    BY <1>3, <1>5, <2>1 DEF Between, Older
<1>7. ASSUME Did(S, n, Do("registered", "raw")), "candidate" \in DOMAIN read,
             Settled(S, n, "raw"), Settled(S, n, "candidate")
      PROVE  N["raw"] = N["candidate"].raw
  BY <1>3, <1>5, <1>7 DEF Saw, Between
<1> QED
  BY <1>4, <1>5, <1>6, <1>7 DEF N

LEMMA ButFacts ==
  /\ \A f, v : But(With(f, "serialReview", v)) = But(f) /\ But(Upto(f, "serialReview", v)) = But(f)
  /\ \A f, x, v : x # "serialReview" =>
       But(With(f, x, v)) = With(But(f), x, v) /\ But(Upto(f, x, v)) = Upto(But(f), x, v)
  /\ \A f : /\ DOMAIN But(f) = DOMAIN f \ {"serialReview"}
            /\ \A y \in DOMAIN But(f) : But(f)[y] = f[y]
BY DEF But, With, Upto

\* A step that looks at the review of the S/N, or does not.
LEMMA LookSees ==
  ASSUME NEW s \in Stages, NEW S, Len(S) \in Nat, NEW n \in 1..Len(S), ReviewOrdered(s, S),
         NEW read, NEW named, NEW version \in Nat, Looked(s, S, n, read, named, version)
  PROVE  /\ S[n] = Do("read", "serialReview") =>
              Looked(s, S, n + 1, Upto(read, "serialReview", version), named, version)
         /\ S[n] = Do("name", "serialReview") =>
              Looked(s, S, n + 1, read, With(named, "serialReview", version), version)
         /\ /\ S[n] # Do("read", "serialReview") /\ S[n] # Do("name", "serialReview")
            /\ S[n] = Do("approved", "serialReview") => named["serialReview"] = FirstReview
            => Looked(s, S, n + 1, read, named, version)
<1> DEFINE x == "serialReview"
           rd == Upto(read, x, version)
           nm == With(named, x, version)
<1>1. \A duty : Did(S, n + 1, duty) <=> Did(S, n, duty) \/ S[n] = duty
  BY DidOn
<1>2. /\ x \in DOMAIN rd /\ x \in DOMAIN nm /\ nm[x] = version
      /\ rd[x] = {version} \cup IF x \in DOMAIN read THEN read[x] ELSE {}
  BY DEF Upto, With
<1> HIDE DEF rd, nm
<1>3. /\ Do("read", x) # Do("name", x) /\ Do("read", x) # Do("approved", x)
      /\ Do("name", x) # Do("approved", x)
      /\ Do("read", x).of = x /\ Do("name", x).of = x /\ Do("approved", x).of = x
  BY DEF Do
<1>4. CASE S[n] = Do("read", x)
  <2>1. Looked(s, S, n + 1, rd, named, version)
    BY <1>1, <1>2, <1>3, <1>4 DEF Looked, ReviewOrdered
  <2> QED
    BY <1>3, <1>4, <2>1 DEF rd
<1>5. CASE S[n] = Do("name", x)
  <2>1. Looked(s, S, n + 1, read, nm, version)
    BY <1>1, <1>2, <1>3, <1>5 DEF Looked, ReviewOrdered
  <2> QED
    BY <1>3, <1>5, <2>1 DEF nm
<1>6. CASE S[n] # Do("read", x) /\ S[n] # Do("name", x)
  <2>1. ASSUME S[n] = Do("approved", x) => named[x] = FirstReview
        PROVE  Looked(s, S, n + 1, read, named, version)
    BY <1>1, <1>3, <1>6, <2>1 DEF Looked, ReviewOrdered
  <2> QED
    BY <1>6, <2>1
<1> QED
  BY <1>4, <1>5, <1>6

\* Looks at other files.
LEMMA LookStays ==
  ASSUME NEW s, NEW S, NEW n, NEW read, NEW named, NEW version,
         Looked(s, S, n, read, named, version), NEW x, x # "serialReview", NEW v
  PROVE  /\ Looked(s, S, n, Upto(read, x, v), named, version)
         /\ Looked(s, S, n, read, With(named, x, v), version)
<1>1. /\ "serialReview" \in DOMAIN Upto(read, x, v) <=> "serialReview" \in DOMAIN read
      /\ "serialReview" \in DOMAIN read => Upto(read, x, v)["serialReview"] = read["serialReview"]
  BY DEF Upto, With
<1>2. /\ "serialReview" \in DOMAIN With(named, x, v) <=> "serialReview" \in DOMAIN named
      /\ "serialReview" \in DOMAIN named => With(named, x, v)["serialReview"] = named["serialReview"]
  BY DEF With
<1>3. Looked(s, S, n, Upto(read, x, v), named, version)
  BY <1>1 DEF Looked
<1>4. Looked(s, S, n, read, With(named, x, v), version)
  BY <1>2 DEF Looked
<1> QED
  BY <1>3, <1>4

-----------------------------------------------------------------------------
(* The builds. *)

NowOf(p, v) ==
  [x \in Sources |-> CASE x = "candidate" -> [id |-> p.id, raw |-> p.named["raw"]]
                     [] x = "raw" -> v.raw
                     [] x = "review" -> v.review
                     [] x = "serialReview" -> v.serialReview
                     [] OTHER -> v.working]

\* Build b of stage s, beside the database p and the reports of the stage.
Works(s, b, p, reps, last, now) ==
  /\ DOMAIN b = {"stage", "copies", "id", "step", "out", "kept", "read", "named"}
  /\ b.stage = s /\ b.copies \in BOOLEAN /\ (s # "pilot" => b.copies)
  /\ b.id \in 1..last
  /\ s = "candidate" \/ p # NoBuild => p.id < b.id
  /\ Saw(Steps(b), b.step, b.kept, But(b.read), But(b.named), now)
  /\ Looked(s, Steps(b), b.step, b.read, b.named, now["serialReview"])
  /\ b.out \in 1..Len(Outputs(b))
  /\ \A k \in 1..(b.out - 1) : Outputs(b)[k] # "database" => reps[Outputs(b)[k]] = b.id

Truth(s, p, reps) ==
  /\ \A x \in DOMAIN p.read \ {"serialReview"} : p.read[x] = {p.named[x]}
  /\ ReviewInOrder(s, p)
  /\ s = "pilot" => p.named["raw"] = p.named["candidate"].raw
  /\ \A r \in ReportsOf[s] : reps[r] # NoBuild /\ reps[r] >= p.id

SourceShape ==
  [raw : Nat, listed : Nat, review : Nat, serialReview : Nat, working : Nat, journal : BOOLEAN, edits : Nat]

BuildInv ==
  /\ source \in SourceShape
  /\ begun \in Nat
  /\ DOMAIN published = Stages /\ DOMAIN reports = Stages /\ DOMAIN builder = Stages
  /\ \A s \in Stages : DOMAIN reports[s] = ReportsOf[s]
  /\ published["candidate"].id \in 0..begun /\ published["candidate"].named["raw"] \in Nat
  /\ \A s \in Stages : published[s] # NoBuild =>
       published[s].id \in 0..begun /\ Truth(s, published[s], reports[s])
  /\ \A s \in Stages : builder[s] # NoBuild =>
       Works(s, builder[s], published[s], reports[s], begun, NowOf(published["candidate"], source))

LEMMA ListsOrdered ==
  ASSUME NEW b, b.stage \in Stages, b.copies \in BOOLEAN
  PROVE  WellOrdered(Steps(b)) /\ ReviewOrdered(b.stage, Steps(b))
BY CandidateOrder, FullOrder, PilotOrder, SelectionOrder DEF Steps, Stages

LEMMA OutputsFacts ==
  ASSUME NEW b, b.stage \in Stages, b.copies \in BOOLEAN
  PROVE  /\ Len(Outputs(b)) \in Nat \ {0}
         /\ \A k \in 1..Len(Outputs(b)) : Outputs(b)[k] # "database" => Outputs(b)[k] \in ReportsOf[b.stage]
         /\ \A k \in 1..Len(Outputs(b)) : Outputs(b)[k] = "database" =>
              /\ k = Len(Outputs(b)) /\ (b.stage = "pilot" => b.copies)
              /\ \A r \in ReportsOf[b.stage] : r # "database" /\ \E j \in 1..(k - 1) : Outputs(b)[j] = r
<1> DEFINE O == Outputs(b)
<1>1. CASE b.stage = "candidate"
  <2>1. Len(O) = 4 /\ O[1] = "package" /\ O[2] = "serials" /\ O[3] = "report" /\ O[4] = "database"
    BY <1>1 DEF Outputs, CandidateOutputs
  <2> HIDE DEF O
  <2>2. ReportsOf[b.stage] = {"package", "serials", "report"}
    BY <1>1 DEF ReportsOf
  <2>3. /\ Len(O) \in Nat \ {0}
        /\ \A k \in 1..Len(O) : O[k] # "database" => O[k] \in ReportsOf[b.stage]
        /\ \A k \in 1..Len(O) : O[k] = "database" => k = Len(O) /\
             \A r \in ReportsOf[b.stage] : r # "database" /\ \E j \in 1..(k - 1) : O[j] = r
    BY <2>1, <2>2
  <2> QED
    BY <1>1, <2>3 DEF O
<1>2. CASE b.stage = "full"
  <2>1. Len(O) = 5 /\ O[1] = "main" /\ O[2] = "mainText" /\ O[3] = "clean" /\ O[4] = "cleanText" /\ O[5] = "database"
    BY <1>2 DEF Outputs, FullOutputs
  <2> HIDE DEF O
  <2>2. ReportsOf[b.stage] = {"main", "mainText", "clean", "cleanText"}
    BY <1>2 DEF ReportsOf
  <2>3. /\ Len(O) \in Nat \ {0}
        /\ \A k \in 1..Len(O) : O[k] # "database" => O[k] \in ReportsOf[b.stage]
        /\ \A k \in 1..Len(O) : O[k] = "database" => k = Len(O) /\
             \A r \in ReportsOf[b.stage] : r # "database" /\ \E j \in 1..(k - 1) : O[j] = r
    BY <2>1, <2>2
  <2> QED
    BY <1>2, <2>3 DEF O
<1>3. CASE b.stage = "pilot" /\ b.copies
  <2>1. Len(O) = 3 /\ O[1] = "selection" /\ O[2] = "text" /\ O[3] = "database"
    BY <1>3 DEF Outputs, PilotOutputs
  <2> HIDE DEF O
  <2>2. ReportsOf[b.stage] = {"selection", "text"}
    BY <1>3 DEF ReportsOf
  <2>3. /\ Len(O) \in Nat \ {0}
        /\ \A k \in 1..Len(O) : O[k] # "database" => O[k] \in ReportsOf[b.stage]
        /\ \A k \in 1..Len(O) : O[k] = "database" => k = Len(O) /\
             \A r \in ReportsOf[b.stage] : r # "database" /\ \E j \in 1..(k - 1) : O[j] = r
    BY <2>1, <2>2
  <2> QED
    BY <1>3, <2>3 DEF O
<1>4. CASE b.stage = "pilot" /\ ~b.copies
  <2>1. Len(O) = 2 /\ O[1] = "selection" /\ O[2] = "text"
    BY <1>4 DEF Outputs, PilotOutputs
  <2> HIDE DEF O
  <2>2. ReportsOf[b.stage] = {"selection", "text"}
    BY <1>4 DEF ReportsOf
  <2>3. /\ Len(O) \in Nat \ {0}
        /\ \A k \in 1..Len(O) : O[k] \in ReportsOf[b.stage] /\ O[k] # "database"
    BY <2>1, <2>2
  <2> QED
    BY <2>3 DEF O
<1> QED
  BY <1>1, <1>2, <1>3, <1>4 DEF Stages

\* A build looks, compares, is refused or dies; nothing else changes.
LEMMA OneBuilder ==
  ASSUME BuildInv, UNCHANGED <<source, published, reports, begun>>, NEW s \in Stages, NEW b,
         builder' = [builder EXCEPT ![s] = b],
         b # NoBuild => Works(s, b, published[s], reports[s], begun, NowOf(published["candidate"], source))
  PROVE  BuildInv'
<1> DEFINE now == NowOf(published["candidate"], source)
<1>1. now' = now
  BY DEF NowOf
<1> HIDE DEF now
<1>2. ASSUME NEW t \in Stages, builder'[t] # NoBuild
      PROVE  Works(t, builder'[t], published[t], reports[t], begun, now)
  BY <1>2 DEF BuildInv, now
<1>3. DOMAIN builder' = Stages
  BY DEF BuildInv
<1>4. \A t \in Stages : builder'[t] # NoBuild =>
        Works(t, builder'[t], published'[t], reports'[t], begun', now')
  BY <1>1, <1>2
<1> QED
  BY <1>3, <1>4 DEF BuildInv, now

\* The contents at hand.
LEMMA NowFacts ==
  ASSUME BuildInv
  PROVE  LET now == NowOf(published["candidate"], source)
         IN  /\ \A x \in Sources : Older(x, now[x], now[x]) /\ now[x] = Content(x) /\ State(x)[1] = now[x]
             /\ now["candidate"].raw = published["candidate"].named["raw"] /\ now["raw"] = source.raw
BY DEF BuildInv, NowOf, Sources, Origin, Older, Content, State, SourceShape

\* The reference review is named and not kept.
LEMMA NeverKept ==
  ASSUME NEW S, NEW n, NEW kept, NEW read, NEW named, NEW now, WellOrdered(S),
         Saw(S, n, kept, read, named, now)
  PROVE  "review" \notin DOMAIN kept
<1>1. ASSUME Did(S, n, Do("keep", "review")) PROVE FALSE
  <2>1. PICK j \in 1..(n - 1) : S[j] = Do("keep", "review")
    BY <1>1 DEF Did
  <2>2. j \in 1..Len(S) /\ S[j].what = "keep" /\ S[j].of = "review"
    BY <2>1 DEF Saw, WellOrdered, Do
  <2> QED
    BY <2>2 DEF WellOrdered, Ordered
<1> QED
  BY <1>1 DEF Saw, Origin

LEMMA WorksOn ==
  ASSUME NEW s, NEW b, NEW e, NEW p, NEW reps, NEW last, NEW now, Works(s, b, p, reps, last, now),
         DOMAIN e = DOMAIN b, e.stage = b.stage, e.copies = b.copies, e.id = b.id, e.out = b.out,
         Saw(Steps(b), e.step, e.kept, But(e.read), But(e.named), now),
         Looked(s, Steps(b), e.step, e.read, e.named, now["serialReview"])
  PROVE  Works(s, e, p, reps, last, now)
<1>1. Steps(e) = Steps(b) /\ Outputs(e) = Outputs(b)
  BY DEF Steps, Outputs
<1> QED
  BY <1>1 DEF Works

\* Each step of a list that is taken.
LEMMA ListSteps ==
  ASSUME BuildInv, NEW s \in Stages, Keep(s) \/ Read(s) \/ Name(s) \/ Checked(s)
  PROVE  BuildInv'
<1> DEFINE b == builder[s]
           S == Steps(b)
           now == NowOf(published["candidate"], source)
           k == Keep(s)
<1>1. b # NoBuild /\ b.step <= Len(S)
  BY DEF Keep, Read, Name, Checked, Holds, At
<1>2. Works(s, b, published[s], reports[s], begun, now)
  BY <1>1 DEF BuildInv
<1>3. WellOrdered(S) /\ ReviewOrdered(s, S) /\ Len(S) \in Nat
  BY <1>2, ListsOrdered DEF Works, WellOrdered
<1>4. /\ Saw(S, b.step, b.kept, But(b.read), But(b.named), now)
      /\ Looked(s, S, b.step, b.read, b.named, now["serialReview"])
  BY <1>2 DEF Works
<1>5. b.step \in 1..Len(S) /\ Ordered(S, b.step) /\ S[b.step].of \in Sources
      /\ S[b.step] = Do(S[b.step].what, Of(s))
      /\ (Of(s) = "serialReview" => S[b.step].what \in {"read", "name", "approved"})
      /\ (Of(s) # "serialReview" => Of(s) \in Origin)
  BY <1>1, <1>3, <1>4 DEF Saw, WellOrdered, Ordered, Of, Sources, Origin
<1>6. /\ \A x \in Sources : Older(x, now[x], now[x]) /\ now[x] = Content(x) /\ State(x)[1] = now[x]
      /\ now["candidate"].raw = published["candidate"].named["raw"] /\ now["raw"] = source.raw
      /\ now["serialReview"] \in Nat /\ Origin \subseteq Sources /\ "serialReview" \in Sources
      /\ "serialReview" \notin Origin
  BY NowFacts DEF Older, Sources, Origin
<1> HIDE DEF now, S
<1>7. b.step \in Nat /\ DOMAIN b = {"stage", "copies", "id", "step", "out", "kept", "read", "named"}
  BY <1>2, <1>4 DEF Works, Saw
<1>8. CASE Keep(s)
  <2> DEFINE kept == With(b.kept, Of(s), State(Of(s)))
             e == [b EXCEPT !.kept = kept, !.step = @ + 1]
  <2>1. S[b.step] = Do("keep", Of(s))
    BY <1>5, <1>8 DEF Keep, At, S
  <2>2. Saw(S, b.step + 1, kept, But(b.read), But(b.named), now)
    <3>1. Of(s) \in Origin
      BY <1>5, <2>1 DEF Do
    <3> QED
      BY <1>1, <1>3, <1>4, <1>5, <1>6, <2>1, <3>1, KeepSees
  <2>9. Looked(s, S, b.step + 1, b.read, b.named, now["serialReview"])
    <3>1. /\ S[b.step] # Do("read", "serialReview") /\ S[b.step] # Do("name", "serialReview")
          /\ S[b.step] # Do("approved", "serialReview")
      BY <2>1 DEF Do
    <3> QED
      BY <1>3, <1>4, <1>5, <1>6, <3>1, LookSees
  <2>3. builder' = [builder EXCEPT ![s] = e] /\ UNCHANGED <<source, published, reports, begun>>
    BY <1>7, <1>8 DEF Keep, Passed
  <2> HIDE DEF kept
  <2>4. /\ DOMAIN e = DOMAIN b /\ e.stage = b.stage /\ e.copies = b.copies /\ e.id = b.id /\ e.out = b.out
        /\ e.step = b.step + 1 /\ e.kept = kept /\ e.read = b.read /\ e.named = b.named
    BY <1>7
  <2> HIDE DEF e
  <2>5. Works(s, e, published[s], reports[s], begun, now)
    BY <1>2, <2>2, <2>4, <2>9, WorksOn DEF S
  <2> QED
    BY <2>3, <2>5, OneBuilder DEF now
<1>9. CASE Read(s)
  <2> DEFINE read == Upto(b.read, Of(s), Content(Of(s)))
             e == [b EXCEPT !.read = read, !.step = @ + 1]
  <2>1. S[b.step] = Do("read", Of(s))
    BY <1>5, <1>9 DEF Read, At, S
  <2>2. Of(s) \in Sources /\ Content(Of(s)) = now[Of(s)]
    BY <1>5, <1>6, <2>1 DEF Do
  <2>3. /\ Saw(S, b.step + 1, b.kept, But(read), But(b.named), now)
        /\ Looked(s, S, b.step + 1, read, b.named, now["serialReview"])
    <3>1. CASE Of(s) = "serialReview"
      <4>1. But(read) = But(b.read) /\ read = Upto(b.read, "serialReview", now["serialReview"])
        BY <2>2, <3>1, ButFacts
      <4>2. /\ \A x \in Origin : S[b.step] \notin {Do("keep", x), Do("read", x), Do("name", x)}
            /\ \A x \in Origin : ~Settles(S, b.step, x)
            /\ S[b.step].what # "registered"
        BY <1>6, <2>1, <3>1 DEF Do, Settles
      <4> HIDE DEF read
      <4>3. Saw(S, b.step + 1, b.kept, But(b.read), But(b.named), now)
        BY <1>1, <1>3, <1>4, <1>6, <4>2, CheckSees
      <4>4. Looked(s, S, b.step + 1, read, b.named, now["serialReview"])
        BY <1>3, <1>4, <1>5, <1>6, <2>1, <3>1, <4>1, LookSees
      <4> QED
        BY <4>1, <4>3, <4>4
    <3>2. CASE Of(s) # "serialReview"
      <4>1. But(read) = Upto(But(b.read), Of(s), now[Of(s)]) /\ Of(s) \in Origin
        BY <1>5, <2>2, <3>2, ButFacts
      <4>2. /\ S[b.step] # Do("read", "serialReview") /\ S[b.step] # Do("name", "serialReview")
            /\ S[b.step] # Do("approved", "serialReview")
        BY <2>1, <3>2 DEF Do
      <4>3. Looked(s, S, b.step + 1, b.read, b.named, now["serialReview"])
        BY <1>3, <1>4, <1>5, <1>6, <4>2, LookSees
      <4>4. Looked(s, S, b.step + 1, read, b.named, now["serialReview"])
        BY <3>2, <4>3, LookStays
      <4> HIDE DEF read
      <4>5. Saw(S, b.step + 1, b.kept, Upto(But(b.read), Of(s), now[Of(s)]), But(b.named), now)
        BY <1>1, <1>3, <1>4, <1>6, <2>1, <4>1, ReadSees
      <4> QED
        BY <4>1, <4>4, <4>5
    <3> QED
      BY <3>1, <3>2
  <2>4. builder' = [builder EXCEPT ![s] = e] /\ UNCHANGED <<source, published, reports, begun>>
    BY <1>7, <1>9 DEF Read, Passed
  <2> HIDE DEF read
  <2>5. /\ DOMAIN e = DOMAIN b /\ e.stage = b.stage /\ e.copies = b.copies /\ e.id = b.id /\ e.out = b.out
        /\ e.step = b.step + 1 /\ e.kept = b.kept /\ e.read = read /\ e.named = b.named
    BY <1>7
  <2> HIDE DEF e
  <2>6. Works(s, e, published[s], reports[s], begun, now)
    BY <1>2, <2>3, <2>5, WorksOn DEF S
  <2> QED
    BY <2>4, <2>6, OneBuilder DEF now
<1>10. CASE Name(s)
  <2> DEFINE named == With(b.named, Of(s), Content(Of(s)))
             e == [b EXCEPT !.named = named, !.step = @ + 1]
  <2>1. S[b.step] = Do("name", Of(s))
    BY <1>5, <1>10 DEF Name, At, S
  <2>2. Of(s) \in Sources /\ Content(Of(s)) = now[Of(s)]
    BY <1>5, <1>6, <2>1 DEF Do
  <2>3. /\ Saw(S, b.step + 1, b.kept, But(b.read), But(named), now)
        /\ Looked(s, S, b.step + 1, b.read, named, now["serialReview"])
    <3>1. CASE Of(s) = "serialReview"
      <4>1. But(named) = But(b.named) /\ named = With(b.named, "serialReview", now["serialReview"])
        BY <2>2, <3>1, ButFacts
      <4>2. /\ \A x \in Origin : S[b.step] \notin {Do("keep", x), Do("read", x), Do("name", x)}
            /\ \A x \in Origin : ~Settles(S, b.step, x)
            /\ S[b.step].what # "registered"
        BY <1>6, <2>1, <3>1 DEF Do, Settles
      <4> HIDE DEF named
      <4>3. Saw(S, b.step + 1, b.kept, But(b.read), But(b.named), now)
        BY <1>1, <1>3, <1>4, <1>6, <4>2, CheckSees
      <4>4. Looked(s, S, b.step + 1, b.read, named, now["serialReview"])
        BY <1>3, <1>4, <1>5, <1>6, <2>1, <3>1, <4>1, LookSees
      <4> QED
        BY <4>1, <4>3, <4>4
    <3>2. CASE Of(s) # "serialReview"
      <4>1. But(named) = With(But(b.named), Of(s), now[Of(s)]) /\ Of(s) \in Origin
        BY <1>5, <2>2, <3>2, ButFacts
      <4>2. /\ S[b.step] # Do("read", "serialReview") /\ S[b.step] # Do("name", "serialReview")
            /\ S[b.step] # Do("approved", "serialReview")
        BY <2>1, <3>2 DEF Do
      <4>3. Looked(s, S, b.step + 1, b.read, b.named, now["serialReview"])
        BY <1>3, <1>4, <1>5, <1>6, <4>2, LookSees
      <4>4. Looked(s, S, b.step + 1, b.read, named, now["serialReview"])
        BY <3>2, <4>3, LookStays
      <4> HIDE DEF named
      <4>5. Saw(S, b.step + 1, b.kept, But(b.read), With(But(b.named), Of(s), now[Of(s)]), now)
        BY <1>1, <1>3, <1>4, <1>6, <2>1, <4>1, NameSees
      <4> QED
        BY <4>1, <4>4, <4>5
    <3> QED
      BY <3>1, <3>2
  <2>4. builder' = [builder EXCEPT ![s] = e] /\ UNCHANGED <<source, published, reports, begun>>
    BY <1>7, <1>10 DEF Name, Passed
  <2> HIDE DEF named
  <2>5. /\ DOMAIN e = DOMAIN b /\ e.stage = b.stage /\ e.copies = b.copies /\ e.id = b.id /\ e.out = b.out
        /\ e.step = b.step + 1 /\ e.kept = b.kept /\ e.read = b.read /\ e.named = named
    BY <1>7
  <2> HIDE DEF e
  <2>6. Works(s, e, published[s], reports[s], begun, now)
    BY <1>2, <2>3, <2>5, WorksOn DEF S
  <2> QED
    BY <2>4, <2>6, OneBuilder DEF now
<1>11. CASE Checked(s)
  <2> DEFINE e == [b EXCEPT !.step = @ + 1]
  <2>1. S[b.step].what \in {"listed", "quiet", "match", "approved", "registered", "same"} /\ Holds(s)
    BY <1>11 DEF Checked, Holds, At, S
  <2>2. ASSUME NEW x \in Origin, Settles(S, b.step, x)
        PROVE  Eldest(b.kept, But(b.named), x) = now[x]
    <3>1. x = Of(s)
      BY <1>5, <2>2 DEF Settles, Do
    <3>2. CASE S[b.step] = Do("same", x)
      <4>1. x \in DOMAIN b.kept
        BY <1>4, <1>5, <3>2 DEF Saw, Ordered, Do
      <4>2. b.kept[x] = State(x)
        BY <2>1, <3>1, <3>2 DEF Holds, At, Same, Do, S
      <4> QED
        BY <1>6, <4>1, <4>2 DEF Eldest
    <3>3. CASE x = "review" /\ S[b.step] = Do("match", x)
      <4>1. x \in DOMAIN But(b.named)
        BY <1>4, <1>5, <3>3 DEF Saw, Ordered, Do
      <4>2. But(b.named)[x] = Content(x)
        BY <2>1, <3>1, <3>3, <4>1, ButFacts DEF Holds, At, Matches, Do, S
      <4>3. x \notin DOMAIN b.kept
        BY <3>3, <1>3, <1>4, <1>5, NeverKept
      <4> QED
        BY <1>6, <4>1, <4>2, <4>3 DEF Eldest
    <3> QED
      BY <2>2, <3>2, <3>3 DEF Settles
  <2>3. S[b.step].what = "registered" => now["candidate"].raw = now["raw"]
    BY <1>6, <2>1 DEF Holds, At, Registered, S
  <2>4. /\ Saw(S, b.step + 1, b.kept, But(b.read), But(b.named), now)
        /\ Looked(s, S, b.step + 1, b.read, b.named, now["serialReview"])
    <3>1. /\ \A x \in Origin : S[b.step] \notin {Do("keep", x), Do("read", x), Do("name", x)}
          /\ S[b.step] # Do("read", "serialReview") /\ S[b.step] # Do("name", "serialReview")
      BY <2>1 DEF Do
    <3>2. S[b.step] = Do("approved", "serialReview") => b.named["serialReview"] = FirstReview
      BY <1>5, <2>1 DEF Holds, At, IsApproved, Do, S
    <3>3. Saw(S, b.step + 1, b.kept, But(b.read), But(b.named), now)
      BY <1>1, <1>3, <1>4, <1>6, <2>2, <2>3, <3>1, CheckSees
    <3>4. Looked(s, S, b.step + 1, b.read, b.named, now["serialReview"])
      BY <1>3, <1>4, <1>5, <1>6, <3>1, <3>2, LookSees
    <3> QED
      BY <3>3, <3>4
  <2>5. builder' = [builder EXCEPT ![s] = e] /\ UNCHANGED <<source, published, reports, begun>>
    BY <1>7, <1>11 DEF Checked, Passed
  <2>6. /\ DOMAIN e = DOMAIN b /\ e.stage = b.stage /\ e.copies = b.copies /\ e.id = b.id /\ e.out = b.out
        /\ e.step = b.step + 1 /\ e.kept = b.kept /\ e.read = b.read /\ e.named = b.named
    BY <1>7
  <2> HIDE DEF e
  <2>7. Works(s, e, published[s], reports[s], begun, now)
    BY <1>2, <2>4, <2>6, WorksOn DEF S
  <2> QED
    BY <2>5, <2>7, OneBuilder DEF now
<1> QED
  BY <1>8, <1>9, <1>10, <1>11

LEMMA BeginKeeps ==
  ASSUME BuildInv, NEW s \in Stages, Begin(s)
  PROVE  BuildInv'
<1> DEFINE now == NowOf(published["candidate"], source)
<1>1. PICK copies \in BOOLEAN :
        /\ s # "pilot" => copies
        /\ builder' = [builder EXCEPT ![s] =
             [stage |-> s, copies |-> copies, id |-> begun + 1, step |-> 1, out |-> 1,
              kept |-> Nothing, read |-> Nothing, named |-> Nothing]]
        /\ begun' = begun + 1 /\ UNCHANGED <<source, published, reports>>
  BY DEF Begin
<1>2. PICK b : b = [stage |-> s, copies |-> copies, id |-> begun + 1, step |-> 1, out |-> 1,
                    kept |-> Nothing, read |-> Nothing, named |-> Nothing]
  OBVIOUS
<1>3. /\ DOMAIN b = {"stage", "copies", "id", "step", "out", "kept", "read", "named"}
      /\ b.stage = s /\ b.copies \in BOOLEAN /\ (s # "pilot" => b.copies)
      /\ b.id = begun + 1 /\ b.step = 1 /\ b.out = 1
      /\ b.kept = Nothing /\ b.read = Nothing /\ b.named = Nothing
  BY <1>1, <1>2
<1>4. WellOrdered(Steps(b)) /\ 1 \in 1..Len(Outputs(b))
  BY <1>3, ListsOrdered, OutputsFacts
<1>5. /\ Saw(Steps(b), 1, Nothing, But(Nothing), But(Nothing), now)
      /\ Looked(s, Steps(b), 1, Nothing, Nothing, now["serialReview"])
  <2>1. \A duty : ~Did(Steps(b), 1, duty)
    BY DEF Did
  <2>2. DOMAIN Nothing = {} /\ DOMAIN But(Nothing) = {}
    BY DEF Nothing, But
  <2>3. 1 \in 1..(Len(Steps(b)) + 1)
    BY <1>4 DEF WellOrdered
  <2> QED
    BY <2>1, <2>2, <2>3 DEF Saw, Looked
<1>6. Works(s, b, published[s], reports[s], begun + 1, now)
  BY <1>3, <1>4, <1>5 DEF Works, BuildInv
<1>7. \A t \in Stages : builder[t] # NoBuild =>
        Works(t, builder[t], published[t], reports[t], begun + 1, now)
  BY DEF BuildInv, Works
<1>8. now' = now
  BY <1>1 DEF NowOf
<1> HIDE DEF now
<1>9. \A t \in Stages : builder'[t] # NoBuild =>
        Works(t, builder'[t], published'[t], reports'[t], begun', now')
  BY <1>1, <1>2, <1>6, <1>7, <1>8 DEF BuildInv
<1> QED
  BY <1>1, <1>9 DEF BuildInv, now

\* The sources change.
LEMMA WorksLater ==
  ASSUME NEW s, NEW b, NEW p, NEW reps, NEW last, NEW now, NEW then, Works(s, b, p, reps, last, now),
         \A x \in Sources : Older(x, now[x], then[x])
  PROVE  Works(s, b, p, reps, last, then)
<1>1. Saw(Steps(b), b.step, b.kept, But(b.read), But(b.named), then)
  BY SeenLater DEF Works, Sources
<1>2. /\ now["serialReview"] \in Nat /\ then["serialReview"] \in Nat
      /\ now["serialReview"] <= then["serialReview"]
  BY DEF Older, Sources
<1>3. Looked(s, Steps(b), b.step, b.read, b.named, then["serialReview"])
  BY <1>2 DEF Works, Looked
<1> QED
  BY <1>1, <1>3 DEF Works

Edited(v, w) ==
  /\ w \in SourceShape
  /\ w.raw \in {v.raw, v.raw + 1} /\ w.review \in {v.review, v.review + 1}
  /\ w.working \in {v.working, v.working + 1}
  /\ w.serialReview \in {v.serialReview, v.serialReview + 1}

LEMMA EditKeeps ==
  ASSUME BuildInv, EditRaw \/ EditReview \/ EditSerialReview \/ ServerBegins \/ ServerEnds
  PROVE  BuildInv'
<1> DEFINE now == NowOf(published["candidate"], source)
<1>1. /\ UNCHANGED <<published, reports, builder, begun>>
      /\ source' \in SourceShape
      /\ source'.raw \in {source.raw, source.raw + 1}
      /\ source'.review \in {source.review, source.review + 1}
      /\ source'.working \in {source.working, source.working + 1}
      /\ source'.serialReview \in {source.serialReview, source.serialReview + 1}
  <2>1. source \in SourceShape
    BY DEF BuildInv
  <2>2. ASSUME NEW w, Edited(source, w), Edit(w)
        PROVE  Edited(source, source') /\ UNCHANGED <<published, reports, builder, begun>>
    <3>1. source' = [w EXCEPT !.edits = @ + 1] /\ UNCHANGED <<published, reports, builder, begun>>
      BY <2>2 DEF Edit
    <3> QED
      BY <2>2, <3>1 DEF Edited, SourceShape
  <2>3. ASSUME NEW l \in Nat
        PROVE  Edited(source, [source EXCEPT !.raw = @ + 1, !.listed = l])
    <3>1. PICK w : w = [source EXCEPT !.raw = @ + 1]
      OBVIOUS
    <3>2. w \in SourceShape /\ Edited(source, w)
      BY <2>1, <3>1 DEF Edited, SourceShape
    <3>3. Edited(source, [w EXCEPT !.listed = l])
      BY <3>2 DEF Edited, SourceShape
    <3> QED
      BY <3>1, <3>3
  <2>4. CASE EditRaw
    <3>1. PICK l \in {source.listed, source.raw + 1} :
            Edit([source EXCEPT !.raw = @ + 1, !.listed = l])
      BY <2>4 DEF EditRaw
    <3>2. l \in Nat
      BY <2>1 DEF SourceShape
    <3> QED
      BY <2>2, <2>3, <3>1, <3>2 DEF Edited
  <2>5. CASE EditReview
    <3>1. Edited(source, [source EXCEPT !.review = @ + 1])
      BY <2>1 DEF Edited, SourceShape
    <3> QED
      BY <2>2, <2>5, <3>1 DEF EditReview, Edited
  <2>8. CASE EditSerialReview
    <3>1. Edited(source, [source EXCEPT !.serialReview = @ + 1])
      BY <2>1 DEF Edited, SourceShape
    <3> QED
      BY <2>2, <2>8, <3>1 DEF EditSerialReview, Edited
  <2>6. CASE ServerBegins
    <3>1. Edited(source, [source EXCEPT !.journal = TRUE])
      BY <2>1 DEF Edited, SourceShape
    <3> QED
      BY <2>2, <2>6, <3>1 DEF ServerBegins, Edited
  <2>7. CASE ServerEnds
    <3>1. /\ source' = [source EXCEPT !.working = @ + 1, !.journal = FALSE]
          /\ UNCHANGED <<published, reports, builder, begun>>
      BY <2>7 DEF ServerEnds
    <3>2. PICK w : w = [source EXCEPT !.working = @ + 1]
      OBVIOUS
    <3>3. w \in SourceShape /\ Edited(source, w)
      BY <2>1, <3>2 DEF Edited, SourceShape
    <3>4. source' = [w EXCEPT !.journal = FALSE]
      BY <3>1, <3>2
    <3>5. Edited(source, source')
      BY <3>3, <3>4 DEF Edited, SourceShape
    <3> QED
      BY <3>1, <3>5 DEF Edited
  <2> QED
    BY <2>4, <2>5, <2>6, <2>7, <2>8
<1>2. \A x \in Sources : Older(x, now[x], now'[x])
  BY <1>1 DEF BuildInv, NowOf, Older, Sources, Origin, SourceShape
<1>3. \A t \in Stages : builder[t] # NoBuild =>
        Works(t, builder[t], published[t], reports[t], begun, now')
  BY <1>2, WorksLater DEF BuildInv
<1> HIDE DEF now
<1> QED
  BY <1>1, <1>3 DEF BuildInv, now

\* One stage has another database or another report, and its build goes on or is over.
LEMMA OneStage ==
  ASSUME BuildInv, UNCHANGED <<source, begun>>, NEW s \in Stages, NEW b, NEW p, NEW r,
         DOMAIN builder' = Stages, DOMAIN published' = Stages, DOMAIN reports' = Stages,
         \A t \in Stages : /\ builder'[t] = IF t = s THEN b ELSE builder[t]
                           /\ published'[t] = IF t = s THEN p ELSE published[t]
                           /\ reports'[t] = IF t = s THEN r ELSE reports[t],
         p # NoBuild => p.id \in 0..begun /\ Truth(s, p, r),
         DOMAIN r = ReportsOf[s],
         s = "candidate" =>
           /\ p.id \in 0..begun /\ p.named["raw"] \in Nat
           /\ p = published[s] \/ published[s].id < p.id,
         b # NoBuild => Works(s, b, p, r, begun, NowOf(published["candidate"], source))
  PROVE  BuildInv'
<1> DEFINE now == NowOf(published["candidate"], source)
<1>1. \A x \in Sources : Older(x, now[x], now'[x])
  BY DEF BuildInv, NowOf, Older, Sources, Origin, Stages, SourceShape
<1>2. ASSUME NEW t \in Stages, builder'[t] # NoBuild
      PROVE  Works(t, builder'[t], published'[t], reports'[t], begun, now)
  BY <1>2 DEF BuildInv
<1> HIDE DEF now
<1>3. \A t \in Stages : builder'[t] # NoBuild =>
        Works(t, builder'[t], published'[t], reports'[t], begun', now')
  BY <1>1, <1>2, WorksLater
<1>4. published'["candidate"].id \in 0..begun' /\ published'["candidate"].named["raw"] \in Nat
  BY DEF BuildInv, Stages
<1>5. \A t \in Stages : published'[t] # NoBuild =>
        published'[t].id \in 0..begun' /\ Truth(t, published'[t], reports'[t])
  BY DEF BuildInv
<1>6. \A t \in Stages : DOMAIN reports'[t] = ReportsOf[t]
  BY DEF BuildInv
<1>7. source' \in SourceShape
      /\ begun' \in Nat
  BY DEF BuildInv
<1> QED
  BY <1>3, <1>4, <1>5, <1>6, <1>7 DEF BuildInv, now

LEMMA PublishKeeps ==
  ASSUME BuildInv, NEW s \in Stages, Publish(s)
  PROVE  BuildInv'
<1> DEFINE now == NowOf(published["candidate"], source)
<1>1. PICK b, file, e :
        /\ b = builder[s] /\ file = Outputs(b)[b.out]
        /\ e = IF b.out = Len(Outputs(b)) THEN NoBuild ELSE [b EXCEPT !.out = @ + 1]
  OBVIOUS
<1>2. /\ b # NoBuild /\ b.step > Len(Steps(b))
      /\ builder' = [builder EXCEPT ![s] = e] /\ UNCHANGED <<source, begun>>
      /\ file = "database" =>
           /\ published' = [published EXCEPT ![s] = [id |-> b.id, read |-> b.read, named |-> Names(b)]]
           /\ UNCHANGED reports
      /\ file # "database" =>
           reports' = [reports EXCEPT ![s][file] = b.id] /\ UNCHANGED published
  BY <1>1 DEF Publish
<1>3. Works(s, b, published[s], reports[s], begun, now)
  BY <1>1, <1>2 DEF BuildInv
<1>4. /\ b.id \in Nat /\ b.id \in 1..begun /\ b.stage = s /\ b.out \in 1..Len(Outputs(b))
      /\ Len(Outputs(b)) \in Nat /\ b.copies \in BOOLEAN
  BY <1>3, OutputsFacts DEF Works, BuildInv
<1>5. /\ \A k \in 1..Len(Outputs(b)) : Outputs(b)[k] # "database" => Outputs(b)[k] \in ReportsOf[s]
      /\ file = "database" =>
           /\ b.out = Len(Outputs(b)) /\ (s = "pilot" => b.copies)
           /\ \A r \in ReportsOf[s] : r # "database" /\ \E j \in 1..(b.out - 1) : Outputs(b)[j] = r
  BY <1>1, <1>4, OutputsFacts
<1> HIDE DEF now
<1>6. ASSUME NEW p, p = published[s] \/ p.id = b.id, NEW r,
             \A k \in 1..b.out : Outputs(b)[k] # "database" => r[Outputs(b)[k]] = b.id,
             e # NoBuild, p = published[s] \/ b.out = Len(Outputs(b))
      PROVE  Works(s, e, p, r, begun, now)
  <2>1. e = [b EXCEPT !.out = @ + 1] /\ b.out # Len(Outputs(b))
    BY <1>1, <1>6
  <2>2. /\ DOMAIN e = DOMAIN b /\ e.stage = b.stage /\ e.copies = b.copies /\ e.id = b.id
        /\ e.out = b.out + 1 /\ e.step = b.step
        /\ e.kept = b.kept /\ e.read = b.read /\ e.named = b.named
    BY <1>3, <2>1 DEF Works
  <2>3. Steps(e) = Steps(b) /\ Outputs(e) = Outputs(b)
    BY <2>2 DEF Steps, Outputs
  <2>4. e.out \in 1..Len(Outputs(e)) /\ \A k \in 1..(e.out - 1) : k \in 1..b.out
    BY <1>4, <2>1, <2>2, <2>3
  <2> QED
    BY <1>3, <1>6, <2>1, <2>2, <2>3, <2>4 DEF Works
<1>7. CASE file # "database"
  <2>1. file \in ReportsOf[s]
    BY <1>1, <1>4, <1>7, <1>5
  <2>2. PICK r : r = [reports[s] EXCEPT ![file] = b.id]
    OBVIOUS
  <2>3. r[file] = b.id /\ \A x \in ReportsOf[s] : x # file => r[x] = reports[s][x]
    BY <2>1, <2>2 DEF BuildInv
  <2>4. /\ DOMAIN r = ReportsOf[s] /\ DOMAIN builder' = Stages
        /\ DOMAIN published' = Stages /\ DOMAIN reports' = Stages
        /\ \A t \in Stages : /\ builder'[t] = IF t = s THEN e ELSE builder[t]
                             /\ published'[t] = IF t = s THEN published[s] ELSE published[t]
                             /\ reports'[t] = IF t = s THEN r ELSE reports[t]
    BY <1>2, <1>7, <2>2 DEF BuildInv
  <2>5. b.id # NoBuild
    BY <1>4, Bounded DEF Bounded
  <2>6. ASSUME published[s] # NoBuild PROVE Truth(s, published[s], r)
    <3>1. /\ published[s].id \in Nat /\ published[s].id < b.id
          /\ Truth(s, published[s], reports[s])
      BY <1>3, <2>6 DEF Works, BuildInv
    <3>2. \A x \in ReportsOf[s] : r[x] # NoBuild /\ r[x] >= published[s].id
      BY <1>4, <2>3, <2>5, <3>1 DEF Truth
    <3> QED
      BY <3>1, <3>2 DEF Truth
  <2>7. \A k \in 1..b.out : Outputs(b)[k] # "database" => r[Outputs(b)[k]] = b.id
    BY <1>1, <1>3, <1>4, <1>5, <2>3 DEF Works
  <2>8. e # NoBuild => Works(s, e, published[s], r, begun, now)
    BY <1>6, <2>7
  <2> QED
    <3>1. UNCHANGED <<source, begun>>
      BY <1>2
    <3>2. published[s] # NoBuild => published[s].id \in 0..begun /\ Truth(s, published[s], r)
      BY <2>6 DEF BuildInv
    <3>3. s = "candidate" => published[s].id \in 0..begun /\ published[s].named["raw"] \in Nat
      BY DEF BuildInv
    <3> QED
      BY ONLY BuildInv, s \in Stages, <2>4, <2>8, <3>1, <3>2, <3>3, OneStage DEF now
<1>8. CASE file = "database"
  <2>1. PICK p : p = [id |-> b.id, read |-> b.read, named |-> Names(b)]
    OBVIOUS
  <2>2. p.id = b.id /\ p.read = b.read /\ p.named = NamesOf(b.kept, b.read, b.named)
    BY <2>1 DEF Names, NamesOf
  <2>3. /\ DOMAIN builder' = Stages /\ DOMAIN published' = Stages /\ DOMAIN reports' = Stages
        /\ \A t \in Stages : /\ builder'[t] = IF t = s THEN e ELSE builder[t]
                             /\ published'[t] = IF t = s THEN p ELSE published[t]
                             /\ reports'[t] = IF t = s THEN reports[s] ELSE reports[t]
    BY <1>2, <1>8, <2>1 DEF BuildInv
  <2>4. /\ s = "pilot" => b.copies
        /\ \A r \in ReportsOf[s] : r # "database" /\ \E j \in 1..(b.out - 1) : Outputs(b)[j] = r
    BY <1>8, <1>5
  <2>5. \A r \in ReportsOf[s] : reports[s][r] = b.id
    BY <1>3, <2>4 DEF Works
  <2>6. b.id # NoBuild
    BY <1>4, Bounded DEF Bounded
  <2>7. /\ WellOrdered(Steps(b)) /\ ReviewOrdered(s, Steps(b))
        /\ Saw(Steps(b), b.step, b.kept, But(b.read), But(b.named), now)
        /\ Looked(s, Steps(b), b.step, b.read, b.named, now["serialReview"])
    BY <1>3, <1>4, ListsOrdered DEF Works
  <2>13. /\ DOMAIN But(b.read) = DOMAIN p.read \ {"serialReview"}
         /\ \A x \in DOMAIN But(b.read) :
              /\ But(b.read)[x] = p.read[x]
              /\ NamesOf(b.kept, But(b.read), But(b.named))[x] = p.named[x]
    <3>1. \A x : x # "serialReview" => (x \in DOMAIN b.named <=> x \in DOMAIN But(b.named))
      BY ButFacts
    <3>2. /\ DOMAIN But(b.read) = DOMAIN b.read \ {"serialReview"}
          /\ \A x \in DOMAIN But(b.read) : But(b.read)[x] = b.read[x]
          /\ \A x \in DOMAIN But(b.named) : But(b.named)[x] = b.named[x]
      BY ButFacts
    <3>3. \A x \in DOMAIN But(b.read) :
            NamesOf(b.kept, But(b.read), But(b.named))[x] = NamesOf(b.kept, b.read, b.named)[x]
      BY <3>1, <3>2 DEF NamesOf
    <3> QED
      BY <2>2, <3>2, <3>3
  <2>8. /\ \A x \in DOMAIN p.read \ {"serialReview"} : p.read[x] = {p.named[x]}
        /\ p.named["raw"] \in Nat
        /\ /\ Did(Steps(b), b.step, Do("registered", "raw")) /\ "candidate" \in DOMAIN p.read
           /\ Settled(Steps(b), b.step, "raw") /\ Settled(Steps(b), b.step, "candidate")
           => p.named["raw"] = p.named["candidate"].raw
    BY <1>2, <2>7, <2>13, EndKnows
  <2>14. ReviewInOrder(s, p)
    <3>1. b.step = Len(Steps(b)) + 1 /\ Len(Steps(b)) \in Nat
      BY <1>2, <2>7 DEF Saw, WellOrdered
    <3>2. "serialReview" \in DOMAIN b.read /\ "serialReview" \in DOMAIN b.named =>
            p.named["serialReview"] = b.named["serialReview"]
      BY <2>2 DEF NamesOf
    <3>3. CASE s = "pilot"
      <4>1. /\ "serialReview" \in DOMAIN b.read /\ "serialReview" \in DOMAIN b.named
            /\ b.named["serialReview"] = FirstReview
        BY <2>7, <3>1, <3>3 DEF Looked, ReviewOrdered
      <4> QED
        BY <2>2, <2>7, <3>2, <3>3, <4>1 DEF Looked, ReviewInOrder
    <3>4. CASE s = "full"
      <4>1. "serialReview" \in DOMAIN b.read /\ "serialReview" \in DOMAIN b.named
        BY <2>7, <3>1, <3>4 DEF Looked, ReviewOrdered
      <4> QED
        BY <2>2, <2>7, <3>2, <3>4, <4>1 DEF Looked, ReviewInOrder
    <3> QED
      BY <3>3, <3>4 DEF ReviewInOrder
  <2>9. ASSUME s = "pilot" PROVE p.named["raw"] = p.named["candidate"].raw
    <3>1. Steps(b) = PilotSteps(TRUE)
      BY <1>4, <2>4, <2>9 DEF Steps
    <3>2. b.step = Len(PilotSteps(TRUE)) + 1
      <4>1. b.step \in 1..(Len(Steps(b)) + 1) /\ Len(Steps(b)) \in Nat
        BY <2>7 DEF Saw, WellOrdered
      <4>2. b.step = Len(Steps(b)) + 1
        BY <1>2, <4>1
      <4> QED
        BY <3>1, <4>2
    <3>3. "candidate" \in DOMAIN p.read
      BY <2>7, <2>13, <3>1, <3>2, PilotOrder DEF Saw, Origin
    <3> QED
      BY <2>8, <3>1, <3>2, <3>3, PilotOrder
  <2>10. Truth(s, p, reports[s])
    BY <1>4, <2>2, <2>5, <2>6, <2>8, <2>9, <2>14 DEF Truth
  <2>11. s = "candidate" => p.id \in 0..begun /\ published[s].id < p.id
    BY <1>3, <1>4, <2>2 DEF Works, BuildInv
  <2>12. e = NoBuild
    BY <1>1, <1>8, <1>5
  <2> QED
    <3>1. p.id \in 0..begun /\ DOMAIN reports[s] = ReportsOf[s]
      BY <1>4, <2>2 DEF BuildInv
    <3>2. p # NoBuild => p.id \in 0..begun /\ Truth(s, p, reports[s])
      BY <2>10, <3>1
    <3>3. s = "candidate" =>
            /\ p.id \in 0..begun /\ p.named["raw"] \in Nat
            /\ p = published[s] \/ published[s].id < p.id
      BY <2>8, <2>11
    <3>4. e # NoBuild => Works(s, e, p, reports[s], begun, NowOf(published["candidate"], source))
      BY <2>12
    <3>5. UNCHANGED <<source, begun>>
      BY <1>2
    <3> QED
      BY ONLY BuildInv, s \in Stages, <2>3, <3>1, <3>2, <3>3, <3>4, <3>5, OneStage
<1> QED
  BY <1>7, <1>8

LEMMA InitBuilds == InitBuild => BuildInv
<1> SUFFICES ASSUME InitBuild PROVE BuildInv
  OBVIOUS
<1>1. published["candidate"] = Original /\ Original.id = 0 /\ Original.named["raw"] = 0
  BY DEF InitBuild, Original, Stages
<1>2. Truth("candidate", published["candidate"], reports["candidate"])
  BY <1>1, Bounded DEF Truth, ReviewInOrder, Original, InitBuild, Stages, ReportsOf, Bounded
<1>3. \A s \in Stages : builder[s] = NoBuild /\ (s # "candidate" => published[s] = NoBuild)
  BY DEF InitBuild
<1> QED
  BY <1>1, <1>2, <1>3 DEF BuildInv, InitBuild, SourceShape

LEMMA BuildInvariance ==
  ASSUME BuildInv, [NextBuild]_buildVars
  PROVE  BuildInv'
<1>1. CASE UNCHANGED buildVars
  BY <1>1 DEF buildVars, BuildInv, NowOf
<1>2. CASE EditRaw \/ EditReview \/ EditSerialReview \/ ServerBegins \/ ServerEnds
  BY <1>2, EditKeeps
<1>3. ASSUME NEW s \in Stages, Refused(s) \/ Dies(s)
      PROVE  BuildInv'
  <2>1. builder' = [builder EXCEPT ![s] = NoBuild] /\ UNCHANGED <<source, published, reports, begun>>
    BY <1>3 DEF Refused, Dies
  <2> QED
    BY <2>1, OneBuilder
<1> QED
  BY <1>1, <1>2, <1>3, BeginKeeps, ListSteps, PublishKeeps DEF NextBuild

\* Whatever is edited, written, killed or built again in the meantime, by builders of
\* any stages at once: a published database names the content it was built from of each
\* source it names but the review of the S/N; of that, the pilot read the approved one or
\* one that came later, and the full candidate the one it names or one that was there
\* before; and no report beside it is older than it (build_candidate, build_pilot,
\* build_full_candidate).
THEOREM BundlesAreTrue == BuildSpec => []BundlesTellTheTruth
<1>1. BuildInv => BundlesTellTheTruth
  BY DEF BuildInv, Truth, BundlesTellTheTruth
<1> QED
  BY <1>1, InitBuilds, BuildInvariance, PTL DEF BuildSpec

-----------------------------------------------------------------------------
(* Staging: names. *)

SameKey(u, v) == u.domain = v.domain /\ u.scope = v.scope /\ u.key = v.key

\* One value for a key; of vendors and models the key is that of the name.
ValuesOK(vs) ==
  /\ \A u, v \in vs : SameKey(u, v) => u = v
  /\ \A v \in vs : v.domain \in {"vendor", "model"} => v.key = Folded(v.name[1])

HasValue(vs, domain, scope, key) ==
  \E v \in vs : v.domain = domain /\ v.scope = scope /\ v.key = key

\* What is approved is spelled like the value it stands for.
AliasOK(a, vs) ==
  a.approved => Folded(a.text) = a.key /\ HasValue(vs, a.domain, a.scope, a.key)
AliasesOK(as, vs) == \A a \in as : AliasOK(a, vs)

\* The model of a vendor has its value and an approved spelling.
Entered(as, vs, scope, key) ==
  /\ HasValue(vs, "model", scope, key)
  /\ \E a \in as : a.approved /\ a.domain = "model" /\ a.scope = scope /\ a.key = key

LEMMA EnsuredKeeps ==
  ASSUME ValuesOK(values), NEW domain, NEW scope, NEW name, NEW key,
         domain \in {"vendor", "model"} => key = Folded(name[1]),
         NEW new, new = Ensured(domain, scope, name, key)
  PROVE  /\ ValuesOK(new) /\ values \subseteq new /\ HasValue(new, domain, scope, key)
         /\ \A v \in new : v \in values \/ (v.domain = domain /\ v.scope = scope /\ v.key = key)
<1>1. CASE Stored(domain, scope, key) # {}
  BY <1>1 DEF Ensured, Stored, HasValue
<1>2. CASE Stored(domain, scope, key) = {}
  <2>1. PICK v : v = [domain |-> domain, scope |-> scope, key |-> key, name |-> name, approved |-> FALSE]
    OBVIOUS
  <2>2. v.domain = domain /\ v.scope = scope /\ v.key = key /\ v.name = name
    BY <2>1
  <2>3. new = values \cup {v}
    BY <1>2, <2>1 DEF Ensured
  <2>4. \A u \in values : ~SameKey(u, v)
    BY <1>2, <2>2 DEF Stored, SameKey
  <2>5. ValuesOK(new)
    BY <2>2, <2>3, <2>4 DEF ValuesOK, SameKey
  <2> QED
    BY <2>2, <2>3, <2>5 DEF HasValue
<1> QED
  BY <1>1, <1>2

\* Two values of different domains are entered at once.
Grown(vs, new, domain) ==
  ValuesOK(new) /\ vs \subseteq new /\ \A v \in new : v \in vs \/ v.domain = domain

LEMMA BothEnsured ==
  ASSUME NEW vs, ValuesOK(vs), NEW one, NEW other, NEW d, NEW e, d # e,
         Grown(vs, one, d), Grown(vs, other, e)
  PROVE  ValuesOK(one \cup other)
<1>0. /\ ValuesOK(one) /\ ValuesOK(other) /\ vs \subseteq one /\ vs \subseteq other
      /\ \A v \in one : v \in vs \/ v.domain = d
      /\ \A v \in other : v \in vs \/ v.domain = e
  BY DEF Grown
<1>1. ASSUME NEW u \in one, NEW v \in other, SameKey(u, v) PROVE u = v
  <2>1. u \in vs \/ v \in vs
    <3>1. u.domain = v.domain
      BY <1>1 DEF SameKey
    <3> QED
      BY <3>1, <1>0
  <2> QED
    BY <2>1, <1>0, <1>1 DEF ValuesOK
<1>2. \A u, v : SameKey(u, v) <=> SameKey(v, u)
  BY DEF SameKey
<1> QED
  BY <1>0, <1>1, <1>2 DEF ValuesOK

LEMMA MoreValues ==
  ASSUME NEW vs, NEW new, vs \subseteq new
  PROVE  /\ \A d, s, k : HasValue(vs, d, s, k) => HasValue(new, d, s, k)
         /\ \A a : AliasOK(a, vs) => AliasOK(a, new)
         /\ \A as, s, k : Entered(as, vs, s, k) => Entered(as, new, s, k)
<1>1. \A d, s, k : HasValue(vs, d, s, k) => HasValue(new, d, s, k)
  BY DEF HasValue
<1> QED
  BY <1>1 DEF AliasOK, Entered

\* A row of the review or a model replaces its own spelling; a model that was entered
\* stays entered.
LEMMA AliasedKeeps ==
  ASSUME NEW as, NEW vs, AliasesOK(as, vs), NEW a, AliasOK(a, vs),
         a.domain # "model" \/ a.approved
  PROVE  /\ AliasesOK(Aliased(as, a), vs)
         /\ \A s, k : Entered(as, vs, s, k) => Entered(Aliased(as, a), vs, s, k)
<1>1. Aliased(as, a) \subseteq as \cup {a} /\ a \in Aliased(as, a)
  BY DEF Aliased
<1>2. AliasesOK(Aliased(as, a), vs)
  BY <1>1 DEF AliasesOK
<1>3. ASSUME NEW s, NEW k, Entered(as, vs, s, k) PROVE Entered(Aliased(as, a), vs, s, k)
  <2>1. PICK b \in as : b.approved /\ b.domain = "model" /\ b.scope = s /\ b.key = k
    BY <1>3 DEF Entered
  <2>2. CASE b \in Aliased(as, a)
    BY <1>3, <2>1, <2>2 DEF Entered
  <2>3. CASE b \notin Aliased(as, a)
    <3>1. <<b.domain, b.text, b.scope, b.key, b.sheet>> = <<a.domain, a.text, a.scope, a.key, a.sheet>>
      BY <2>3 DEF Aliased
    <3>2. b.domain = a.domain /\ b.scope = a.scope /\ b.key = a.key
      BY <3>1
    <3> QED
      BY <1>1, <1>3, <2>1, <3>2 DEF Entered
  <2> QED
    BY <2>2, <2>3
<1> QED
  BY <1>2, <1>3

-----------------------------------------------------------------------------
(* Staging: what is left to do and what was done. *)

Spelled(row) == row.vendor \in DOMAIN Fold /\ row.model \in DOMAIN Fold

InputOK(w) ==
  /\ w \in [Parts -> Seq(SheetRows)]
  /\ \A i \in DOMAIN w["RECEIPT"] : Spelled(w["RECEIPT"][i])

StagedRows == {StagedRow(s, r) : s \in Sheets, r \in SheetRows}

\* The row of a receipt that names a vendor and a model.
WithModel(x) == x.sheet = "RECEIPT" /\ Blank \notin {x.row.vendor, x.row.model}

StagedOK(x) == x.sheet = "RECEIPT" => Spelled(x.row)

\* Its model is still to be entered, or is.
ModelOK(x, left, as, vs) ==
  WithModel(x) =>
    \/ <<x.row.vendor, x.row.model>> \in left
    \/ Entered(as, vs, Folded(x.row.vendor), Folded(x.row.model))

\* A pair that is left has two names.
PairOK(p) == p = <<p[1], p[2]>> /\ {p[1], p[2]} \subseteq DOMAIN Fold \ {Blank}

\* A proposal stands under the key of its first row, which is staged.
ProposalOK(k, cat, list) ==
  /\ cat[k] = [first |-> cat[k].first, called |-> cat[k].called]
  /\ k = ItemKey(cat[k].first)
  /\ \E j \in DOMAIN list : list[j].sheet = "RECEIPT" /\ list[j].row = cat[k].first
  /\ cat[k].first.vendor # Blank

ItemOK(i, cat) == i.key \in DOMAIN cat /\ i.model = (cat[i.key].first.model # Blank)

StagingInv ==
  /\ phase \in {"review", "RECEIPT", "ISSUE", "models", "catalog", "committed", "valid", "failed"}
  /\ InputOK(input) /\ ValuesOK(values) /\ AliasesOK(aliases, values)
  /\ staged \in Seq(StagedRows)
  /\ \A j \in DOMAIN staged : StagedOK(staged[j]) /\ ModelOK(staged[j], DOMAIN usage, aliases, values)
  /\ \A j \in DOMAIN staged : staged[j].key # None => staged[j].key \in DOMAIN catalog
  /\ \A p \in DOMAIN usage : PairOK(p)
  /\ \A k \in DOMAIN catalog : ProposalOK(k, catalog, staged)
  /\ \A i \in items : ItemOK(i, catalog)
  /\ \A i, j \in items : i.key = j.key => i = j
  /\ phase \in {"review", "RECEIPT", "ISSUE", "models"} => items = {}
  /\ phase \in {"catalog", "committed", "valid", "failed"} => DOMAIN usage = {}
  /\ phase \in {"committed", "valid"} => DOMAIN catalog = {i.key : i \in items}
  /\ phase = "failed" =>
       \E i \in items, k \in DOMAIN catalog :
         k # i.key /\ ItemName(catalog[k].first) = i.name /\ k.part = i.key.part

LEMMA InitStagingInv == InitStaging => StagingInv
<1> SUFFICES ASSUME InitStaging PROVE StagingInv
  OBVIOUS
<1>1. input \in Inputs /\ phase = "review" /\ aliases = {} /\ staged = <<>> /\ catalog = <<>> /\ items = {}
  BY DEF InitStaging
<1>2. DOMAIN usage = {} /\ DOMAIN staged = {} /\ DOMAIN catalog = {}
  BY DEF InitStaging, EmptyBag, SetToBag
<1>3. InputOK(input)
  <2>1. input \in [Parts -> Seq(SheetRows)]
    BY <1>1, InputsAreSheets
  <2>2. \A i \in DOMAIN input["RECEIPT"] : input["RECEIPT"][i] \in Range(input["RECEIPT"])
    BY DEF Range
  <2>3. \A i \in DOMAIN input["RECEIPT"] : Spelled(input["RECEIPT"][i])
    BY <1>1, <2>2, InputsAreSheets DEF Spelled
  <2> QED
    BY <2>1, <2>3 DEF InputOK
<1>4. ValuesOK(values)
  <2> DEFINE V(s) == [domain |-> s[1], scope |-> NoScope, key |-> <<s[2]>>, name |-> <<s[2]>>, approved |-> TRUE]
  <2>1. values = {V(s) : s \in Seeded}
    BY DEF InitStaging
  <2>2. \A s \in Seeded : V(s).domain = s[1] /\ V(s).scope = NoScope /\ V(s).key = <<s[2]>> /\ V(s).name = <<s[2]>>
    OBVIOUS
  <2>3. \A s, t \in Seeded : s[1] = t[1] /\ s[2] = t[2] => V(s) = V(t)
    OBVIOUS
  <2>4. \A s \in Seeded : Folded(V(s).name[1]) = <<s[2]>>
    BY <2>2, SpellingsAreFolded DEF Folded
  <2> HIDE DEF V
  <2>5. \A u, v \in values : SameKey(u, v) => u = v
    BY <2>1, <2>2, <2>3 DEF SameKey
  <2>6. \A v \in values : v.key = Folded(v.name[1])
    BY <2>1, <2>2, <2>4
  <2> QED
    BY <2>5, <2>6 DEF ValuesOK
<1> QED
  BY <1>1, <1>2, <1>3, <1>4 DEF StagingInv, AliasesOK

-----------------------------------------------------------------------------
(* Staging: the steps. *)

\* A part of the workbook is read on.
LEMMA ReadOn ==
  ASSUME NEW w, InputOK(w), NEW s \in Parts, w[s] # <<>>, NEW v, v = [w EXCEPT ![s] = Tail(@)]
  PROVE  InputOK(v) /\ w[s][1] \in SheetRows /\ (s = "RECEIPT" => Spelled(w[s][1]))
<1>1. w \in [Parts -> Seq(SheetRows)] /\ w[s] \in Seq(SheetRows)
  BY DEF InputOK
<1>2. PICK rest : rest = Tail(w[s])
  OBVIOUS
<1>3. rest \in Seq(SheetRows) /\ (\A i \in DOMAIN rest : i + 1 \in DOMAIN w[s] /\ rest[i] = w[s][i + 1])
        /\ 1 \in DOMAIN w[s]
  BY <1>1, <1>2
<1>4. v = [w EXCEPT ![s] = rest]
  BY <1>2
<1>5. v \in [Parts -> Seq(SheetRows)] /\ v[s] = rest /\ \A q \in Parts \ {s} : v[q] = w[q]
  BY <1>1, <1>3, <1>4
<1>6. \A i \in DOMAIN v["RECEIPT"] : Spelled(v["RECEIPT"][i])
  <2>1. CASE s = "RECEIPT"
    BY <2>1, <1>3, <1>5 DEF InputOK
  <2>2. CASE s # "RECEIPT"
    BY <2>2, <1>5 DEF InputOK, Parts
  <2> QED
    BY <2>1, <2>2
<1>7. w[s][1] \in SheetRows /\ (s = "RECEIPT" => Spelled(w[s][1]))
  BY <1>1, <1>3 DEF InputOK
<1> QED
  BY <1>5, <1>6, <1>7 DEF InputOK

\* The names change: what is done stays done.
LEMMA NamesGrow ==
  ASSUME StagingInv, NEW vs, NEW as, ValuesOK(vs), AliasesOK(as, vs), NEW left,
         \A s, k : Entered(aliases, values, s, k) => Entered(as, vs, s, k),
         \A p \in DOMAIN usage : p \in left \/ Entered(as, vs, Folded(p[1]), Folded(p[2]))
  PROVE  \A j \in DOMAIN staged : ModelOK(staged[j], left, as, vs)
<1> SUFFICES ASSUME NEW j \in DOMAIN staged, WithModel(staged[j]) PROVE ModelOK(staged[j], left, as, vs)
  BY DEF ModelOK
<1>1. PICK x : x = staged[j].row.vendor
  OBVIOUS
<1>2. PICK m : m = staged[j].row.model
  OBVIOUS
<1>3. <<x, m>> \in DOMAIN usage \/ Entered(aliases, values, Folded(x), Folded(m))
  BY <1>1, <1>2 DEF StagingInv, ModelOK
<1>4. <<x, m>> \in left \/ Entered(as, vs, Folded(x), Folded(m))
  <2>1. CASE <<x, m>> \in DOMAIN usage
    <3>1. PICK p : p = <<x, m>>
      OBVIOUS
    <3>2. p[1] = x /\ p[2] = m
      BY <3>1
    <3> QED
      BY <2>1, <3>1, <3>2
  <2> QED
    BY <2>1, <1>3
<1> QED
  BY <1>1, <1>2, <1>4 DEF ModelOK

LEMMA ReviewKeeps ==
  ASSUME StagingInv, Review
  PROVE  StagingInv'
<1>1. /\ phase = "review" /\ input["review"] # <<>> /\ input' = [input EXCEPT !["review"] = Tail(@)]
      /\ phase' = phase /\ staged' = staged /\ usage' = usage /\ catalog' = catalog /\ items' = items
  BY DEF Review
<1>2. InputOK(input')
  BY <1>1, ReadOn DEF StagingInv, Parts
<1>3. /\ ValuesOK(values') /\ AliasesOK(aliases', values')
      /\ \A s, k : Entered(aliases, values, s, k) => Entered(aliases', values', s, k)
  <2>1. CASE Obstacle # None
    BY <2>1 DEF Review, StagingInv
  <2>2. CASE Obstacle = None
    <3>1. PICK d : d = ReviewRow.domain
      OBVIOUS
    <3>2. PICK text : text = ReviewRow.text
      OBVIOUS
    <3>3. PICK name : name = IF Meant THEN Meaning[<<d, Fold[text]>>] ELSE Proposed
      OBVIOUS
    <3>4. PICK byHand : byHand = ((Meant \/ ReviewRow.conflict) /\ Fold[text] # Fold[name])
      OBVIOUS
    <3>5. PICK a : a = Alias(d, text, NoScope, Folded(name), ReviewRow.sheet, ReviewRow.count,
                             Safe(d, text, name) /\ ~byHand)
      OBVIOUS
    <3>6. PICK vs : vs = Ensured(d, NoScope, <<name>>, Folded(name))
      OBVIOUS
    <3>7. values' = vs /\ aliases' = Aliased(aliases, a)
      BY <2>2, <3>1, <3>2, <3>3, <3>4, <3>5, <3>6 DEF Review
    <3>8. d # "model"
      <4>1. d \notin Structured
        BY <2>2, <3>1, InputsAreSheets DEF Obstacle
      <4> QED
        BY <4>1 DEF Structured
    <3>9. a.approved = (Safe(d, text, name) /\ ~byHand) /\ a.text = text /\ a.domain = d
            /\ a.scope = NoScope /\ a.key = Folded(name)
      BY <3>5 DEF Alias
    <3>10. a.approved => Folded(a.text) = a.key
      BY <3>9 DEF Safe, Folded
    <3>11. PICK long : long = <<name>>
      OBVIOUS
    <3>12. long[1] = name
      BY <3>11
    <3>13. /\ ValuesOK(vs) /\ values \subseteq vs /\ HasValue(vs, d, NoScope, Folded(name))
      BY <3>6, <3>11, <3>12, EnsuredKeeps DEF StagingInv
    <3>14. AliasOK(a, vs)
      BY <3>9, <3>10, <3>13 DEF AliasOK
    <3>15. AliasesOK(aliases, vs)
      BY <3>13, MoreValues DEF StagingInv, AliasesOK
    <3>16. AliasesOK(Aliased(aliases, a), vs)
             /\ \A s, k : Entered(aliases, vs, s, k) => Entered(Aliased(aliases, a), vs, s, k)
      BY <3>8, <3>9, <3>14, <3>15, AliasedKeeps
    <3> QED
      BY <3>7, <3>13, <3>16, MoreValues
  <2> QED
    BY <2>1, <2>2
<1>4. \A j \in DOMAIN staged : ModelOK(staged[j], DOMAIN usage, aliases', values')
  BY <1>3, NamesGrow
<1> QED
  BY <1>1, <1>2, <1>3, <1>4 DEF StagingInv

LEMMA PhaseKeeps ==
  ASSUME StagingInv, ToOperations \/ NextSheet \/ ToCatalog \/ CommitCandidate
  PROVE  StagingInv'
<1>1. UNCHANGED <<input, values, aliases, open, staged, usage, catalog, items>>
  BY DEF ToOperations, NextSheet, ToCatalog, CommitCandidate
<1>2. CASE ToOperations
  BY <1>1, <1>2 DEF StagingInv, ToOperations
<1>3. CASE NextSheet
  BY <1>1, <1>3 DEF StagingInv, NextSheet, Sheets
<1>4. CASE ToCatalog
  <2>1. DOMAIN usage = {}
    BY <1>4 DEF ToCatalog, EmptyBag, SetToBag
  <2> QED
    BY <1>1, <1>4, <2>1 DEF StagingInv, ToCatalog
<1>5. CASE CommitCandidate
  BY <1>1, <1>5 DEF StagingInv, CommitCandidate
<1> QED
  BY <1>2, <1>3, <1>4, <1>5

LEMMA CandidateIsValid ==
  ASSUME StagingInv
  PROVE  CandidateValid
<1>1. ASSUME NEW a \in aliases, a.approved
      PROVE  \E v \in Stored(a.domain, a.scope, a.key) : Folded(a.text) = v.key
  <2>1. Folded(a.text) = a.key /\ HasValue(values, a.domain, a.scope, a.key)
    BY <1>1 DEF StagingInv, AliasesOK, AliasOK
  <2> QED
    BY <2>1 DEF HasValue, Stored
<1>2. \A c : Preservation(c) = "SOURCE_CORRUPTED" => MatchValue(c) = Blank
  BY DEF MatchValue
<1>3. \A c : c.type = "number" => Preservation(c) \in {"SOURCE_CORRUPTED", "NUMERIC_FORMAT_RECOVERED", "NUMERIC_FORMAT_UNPROVEN"}
  BY DEF Preservation, OfNumber
<1>4. \A c : c.type = "number" => MatchValue(c) = Blank /\ ByHand(c)
  BY <1>3 DEF MatchValue, ByHand
<1> QED
  BY <1>1, <1>2, <1>4 DEF CandidateValid

LEMMA CheckKeeps ==
  ASSUME StagingInv, CheckCandidate
  PROVE  StagingInv'
<1>1. UNCHANGED <<input, values, aliases, open, staged, usage, catalog, items>> /\ phase = "committed" /\ phase' = "valid"
  BY CandidateIsValid DEF CheckCandidate
<1> QED
  BY <1>1 DEF StagingInv

\* What a staged row makes of the proposals.
Kept(cat) == \A x \in DOMAIN cat : cat[x] = [first |-> cat[x].first, called |-> cat[x].called]

LEMMA CollectedFacts ==
  ASSUME NEW row, NEW new, new = Collected(row), NEW k, k = ItemKey(row), Kept(catalog)
  PROVE  /\ DOMAIN new = DOMAIN catalog \cup {k}
         /\ \A x \in DOMAIN catalog : new[x].first = catalog[x].first
         /\ k \notin DOMAIN catalog => new[k].first = row
         /\ Kept(new)
<1>1. PICK old : old = IF k \in DOMAIN catalog THEN catalog[k] ELSE [first |-> row, called |-> EmptyBag]
  OBVIOUS
<1>2. PICK names : names = old.called (+) SetToBag({row.item})
  OBVIOUS
<1>3. PICK e : e = [old EXCEPT !.called = names]
  OBVIOUS
<1>4. new = [x \in DOMAIN catalog \cup {k} |-> IF x = k THEN e ELSE catalog[x]]
  BY <1>1, <1>2, <1>3 DEF Collected
<1>5. old = [first |-> old.first, called |-> old.called] /\ (k \notin DOMAIN catalog => old.first = row)
        /\ (k \in DOMAIN catalog => old.first = catalog[k].first)
  BY <1>1 DEF Kept
<1>6. PICK f : f = old.first
  OBVIOUS
<1>7. PICK c : c = old.called
  OBVIOUS
<1>8. old = [first |-> f, called |-> c]
  BY <1>5, <1>6, <1>7
<1>9. e = [first |-> f, called |-> names]
  BY <1>3, <1>8
<1>10. e.first = f /\ e.called = names
  BY <1>9
<1>11. e = [first |-> e.first, called |-> e.called]
  BY <1>9, <1>10
<1> QED
  BY <1>4, <1>5, <1>6, <1>10, <1>11 DEF Kept

LEMMA StageKeeps ==
  ASSUME StagingInv, Stage
  PROVE  StagingInv'
<1>1. /\ phase \in Sheets /\ input[phase] # <<>> /\ input' = [input EXCEPT ![phase] = Tail(@)]
      /\ UNCHANGED <<phase, values, aliases, open, items>>
  BY DEF Stage
<1>2. PICK s : s = phase
  OBVIOUS
<1>3. PICK row : row = input[phase][1]
  OBVIOUS
<1>4. PICK x : x = StagedRow(s, row)
  OBVIOUS
<1>5. PICK pair : pair = <<row.vendor, row.model>>
  OBVIOUS
<1>6. /\ staged' = Append(staged, x)
      /\ catalog' = IF Proposes(s, row) THEN Collected(row) ELSE catalog
      /\ usage' = IF s = "RECEIPT" /\ row.vendor # Blank /\ row.model # Blank THEN usage (+) SetToBag({pair}) ELSE usage
  BY <1>2, <1>3, <1>4, <1>5 DEF Stage
<1>7. InputOK(input') /\ row \in SheetRows /\ (s = "RECEIPT" => Spelled(row))
  <2>1. s \in Parts
    BY <1>1, <1>2 DEF Sheets, Parts
  <2> QED
    BY <2>1, <1>1, <1>2, <1>3, ReadOn DEF StagingInv
<1>8. x \in StagedRows /\ x.sheet = s /\ x.row = row /\ x.key = IF Proposes(s, row) THEN ItemKey(row) ELSE None
  <2>1. x \in StagedRows
    BY <1>1, <1>2, <1>4, <1>7 DEF StagedRows
  <2>2. x.sheet = s /\ x.row = row /\ x.key = IF Proposes(s, row) THEN ItemKey(row) ELSE None
    BY ONLY <1>4 DEF StagedRow
  <2> QED
    BY <2>1, <2>2
<1>9. /\ staged' \in Seq(StagedRows) /\ Len(staged') = Len(staged) + 1 /\ staged'[Len(staged')] = x
      /\ \A j \in DOMAIN staged : j \in DOMAIN staged' /\ staged'[j] = staged[j]
      /\ \A j \in DOMAIN staged' : j \in DOMAIN staged \/ j = Len(staged')
      /\ Len(staged') \in DOMAIN staged'
  BY <1>6, <1>8 DEF StagingInv
<1>10. /\ DOMAIN usage \subseteq DOMAIN usage'
       /\ \A p \in DOMAIN usage' : p \in DOMAIN usage
            \/ (p = pair /\ s = "RECEIPT" /\ row.vendor # Blank /\ row.model # Blank)
       /\ s = "RECEIPT" /\ row.vendor # Blank /\ row.model # Blank => pair \in DOMAIN usage'
  <2>1. DOMAIN (usage (+) SetToBag({pair})) = DOMAIN usage \cup {pair}
    BY DEF SetToBag, (+)
  <2> QED
    BY <2>1, <1>6
<1>11. \A p \in DOMAIN usage' : PairOK(p)
  <2>1. s = "RECEIPT" /\ row.vendor # Blank /\ row.model # Blank => PairOK(pair)
    BY <1>5, <1>7 DEF PairOK, Spelled
  <2> QED
    BY <2>1, <1>10 DEF StagingInv
<1>12. /\ DOMAIN catalog \subseteq DOMAIN catalog'
       /\ \A k \in DOMAIN catalog : catalog'[k].first = catalog[k].first
       /\ \A k \in DOMAIN catalog' : catalog'[k] = [first |-> catalog'[k].first, called |-> catalog'[k].called]
       /\ \A k \in DOMAIN catalog' : k \in DOMAIN catalog
            \/ (k = ItemKey(row) /\ Proposes(s, row) /\ catalog'[k].first = row)
       /\ Proposes(s, row) => ItemKey(row) \in DOMAIN catalog'
  <2>1. \A k \in DOMAIN catalog : catalog[k] = [first |-> catalog[k].first, called |-> catalog[k].called]
    BY DEF StagingInv, ProposalOK
  <2>2. PICK new : new = Collected(row)
    OBVIOUS
  <2>3. PICK key : key = ItemKey(row)
    OBVIOUS
  <2>4. /\ DOMAIN new = DOMAIN catalog \cup {key}
        /\ \A k \in DOMAIN catalog : new[k].first = catalog[k].first
        /\ key \notin DOMAIN catalog => new[key].first = row
        /\ \A k \in DOMAIN new : new[k] = [first |-> new[k].first, called |-> new[k].called]
    <3>1. Kept(catalog)
      BY <2>1 DEF Kept
    <3>2. /\ DOMAIN new = DOMAIN catalog \cup {key}
          /\ \A k \in DOMAIN catalog : new[k].first = catalog[k].first
          /\ key \notin DOMAIN catalog => new[key].first = row
          /\ Kept(new)
      BY <3>1, <2>2, <2>3, CollectedFacts
    <3> QED
      BY <3>2 DEF Kept
  <2>5. CASE Proposes(s, row)
    <3>1. PICK later : later = catalog'
      OBVIOUS
    <3>2. later = new
      BY <3>1, <2>2, <2>5, <1>6
    <3> QED
      BY <2>3, <2>4, <2>5, <3>1, <3>2
  <2>6. CASE ~Proposes(s, row)
    BY <2>1, <2>6, <1>6
  <2> QED
    BY <2>5, <2>6
<1>13. \A j \in DOMAIN staged' : staged'[j].key # None => staged'[j].key \in DOMAIN catalog'
  <2>1. x.key # None => x.key \in DOMAIN catalog'
    BY <1>8, <1>12
  <2>2. \A j \in DOMAIN staged : staged[j].key # None => staged[j].key \in DOMAIN catalog
    BY DEF StagingInv
  <2> QED
    BY <2>1, <2>2, <1>9, <1>12
<1>14. \A k \in DOMAIN catalog' : ProposalOK(k, catalog', staged')
  <2> SUFFICES ASSUME NEW k \in DOMAIN catalog' PROVE ProposalOK(k, catalog', staged')
    OBVIOUS
  <2>1. CASE k \in DOMAIN catalog
    <3>1. ProposalOK(k, catalog, staged)
      BY <2>1 DEF StagingInv
    <3>2. PICK f : f = catalog[k].first
      OBVIOUS
    <3>3. catalog'[k].first = f
      BY <2>1, <3>2, <1>12
    <3>4. k = ItemKey(f) /\ f.vendor # Blank
      BY <3>1, <3>2 DEF ProposalOK
    <3>5. \E j \in DOMAIN staged' : staged'[j].sheet = "RECEIPT" /\ staged'[j].row = f
      BY <3>1, <3>2, <1>9 DEF ProposalOK
    <3>6. catalog'[k] = [first |-> catalog'[k].first, called |-> catalog'[k].called]
      BY <1>12
    <3> QED
      BY <3>3, <3>4, <3>5, <3>6 DEF ProposalOK
  <2>2. CASE k \notin DOMAIN catalog
    <3>1. k = ItemKey(row) /\ Proposes(s, row) /\ catalog'[k].first = row
      BY <2>2, <1>12
    <3>2. s = "RECEIPT" /\ row.vendor # Blank
      BY <3>1 DEF Proposes
    <3>3. \E j \in DOMAIN staged' : staged'[j].sheet = "RECEIPT" /\ staged'[j].row = row
      BY <3>2, <1>8, <1>9
    <3>4. catalog'[k] = [first |-> catalog'[k].first, called |-> catalog'[k].called]
      BY <1>12
    <3> QED
      BY <3>1, <3>2, <3>3, <3>4 DEF ProposalOK
  <2> QED
    BY <2>1, <2>2
<1>15. \A j \in DOMAIN staged' : StagedOK(staged'[j]) /\ ModelOK(staged'[j], DOMAIN usage', aliases', values')
  <2>1. StagedOK(x)
    BY <1>7, <1>8 DEF StagedOK
  <2>2. ModelOK(x, DOMAIN usage', aliases', values')
    <3>1. WithModel(x) => s = "RECEIPT" /\ row.vendor # Blank /\ row.model # Blank
      BY <1>8 DEF WithModel
    <3> QED
      BY <3>1, <1>5, <1>8, <1>10 DEF ModelOK
  <2>3. \A j \in DOMAIN staged : StagedOK(staged[j]) /\ ModelOK(staged[j], DOMAIN usage', aliases', values')
    BY <1>1, <1>10 DEF StagingInv, ModelOK
  <2> QED
    BY <2>1, <2>2, <2>3, <1>9
<1>16. phase \in {"RECEIPT", "ISSUE"} /\ items = {}
  BY <1>1 DEF StagingInv, Sheets
<1> QED
  BY <1>1, <1>7, <1>9, <1>11, <1>13, <1>14, <1>15, <1>16 DEF StagingInv

LEMMA ModelKeeps ==
  ASSUME StagingInv, InsertModel
  PROVE  StagingInv'
<1>1. PICK pair \in DOMAIN usage :
        LET vendor == pair[1]
            model == pair[2]
            known == Ensured("vendor", NoScope, <<vendor>>, Folded(vendor))
            scope == ScopeOf(vendor)
        IN  /\ usage' = [p \in DOMAIN usage \ {pair} |-> usage[p]]
            /\ values' = known \cup Ensured("model", scope, <<model>>, Folded(model))
            /\ aliases' = Aliased(aliases, Alias("model", model, scope, Folded(model), "RECEIPT",
                                     usage[pair], Safe("model", model, model)))
  BY DEF InsertModel, BagToSet
<1>2. phase = "models" /\ UNCHANGED <<input, phase, open, staged, catalog, items>>
  BY DEF InsertModel
<1>3. PICK vendor : vendor = pair[1]
  OBVIOUS
<1>4. PICK model : model = pair[2]
  OBVIOUS
<1>5. PICK name : name = <<vendor>>
  OBVIOUS
<1>6. PICK label : label = <<model>>
  OBVIOUS
<1>7. name[1] = vendor /\ label[1] = model
  BY <1>5, <1>6
<1>8. PICK known : known = Ensured("vendor", NoScope, name, Folded(vendor))
  OBVIOUS
<1>9. PICK made : made = Ensured("model", Folded(vendor), label, Folded(model))
  OBVIOUS
<1>10. PICK a : a = Alias("model", model, Folded(vendor), Folded(model), "RECEIPT", usage[pair], Safe("model", model, model))
  OBVIOUS
<1>11. DOMAIN usage' = DOMAIN usage \ {pair} /\ values' = known \cup made /\ aliases' = Aliased(aliases, a)
  BY <1>1, <1>3, <1>4, <1>5, <1>6, <1>8, <1>9, <1>10 DEF ScopeOf
<1>12. {vendor, model} \subseteq DOMAIN Fold \ {Blank}
  BY <1>3, <1>4 DEF StagingInv, PairOK
<1>13. ValuesOK(known) /\ values \subseteq known /\ \A v \in known : v \in values \/ v.domain = "vendor"
  BY <1>7, <1>8, EnsuredKeeps DEF StagingInv
<1>14. ValuesOK(made) /\ values \subseteq made /\ HasValue(made, "model", Folded(vendor), Folded(model))
         /\ \A v \in made : v \in values \/ v.domain = "model"
  BY <1>7, <1>9, EnsuredKeeps DEF StagingInv
<1>15. PICK vs : vs = known \cup made
  OBVIOUS
<1>16. ValuesOK(vs) /\ values \subseteq vs /\ made \subseteq vs
  <2>1. Grown(values, known, "vendor") /\ Grown(values, made, "model")
    BY <1>13, <1>14 DEF Grown
  <2>2. ValuesOK(known \cup made)
    BY <2>1, BothEnsured DEF StagingInv
  <2> QED
    BY <2>2, <1>13, <1>14, <1>15
<1>17. a.domain = "model" /\ a.text = model /\ a.scope = Folded(vendor) /\ a.key = Folded(model) /\ a.approved
  <2>1. Fold[model] # Blank
    BY <1>12, SpellingsAreFolded
  <2>2. Safe("model", model, model)
    BY <2>1 DEF Safe
  <2> QED
    BY <2>2, <1>10 DEF Alias
<1>18. HasValue(vs, "model", Folded(vendor), Folded(model))
  BY <1>14, <1>16, MoreValues
<1>19. AliasOK(a, vs)
  BY <1>17, <1>18 DEF AliasOK
<1>20. AliasesOK(aliases, vs)
  BY <1>16, MoreValues DEF StagingInv, AliasesOK
<1>21. /\ AliasesOK(Aliased(aliases, a), vs)
       /\ \A s, k : Entered(aliases, vs, s, k) => Entered(Aliased(aliases, a), vs, s, k)
  BY <1>17, <1>19, <1>20, AliasedKeeps
<1>22. \A s, k : Entered(aliases, values, s, k) => Entered(Aliased(aliases, a), vs, s, k)
  BY <1>16, <1>21, MoreValues
<1>23. Entered(Aliased(aliases, a), vs, Folded(vendor), Folded(model))
  <2>1. a \in Aliased(aliases, a)
    BY DEF Aliased
  <2> QED
    BY <2>1, <1>17, <1>18 DEF Entered
<1>24. PICK as : as = Aliased(aliases, a)
  OBVIOUS
<1>25. \A j \in DOMAIN staged : ModelOK(staged[j], DOMAIN usage \ {pair}, as, vs)
  <2>1. \A p \in DOMAIN usage : p \in DOMAIN usage \ {pair} \/ Entered(as, vs, Folded(p[1]), Folded(p[2]))
    BY <1>3, <1>4, <1>23, <1>24
  <2> QED
    BY <2>1, <1>16, <1>21, <1>22, <1>24, NamesGrow
<1>26. values' = vs /\ aliases' = as
  BY <1>11, <1>15, <1>24
<1>27. AliasesOK(as, vs)
  BY <1>21, <1>24
<1> QED
  BY <1>2, <1>11, <1>16, <1>25, <1>26, <1>27 DEF StagingInv

\* More spellings take nothing away.
LEMMA MoreAliases ==
  ASSUME NEW as, NEW bs, as \subseteq bs, NEW vs
  PROVE  \A s, k : Entered(as, vs, s, k) => Entered(bs, vs, s, k)
BY DEF Entered

LEMMA ItemKeeps ==
  ASSUME StagingInv, InsertItem
  PROVE  StagingInv'
<1>1. phase = "catalog" /\ UNCHANGED <<input, open, staged, usage, catalog>> /\ DOMAIN usage = {}
  BY DEF InsertItem, StagingInv
<1>2. PICK k \in DOMAIN catalog \ {i.key : i \in items} :
        LET row == catalog[k].first
        IN  IF Collides(row)
            THEN phase' = "failed" /\ UNCHANGED <<values, aliases, items>>
            ELSE /\ items' = items \cup
                      {[key |-> k, name |-> ItemName(row),
                        model |-> row.model # Blank /\ Stored("model", ScopeOf(row.vendor), Folded(row.model)) # {}]}
                 /\ values' = Ensured("vendor", NoScope, <<row.vendor>>, Folded(row.vendor))
                                \cup Ensured("catalog_item", ItemScope(k), ItemName(row), k.name)
                 /\ aliases' = aliases \cup
                      {Alias("catalog_item", n, ItemScope(k), k.name, "RECEIPT", catalog[k].called[n], FALSE) :
                         n \in BagToSet(catalog[k].called) \ {Blank}}
                 /\ UNCHANGED phase
  BY DEF InsertItem
<1>3. PICK row : row = catalog[k].first
  OBVIOUS
<1>4. ProposalOK(k, catalog, staged)
  BY DEF StagingInv
<1>5. k = ItemKey(row) /\ row.vendor # Blank
  BY <1>3, <1>4 DEF ProposalOK
<1>6. PICK j \in DOMAIN staged : staged[j].sheet = "RECEIPT" /\ staged[j].row = row
  BY <1>3, <1>4 DEF ProposalOK
<1>7. CASE Collides(row)
  <2>1. phase' = "failed" /\ UNCHANGED <<values, aliases, items>>
    BY <1>2, <1>3, <1>7
  <2>2. PICK i \in items : i.name = ItemName(row) /\ i.key.part = Part(row)
    BY <1>7 DEF Collides
  <2>3. k.part = Part(row) /\ k # i.key
    BY <1>5, <2>2 DEF ItemKey
  <2>4. \E x \in items, y \in DOMAIN catalog : y # x.key /\ ItemName(catalog[y].first) = x.name /\ y.part = x.key.part
    BY <1>3, <2>2, <2>3
  <2> QED
    BY <1>1, <2>1, <2>4 DEF StagingInv
<1>8. CASE ~Collides(row)
  <2>1. PICK new : new = [key |-> k, name |-> ItemName(row),
                          model |-> row.model # Blank /\ Stored("model", ScopeOf(row.vendor), Folded(row.model)) # {}]
    OBVIOUS
  <2>2. PICK name : name = <<row.vendor>>
    OBVIOUS
  <2>3. PICK known : known = Ensured("vendor", NoScope, name, Folded(row.vendor))
    OBVIOUS
  <2>4. PICK made : made = Ensured("catalog_item", ItemScope(k), ItemName(row), k.name)
    OBVIOUS
  <2>5. PICK more : more = {Alias("catalog_item", n, ItemScope(k), k.name, "RECEIPT", catalog[k].called[n], FALSE) :
                              n \in BagToSet(catalog[k].called) \ {Blank}}
    OBVIOUS
  <2>6. items' = items \cup {new} /\ values' = known \cup made /\ aliases' = aliases \cup more /\ phase' = phase
    BY <1>2, <1>3, <1>8, <2>1, <2>2, <2>3, <2>4, <2>5
  <2>7. name[1] = row.vendor
    BY <2>2
  <2>8. ValuesOK(known) /\ values \subseteq known /\ \A v \in known : v \in values \/ v.domain = "vendor"
    BY <2>3, <2>7, EnsuredKeeps DEF StagingInv
  <2>9. ValuesOK(made) /\ values \subseteq made /\ \A v \in made : v \in values \/ v.domain = "catalog_item"
    BY <2>4, EnsuredKeeps DEF StagingInv
  <2>10. PICK vs : vs = known \cup made
    OBVIOUS
  <2>11. ValuesOK(vs) /\ values \subseteq vs
    <3>1. Grown(values, known, "vendor") /\ Grown(values, made, "catalog_item")
      BY <2>8, <2>9 DEF Grown
    <3>2. ValuesOK(known \cup made)
      BY <3>1, BothEnsured DEF StagingInv
    <3> QED
      BY <3>2, <2>8, <2>10
  <2>12. PICK as : as = aliases \cup more
    OBVIOUS
  <2>13. AliasesOK(as, vs)
    <3>1. \A a \in more : a.approved = FALSE
      BY <2>5 DEF Alias
    <3>2. \A a \in more : AliasOK(a, vs)
      BY <3>1 DEF AliasOK
    <3>3. AliasesOK(aliases, vs)
      BY <2>11, MoreValues DEF StagingInv, AliasesOK
    <3> QED
      BY <3>2, <3>3, <2>12 DEF AliasesOK
  <2>14. \A s, q : Entered(aliases, values, s, q) => Entered(as, vs, s, q)
    BY <2>11, <2>12, MoreValues, MoreAliases
  <2>15. \A i \in DOMAIN staged : ModelOK(staged[i], DOMAIN usage, as, vs)
    BY <1>1, <2>11, <2>13, <2>14, NamesGrow
  <2>16. new.key = k /\ new.model = (row.model # Blank)
    <3>1. new.key = k /\ new.model = (row.model # Blank /\ Stored("model", Folded(row.vendor), Folded(row.model)) # {})
      BY <2>1 DEF ScopeOf
    <3>2. row.model # Blank => WithModel(staged[j])
      BY <1>5, <1>6 DEF WithModel
    <3>3. row.model # Blank => Entered(aliases, values, Folded(row.vendor), Folded(row.model))
      BY <1>1, <1>6, <3>2 DEF StagingInv, ModelOK
    <3>4. row.model # Blank => Stored("model", Folded(row.vendor), Folded(row.model)) # {}
      BY <3>3 DEF Entered, HasValue, Stored
    <3> QED
      BY <3>1, <3>4
  <2>17. \A i \in items' : ItemOK(i, catalog)
    BY <1>3, <2>6, <2>16 DEF StagingInv, ItemOK
  <2>18. \A i, q \in items' : i.key = q.key => i = q
    BY <2>6, <2>16 DEF StagingInv
  <2>19. values' = vs /\ aliases' = as /\ phase' = "catalog"
    BY <1>1, <2>6, <2>10, <2>12
  <2> QED
    BY <1>1, <2>11, <2>13, <2>15, <2>17, <2>18, <2>19 DEF StagingInv
<1> QED
  BY <1>7, <1>8

LEMMA NextStagingInv == StagingInv /\ [NextStaging]_stagingVars => StagingInv'
<1> SUFFICES ASSUME StagingInv, [NextStaging]_stagingVars PROVE StagingInv'
  OBVIOUS
<1>1. CASE NextStaging
  BY <1>1, ReviewKeeps, PhaseKeeps, CheckKeeps, StageKeeps, ModelKeeps, ItemKeeps DEF NextStaging
<1>2. CASE UNCHANGED stagingVars
  BY <1>2 DEF stagingVars, StagingInv
<1> QED
  BY <1>1, <1>2

-----------------------------------------------------------------------------
(* Staging: what the later stages read. *)

LEMMA NamesFacts ==
  ASSUME StagingInv, NEW domain, NEW scope, NEW key
  PROVE  /\ \A n \in NamesFor(domain, scope, key) :
              \E v \in values : v.domain = domain /\ v.scope = scope /\ v.key = key /\ v.name = n
         /\ \A n, m \in NamesFor(domain, scope, key) : n = m
         /\ Cardinality(NamesFor(domain, scope, key)) <= 1
         /\ Entered(aliases, values, scope, key) /\ domain = "model" => NamesFor(domain, scope, key) # {}
<1> DEFINE S == NamesFor(domain, scope, key)
<1>1. ASSUME NEW n \in S
      PROVE  \E v \in values : v.domain = domain /\ v.scope = scope /\ v.key = key /\ v.name = n
  <2>1. PICK u \in values :
          /\ u.name = n
          /\ \E a \in aliases : /\ a.approved /\ a.domain = domain /\ Folded(a.text) = key
                                /\ u.domain = domain /\ u.scope = scope
                                /\ <<a.domain, a.scope, a.key>> = <<u.domain, u.scope, u.key>>
    BY <1>1 DEF NamesFor
  <2>2. PICK a \in aliases : /\ a.approved /\ a.domain = domain /\ Folded(a.text) = key
                             /\ u.domain = domain /\ u.scope = scope
                             /\ <<a.domain, a.scope, a.key>> = <<u.domain, u.scope, u.key>>
    BY <2>1
  <2>3. Folded(a.text) = a.key
    BY <2>2 DEF StagingInv, AliasesOK, AliasOK
  <2>4. a.key = u.key
    BY <2>2
  <2> QED
    BY <2>1, <2>2, <2>3, <2>4
<1>2. \A n, m \in S : n = m
  <2>1. ValuesOK(values)
    BY DEF StagingInv
  <2> HIDE DEF S
  <2> QED
    BY <1>1, <2>1 DEF ValuesOK, SameKey
<1>3. Cardinality(S) <= 1
  <2>1. S = {} \/ \E n : S = {n}
    BY <1>2
  <2> HIDE DEF S
  <2>2. S = {} => Cardinality(S) = 0
    BY FS_EmptySet
  <2>3. \A n : S = {n} => Cardinality(S) = 1
    BY FS_Singleton
  <2> QED
    BY <2>1, <2>2, <2>3
<1>4. Entered(aliases, values, scope, key) /\ domain = "model" => S # {}
  <2> SUFFICES ASSUME Entered(aliases, values, scope, key), domain = "model" PROVE S # {}
    OBVIOUS
  <2>1. PICK a \in aliases : a.approved /\ a.domain = "model" /\ a.scope = scope /\ a.key = key
    BY DEF Entered
  <2>2. PICK u \in values : u.domain = "model" /\ u.scope = scope /\ u.key = key
    BY DEF Entered, HasValue
  <2>3. Folded(a.text) = key
    BY <2>1 DEF StagingInv, AliasesOK, AliasOK
  <2>4. u.name \in S
    BY <2>1, <2>2, <2>3 DEF NamesFor
  <2> QED
    BY <2>4
<1> QED
  BY <1>1, <1>2, <1>3, <1>4

LEMMA FoldedSame ==
  ASSUME NEW a, NEW b
  PROVE  Folded(a) = Folded(b) <=> Fold[a] = Fold[b]
BY DEF Folded

\* What is read for a vendor or a model is spelled like it.
LEMMA ApprovedIsSpelledAlike ==
  ASSUME StagingInv, NEW domain \in {"vendor", "model"}, NEW scope, NEW text
  PROVE  Folded(Approved(domain, scope, text)) = Folded(text)
<1> DEFINE names == NamesFor(domain, scope, Folded(text))
<1>1. CASE names = {}
  BY <1>1 DEF Approved
<1>2. CASE names # {}
  <2>1. PICK n : n = CHOOSE x \in names : TRUE
    OBVIOUS
  <2>2. n \in names
    BY <1>2, <2>1
  <2>3. PICK v \in values : v.domain = domain /\ v.key = Folded(text) /\ v.name = n
    BY <2>2, NamesFacts
  <2>4. Folded(n[1]) = Folded(text)
    BY <2>3 DEF StagingInv, ValuesOK
  <2>5. Approved(domain, scope, text) = n[1]
    BY <1>2, <2>1 DEF Approved
  <2> QED
    BY <2>4, <2>5
<1> QED
  BY <1>1, <1>2

LEMMA ScopeIsTheVendor ==
  ASSUME StagingInv, NEW row
  PROVE  BuiltScope(row) = Folded(row.vendor)
BY ApprovedIsSpelledAlike DEF BuiltScope, BuiltVendor

LEMMA NamesStayApart == StagingInv => StagingKeepsNamesApart
<1> SUFFICES ASSUME StagingInv PROVE StagingKeepsNamesApart
  OBVIOUS
<1>1. phase = "failed" =>
       \E i \in items, k \in DOMAIN catalog :
         k # i.key /\ ItemName(catalog[k].first) = i.name /\ k.part = i.key.part
  BY DEF StagingInv
<1>2. \A v \in values : Cardinality(NamesFor(v.domain, v.scope, v.key)) <= 1
  BY NamesFacts
<1>3. ASSUME phase = "valid", NEW i \in Modelled
      PROVE  /\ Entered(aliases, values, Folded(staged[i].row.vendor), Folded(staged[i].row.model))
             /\ NamesFor("model", BuiltScope(staged[i].row), Folded(staged[i].row.model)) # {}
  <2>1. i \in DOMAIN staged /\ WithModel(staged[i])
    BY DEF Modelled, WithModel
  <2>2. ModelOK(staged[i], {}, aliases, values)
    BY <1>3, <2>1 DEF StagingInv
  <2>3. Entered(aliases, values, Folded(staged[i].row.vendor), Folded(staged[i].row.model))
    BY <2>1, <2>2 DEF ModelOK
  <2>4. BuiltScope(staged[i].row) = Folded(staged[i].row.vendor)
    BY ScopeIsTheVendor
  <2> QED
    BY <2>3, <2>4, NamesFacts
<1>4. ASSUME phase = "valid", NEW i \in Modelled, NEW j \in Modelled
      PROVE  LET a == staged[i].row
                 b == staged[j].row
             IN  (BuiltScope(a) = BuiltScope(b) /\ BuiltModel(a) = BuiltModel(b)) <=>
                   (Fold[a.vendor] = Fold[b.vendor] /\ Fold[a.model] = Fold[b.model])
  <2>1. PICK a : a = staged[i].row
    OBVIOUS
  <2>2. PICK b : b = staged[j].row
    OBVIOUS
  <2>3. BuiltScope(a) = Folded(a.vendor) /\ BuiltScope(b) = Folded(b.vendor)
    BY ScopeIsTheVendor
  <2>4. Folded(BuiltModel(a)) = Folded(a.model) /\ Folded(BuiltModel(b)) = Folded(b.model)
    BY ApprovedIsSpelledAlike DEF BuiltModel
  <2>5. (BuiltScope(a) = BuiltScope(b) /\ BuiltModel(a) = BuiltModel(b)) =>
          (Fold[a.vendor] = Fold[b.vendor] /\ Fold[a.model] = Fold[b.model])
    <3> SUFFICES ASSUME BuiltScope(a) = BuiltScope(b), BuiltModel(a) = BuiltModel(b)
                 PROVE  Fold[a.vendor] = Fold[b.vendor] /\ Fold[a.model] = Fold[b.model]
      OBVIOUS
    <3>1. PICK m : m = BuiltModel(a) /\ m = BuiltModel(b)
      OBVIOUS
    <3>2. Folded(m) = Folded(a.model) /\ Folded(m) = Folded(b.model)
      BY <2>4, <3>1, Zenon
    <3>3. Folded(a.vendor) = Folded(b.vendor)
      BY <2>3
    <3> QED
      BY <3>2, <3>3 DEF Folded
  <2>6. ASSUME Fold[a.vendor] = Fold[b.vendor], Fold[a.model] = Fold[b.model]
        PROVE  BuiltScope(a) = BuiltScope(b) /\ BuiltModel(a) = BuiltModel(b)
    <3>1. BuiltScope(a) = BuiltScope(b)
      BY <2>3, <2>6, FoldedSame
    <3>2. PICK scope : scope = BuiltScope(a) /\ scope = BuiltScope(b)
      BY <3>1
    <3>3. PICK key : key = Folded(a.model) /\ key = Folded(b.model)
      BY <2>6, FoldedSame
    <3>4. NamesFor("model", scope, key) # {}
      <4>1. NamesFor("model", BuiltScope(staged[i].row), Folded(staged[i].row.model)) # {}
        BY <1>3, <1>4
      <4>2. PICK row : row = staged[i].row
        OBVIOUS
      <4>3. scope = BuiltScope(row) /\ key = Folded(row.model)
        BY <2>1, <3>2, <3>3, <4>2
      <4>4. NamesFor("model", BuiltScope(row), Folded(row.model)) # {}
        BY <4>1, <4>2, Zenon
      <4> QED
        BY <4>3, <4>4, Zenon
    <3>5. BuiltModel(a) = (CHOOSE n \in NamesFor("model", scope, key) : TRUE)[1]
            /\ BuiltModel(b) = (CHOOSE n \in NamesFor("model", scope, key) : TRUE)[1]
      BY <3>2, <3>3, <3>4 DEF BuiltModel, Approved
    <3> QED
      BY <3>1, <3>5
  <2> QED
    BY <2>1, <2>2, <2>5, <2>6
<1>5. ASSUME phase = "valid", NEW i \in DOMAIN staged, staged[i].key # None
      PROVE  \E item \in items :
               /\ {x \in items : x.key = staged[i].key} = {item}
               /\ item.model = (staged[i].row.model # Blank)
  <2>1. PICK k : k = staged[i].key
    OBVIOUS
  <2>2. k \in DOMAIN catalog /\ DOMAIN catalog = {x.key : x \in items}
    BY <1>5, <2>1 DEF StagingInv
  <2>3. PICK item \in items : item.key = k
    BY <2>2
  <2>4. {x \in items : x.key = k} = {item}
    BY <2>3 DEF StagingInv
  <2>5. PICK row : row = staged[i].row
    OBVIOUS
  <2>6. PICK first : first = catalog[k].first
    OBVIOUS
  <2>7. item.model = (first.model # Blank)
    BY <2>3, <2>6 DEF StagingInv, ItemOK
  <2>8. PICK s \in Sheets, r \in SheetRows : staged[i] = StagedRow(s, r)
    BY DEF StagingInv, StagedRows
  <2>9. r = row /\ staged[i].sheet = s /\ k = IF Proposes(s, r) THEN ItemKey(r) ELSE None
    BY <2>1, <2>5, <2>8 DEF StagedRow
  <2>10. s = "RECEIPT" /\ k = ItemKey(row)
    BY <1>5, <2>1, <2>9 DEF Proposes
  <2>11. Spelled(row)
    BY <2>5, <2>9, <2>10 DEF StagingInv, StagedOK
  <2>12. ProposalOK(k, catalog, staged)
    BY <2>2 DEF StagingInv
  <2>13. k = ItemKey(first) /\ Spelled(first)
    BY <2>6, <2>12 DEF ProposalOK, StagingInv, StagedOK
  <2>14. k.model = Fold[row.model] /\ k.model = Fold[first.model]
    BY <2>10, <2>13 DEF ItemKey
  <2>15. row.model # Blank <=> first.model # Blank
    BY <2>11, <2>13, <2>14, SpellingsAreFolded DEF Spelled
  <2> QED
    BY <2>1, <2>3, <2>4, <2>5, <2>7, <2>15
<1> QED
  BY <1>1, <1>2, <1>3, <1>4, <1>5 DEF StagingKeepsNamesApart

\* For any workbook and any dictionary of spellings: a candidate that passes its validation
\* names vendors, models and items for the later stages as the sheets do, and nothing but
\* two proposals of one item name and part number stops the staging.
THEOREM StagingNamesApart == InitStaging /\ [][NextStaging]_stagingVars => []StagingKeepsNamesApart
<1>1. StagingInv => StagingKeepsNamesApart
  BY NamesStayApart
<1> QED
  BY <1>1, InitStagingInv, NextStagingInv, PTL

-----------------------------------------------------------------------------
(* The book: the same operators, of a book that is named. *)

GroupIn(b, key) ==
  {r \in DOMAIN b["RECEIPT"] :
     Serialized("RECEIPT", b["RECEIPT"][r]) /\ KeyOf(b["RECEIPT"][r].cell) = key}

LatestIn(b, group) ==
  CHOOSE r \in group : \A s \in group :
    \/ b["RECEIPT"][s].date < b["RECEIPT"][r].date
    \/ b["RECEIPT"][s].date = b["RECEIPT"][r].date /\ s <= r

DisagreeIn(b, group) ==
  \/ \E f \in Fields : Cardinality({b["RECEIPT"][r].attrs[f] : r \in group} \ {Blank}) > 1
  \/ Cardinality({b["RECEIPT"][r].cell.value : r \in group}) > 1

StatusIn(b, r, group) ==
  LET row == b["RECEIPT"][r]
      current == b["RECEIPT"][LatestIn(b, group)]
      differs == row.attrs # current.attrs \/ row.cell.value # current.cell.value
  IN  CASE r = LatestIn(b, group) -> Receipted(row.cell)
        [] r # LatestIn(b, group) /\ row = current -> "EXACT_DUPLICATE"
        [] row # current /\ DisagreeIn(b, group) /\ differs -> "CONFLICT_HISTORY_ONLY"
        [] OTHER -> "LINKED_TO_EXISTING_IDENTITY"

LEMMA OfTheBook ==
  /\ \A key : Group(key) = GroupIn(book, key)
  /\ \A g : CurrentRow(g) = LatestIn(book, g)
  /\ \A g : Disagree(g) = DisagreeIn(book, g)
  /\ \A r, g : GroupStatus(r, g) = StatusIn(book, r, g)
<1>1. \A key : Group(key) = GroupIn(book, key)
  BY DEF Group, GroupIn, Rows
<1>2. \A g : CurrentRow(g) = LatestIn(book, g)
  BY DEF CurrentRow, LatestIn
<1>3. \A g : Disagree(g) = DisagreeIn(book, g)
  BY DEF Disagree, DisagreeIn
<1>4. ASSUME NEW r, NEW g PROVE GroupStatus(r, g) = StatusIn(book, r, g)
  BY <1>2, <1>3 DEF GroupStatus, StatusIn
<1> QED
  BY <1>1, <1>2, <1>3, <1>4

IsBook(b) ==
  /\ b["RECEIPT"] \in Seq(Range(b["RECEIPT"])) /\ b["ISSUE"] \in Seq(Range(b["ISSUE"]))
  /\ \A r \in DOMAIN b["RECEIPT"] : b["RECEIPT"][r].date \in Nat

LEMMA BookFacts ==
  ASSUME NEW b, IsBook(b), NEW s \in Sheets
  PROVE  /\ Len(b[s]) \in Nat /\ DOMAIN b[s] = 1 .. Len(b[s])
         /\ IsFiniteSet(DOMAIN b[s]) /\ Cardinality(DOMAIN b[s]) = Len(b[s])
         /\ DOMAIN b[s] \subseteq Nat
<1>1. b[s] \in Seq(Range(b[s]))
  BY DEF IsBook, Sheets
<1>2. Len(b[s]) \in Nat /\ DOMAIN b[s] = 1 .. Len(b[s])
  BY <1>1
<1> QED
  BY <1>2, FS_Interval

-----------------------------------------------------------------------------
(* The current row of a group. *)

LEMMA Smallest ==
  ASSUME NEW S \in SUBSET Nat, S # {}
  PROVE  \E n \in S : \A m \in S : n <= m
<1>1. \E n \in S : \A m \in S : ~ (<<m, n>> \in OpToRel(<, Nat))
  BY NatLessThanWellFounded, WFMin
<1>2. PICK n \in S : \A m \in S : ~ (m < n)
  BY <1>1 DEF OpToRel
<1> QED
  BY <1>2

Above(b, r, s) ==
  \/ b["RECEIPT"][r].date < b["RECEIPT"][s].date
  \/ b["RECEIPT"][r].date = b["RECEIPT"][s].date /\ r < s

LEMMA LatestExists ==
  ASSUME NEW b, IsBook(b), NEW g \in SUBSET DOMAIN b["RECEIPT"], g # {}
  PROVE  /\ LatestIn(b, g) \in g
         /\ \A s \in g : b["RECEIPT"][s].date <= b["RECEIPT"][LatestIn(b, g)].date
<1> DEFINE over(r) == {s \in g : Above(b, r, s)}
<1>1. IsFiniteSet(g) /\ g \subseteq Nat
  BY BookFacts, FS_Subset DEF Sheets
<1>2. \A r \in g : b["RECEIPT"][r].date \in Nat /\ r \in Nat
  BY <1>1 DEF IsBook
<1>3. \A r \in g : IsFiniteSet(over(r)) /\ Cardinality(over(r)) \in Nat
  BY <1>1, FS_Subset, FS_CardinalityType
<1>4. PICK r \in g : \A s \in g : Cardinality(over(r)) <= Cardinality(over(s))
  <2> DEFINE S == {Cardinality(over(r)) : r \in g}
  <2>1. S \in SUBSET Nat /\ S # {}
    BY <1>3
  <2> HIDE DEF S
  <2>2. PICK n \in S : \A m \in S : n <= m
    BY <2>1, Smallest
  <2> QED
    BY <2>2 DEF S
<1>5. ASSUME NEW s \in g PROVE ~Above(b, r, s)
  <2> SUFFICES ASSUME Above(b, r, s) PROVE FALSE
    OBVIOUS
  <2>1. over(s) \subseteq over(r) \ {s}
    BY <1>2, <1>5 DEF Above
  <2>2. s \in over(r)
    BY <1>5
  <2>3. Cardinality(over(s)) <= Cardinality(over(r) \ {s})
    BY <2>1, <1>3, FS_Subset, FS_RemoveElement
  <2>4. Cardinality(over(r) \ {s}) = Cardinality(over(r)) - 1
    BY <2>2, <1>3, FS_RemoveElement
  <2>5. Cardinality(over(r)) <= Cardinality(over(s)) /\ Cardinality(over(s)) \in Nat /\ Cardinality(over(r)) \in Nat
    BY <1>3, <1>4
  <2> HIDE DEF over
  <2> QED
    BY <2>3, <2>4, <2>5
<1>6. \A s \in g : \/ b["RECEIPT"][s].date < b["RECEIPT"][r].date
                   \/ b["RECEIPT"][s].date = b["RECEIPT"][r].date /\ s <= r
  BY <1>2, <1>5 DEF Above
<1>7. /\ LatestIn(b, g) \in g
      /\ \A s \in g : \/ b["RECEIPT"][s].date < b["RECEIPT"][LatestIn(b, g)].date
                      \/ b["RECEIPT"][s].date = b["RECEIPT"][LatestIn(b, g)].date /\ s <= LatestIn(b, g)
  BY <1>6 DEF LatestIn
<1> QED
  BY <1>2, <1>7

-----------------------------------------------------------------------------
(* What becomes of a row. *)

ImportedStatuses == {"IMPORTED", "NUMERIC_PROVISIONAL_IMPORTED"}
IssuedStatuses == {"IMPORTED", "OPENING_STATE_CREATED", "NUMERIC_PROVISIONAL_LINKED"}

LEMMA StatusFacts ==
  ASSUME NEW b, NEW r, NEW g, NEW status, status = StatusIn(b, r, g)
  PROVE  /\ status \in ImportedStatuses \cup
              {"EXACT_DUPLICATE", "CONFLICT_HISTORY_ONLY", "LINKED_TO_EXISTING_IDENTITY"}
         /\ status \in ImportedStatuses <=> r = LatestIn(b, g)
         /\ status = "EXACT_DUPLICATE" => b["RECEIPT"][r] = b["RECEIPT"][LatestIn(b, g)]
         /\ status = "LINKED_TO_EXISTING_IDENTITY" =>
              \/ ~DisagreeIn(b, g)
              \/ /\ b["RECEIPT"][r].attrs = b["RECEIPT"][LatestIn(b, g)].attrs
                 /\ b["RECEIPT"][r].cell.value = b["RECEIPT"][LatestIn(b, g)].cell.value
              \/ b["RECEIPT"][r] = b["RECEIPT"][LatestIn(b, g)]
<1>1. PICK row : row = b["RECEIPT"][r]
  OBVIOUS
<1>2. PICK latest : latest = LatestIn(b, g)
  OBVIOUS
<1>3. PICK current : current = b["RECEIPT"][latest]
  OBVIOUS
<1>4. PICK rc : rc = Receipted(row.cell)
  OBVIOUS
<1>5. rc \in ImportedStatuses
  BY <1>4 DEF Receipted, ImportedStatuses
<1>6. PICK dis \in BOOLEAN : dis <=> DisagreeIn(b, g)
  OBVIOUS
<1>7. PICK differs \in BOOLEAN : differs <=> (row.attrs # current.attrs \/ row.cell.value # current.cell.value)
  OBVIOUS
<1>8. r = latest => row = current
  BY <1>1, <1>3
<1>9. status = CASE r = latest -> rc
        [] r # latest /\ row = current -> "EXACT_DUPLICATE"
        [] row # current /\ dis /\ differs -> "CONFLICT_HISTORY_ONLY"
        [] OTHER -> "LINKED_TO_EXISTING_IDENTITY"
  BY <1>1, <1>2, <1>3, <1>4, <1>6, <1>7 DEF StatusIn
<1>10. /\ r = latest => status = rc
       /\ r # latest => status \in {"EXACT_DUPLICATE", "CONFLICT_HISTORY_ONLY", "LINKED_TO_EXISTING_IDENTITY"}
       /\ status = "EXACT_DUPLICATE" => row = current
       /\ status = "LINKED_TO_EXISTING_IDENTITY" => ~dis \/ ~differs \/ row = current
  BY ONLY <1>5, <1>8, <1>9 DEF ImportedStatuses
<1> QED
  BY <1>1, <1>2, <1>3, <1>5, <1>6, <1>7, <1>10 DEF ImportedStatuses

LEMMA DeferralFacts ==
  ASSUME NEW s, NEW row, NEW e, e = Deferral(s, row)
  PROVE  /\ e.card = None /\ e.issue = None
         /\ e.status \in Statuses \ (ImportedStatuses \cup IssuedStatuses \cup
              {"EXACT_DUPLICATE", "CONFLICT_HISTORY_ONLY", "LINKED_TO_EXISTING_IDENTITY"})
         /\ \/ e.quarantined /\ e.status \notin {"UNRESOLVED_ISSUE", "QUANTITY_DEFERRED"}
            \/ ~e.quarantined /\ e.status = "QUANTITY_DEFERRED"
            \/ ~e.quarantined /\ e.status = "UNRESOLVED_ISSUE" /\ s # "RECEIPT"
<1>1. \/ e \in {Isolated("SOURCE_CORRUPTED_REJECTED"), Isolated("QUARANTINED"),
               Entry("QUANTITY_DEFERRED", None, None)}
      \/ e = Entry("UNRESOLVED_ISSUE", None, None) /\ s # "RECEIPT"
  BY DEF Deferral
<1> QED
  BY <1>1 DEF Isolated, Entry, Statuses, ImportedStatuses, IssuedStatuses

-----------------------------------------------------------------------------
(* What is written of a book. *)

IsList(s) == s \in Seq(Range(s))

\* A card stands for the rows of its key; it shows the current one, or the issue it was
\* opened for.
CardOK(b, c) ==
  LET s == IF c.receipt.opening THEN "ISSUE" ELSE "RECEIPT"
      row == b[s][c.current]
  IN  /\ c.receipt.opening \in BOOLEAN /\ c.current \in DOMAIN b[s]
      /\ Serialized(s, row) /\ c.key = KeyOf(row.cell) /\ c.receipt.serial = Shown(row.cell)
      /\ ~c.receipt.opening => c.current = LatestIn(b, GroupIn(b, c.key))
CardsOK(b, cs) ==
  /\ IsList(cs)
  /\ \A c \in DOMAIN cs : CardOK(b, cs[c])
  /\ \A c, d \in DOMAIN cs : cs[c].key = cs[d].key => c = d

ReceiptOK(b, cs, e, r) ==
  LET row == b["RECEIPT"][r]
  IN  \/ e = Unread
      \/ ~Serialized("RECEIPT", row) /\ e = Deferral("RECEIPT", row)
      \/ /\ Serialized("RECEIPT", row)
         /\ e.card \in DOMAIN cs /\ cs[e.card].key = KeyOf(row.cell) /\ ~cs[e.card].receipt.opening
         /\ e = Entry(StatusIn(b, r, GroupIn(b, KeyOf(row.cell))), e.card, None)
ReceiptsOK(b, cs, L) ==
  /\ DOMAIN L = DOMAIN b["RECEIPT"]
  /\ \A r \in DOMAIN L : ReceiptOK(b, cs, L[r], r)
  /\ \A c \in DOMAIN cs : ~cs[c].receipt.opening => \A r \in GroupIn(b, cs[c].key) : L[r].card = c

IsIssued(is, c) == \E i \in DOMAIN is : is[i].card = c

IssueRowOK(b, cs, is, e, r) ==
  LET row == b["ISSUE"][r]
  IN  \/ e = Unread
      \/ ~Serialized("ISSUE", row) /\ e = Deferral("ISSUE", row)
      \/ /\ Serialized("ISSUE", row)
         /\ e.card \in DOMAIN cs /\ cs[e.card].key = KeyOf(row.cell) /\ IsIssued(is, e.card)
         /\ e = Entry(e.status, e.card, e.issue)
         /\ \/ e.status \in {"EXACT_DUPLICATE", "CONFLICT_HISTORY_ONLY"} /\ e.issue = None
            \/ e.status \in IssuedStatuses /\ e.issue \in DOMAIN is /\ is[e.issue] = Issue(e.card, r)
\* A row that is dropped has an equal one that is not.
Repeats(b, M, r) ==
  \E o \in DOMAIN M : /\ b["ISSUE"][o] = b["ISSUE"][r] /\ M[o].card = M[r].card
                      /\ M[o].status # "EXACT_DUPLICATE"
IssuesOK(b, cs, is, M, rel) ==
  /\ IsList(is) /\ DOMAIN M = DOMAIN b["ISSUE"]
  /\ \A r \in DOMAIN M : IssueRowOK(b, cs, is, M[r], r)
  /\ \A r \in DOMAIN M : M[r].status = "EXACT_DUPLICATE" => Repeats(b, M, r)
  /\ \A i \in DOMAIN is : is[i].row \in DOMAIN M /\ M[is[i].row].issue = i
  /\ \A i, j \in DOMAIN is : is[i].card = is[j].card => i = j
  /\ \A c \in DOMAIN cs : cs[c].receipt.opening => IsIssued(is, c)
  /\ \A x \in rel : x.row \in DOMAIN M /\ M[x.row].card = x.card /\ M[x.row].issue # None

\* Issues are read after the receipts.
InTurn(cs, L, M) ==
  \/ \A r \in DOMAIN L : L[r].status # "UNREAD"
  \/ /\ \A c \in DOMAIN cs : ~cs[c].receipt.opening
     /\ \A r \in DOMAIN M : M[r].status = "UNREAD"

BookOK(b, cs, is, L, M, rel) ==
  IsBook(b) /\ CardsOK(b, cs) /\ ReceiptsOK(b, cs, L) /\ IssuesOK(b, cs, is, M, rel) /\ InTurn(cs, L, M)

-----------------------------------------------------------------------------
(* Lists that grow. *)

GrownBy(s, x, t, n) ==
  /\ IsList(t) /\ n = Len(s) + 1 /\ n \in Nat /\ DOMAIN s = 1 .. Len(s)
  /\ Len(t) = n /\ DOMAIN t = DOMAIN s \cup {n} /\ n \notin DOMAIN s
  /\ t[n] = x /\ \A i \in DOMAIN s : t[i] = s[i]

LEMMA Grows ==
  ASSUME NEW s, IsList(s), NEW x, NEW t, t = Append(s, x), NEW n, n = Len(s) + 1
  PROVE  GrownBy(s, x, t, n)
<1>1. s \in Seq(Range(s))
  BY DEF IsList
<1>2. t \in Seq(Range(s) \cup {x})
  <2>1. s \in Seq(Range(s) \cup {x})
    <3>1. Range(s) \subseteq Range(s) \cup {x}
      OBVIOUS
    <3> QED
      BY <1>1, <3>1
  <2> QED
    BY <2>1
<1>3. /\ Len(s) \in Nat /\ DOMAIN s = 1 .. Len(s) /\ Len(t) = Len(s) + 1
      /\ t[Len(s) + 1] = x /\ \A i \in DOMAIN s : t[i] = s[i]
  BY <1>1
<1>4. DOMAIN t = 1 .. Len(t) /\ Len(t) \in Nat
  BY <1>2
<1>5. t \in Seq(Range(t))
  BY <1>2, <1>4 DEF Range
<1> QED
  BY <1>3, <1>4, <1>5 DEF GrownBy, IsList

-----------------------------------------------------------------------------
(* Entries. *)

LEMMA ReceiptFacts ==
  ASSUME NEW b, NEW cs, NEW e, NEW r, ReceiptOK(b, cs, e, r), IsList(cs)
  PROVE  /\ e.status \in Statuses \cup {"UNREAD"} /\ (e.status = "UNREAD" <=> e = Unread)
         /\ e.issue = None
         /\ e.card # None <=> e.card \in DOMAIN cs
         /\ e.card # None => Serialized("RECEIPT", b["RECEIPT"][r])
         /\ Serialized("RECEIPT", b["RECEIPT"][r]) => e = Unread \/ e.card # None
<1>1. \A c \in DOMAIN cs : c # None
  BY BooksAreSheets DEF IsList
<1>2. CASE e = Unread
  BY <1>1, <1>2 DEF Unread, Statuses
<1>3. CASE ~Serialized("RECEIPT", b["RECEIPT"][r]) /\ e = Deferral("RECEIPT", b["RECEIPT"][r])
  <2>1. e.status # "UNREAD" /\ e.status \in Statuses /\ e.card = None /\ e.issue = None
    BY <1>3, DeferralFacts DEF Statuses
  <2> QED
    BY <1>1, <1>3, <2>1 DEF Unread
<1>4. CASE /\ Serialized("RECEIPT", b["RECEIPT"][r]) /\ e.card \in DOMAIN cs
           /\ e = Entry(StatusIn(b, r, GroupIn(b, KeyOf(b["RECEIPT"][r].cell))), e.card, None)
  <2>1. PICK st : st = StatusIn(b, r, GroupIn(b, KeyOf(b["RECEIPT"][r].cell)))
    OBVIOUS
  <2>2. st \in Statuses /\ st # "UNREAD"
    BY <2>1, StatusFacts DEF Statuses, ImportedStatuses
  <2>3. e.status = st /\ e.issue = None
    BY <1>4, <2>1 DEF Entry
  <2> QED
    BY <1>1, <1>4, <2>2, <2>3 DEF Unread
<1> QED
  BY <1>2, <1>3, <1>4 DEF ReceiptOK

LEMMA IssueFacts ==
  ASSUME NEW b, NEW cs, NEW is, NEW e, NEW r, IssueRowOK(b, cs, is, e, r),
         IsList(cs), IsList(is)
  PROVE  /\ e.status \in Statuses \cup {"UNREAD"} /\ (e.status = "UNREAD" <=> e = Unread)
         /\ e.card # None <=> e.card \in DOMAIN cs
         /\ e.issue # None <=> e.issue \in DOMAIN is
         /\ e.issue # None => e.card # None /\ e.status \in IssuedStatuses /\ is[e.issue] = Issue(e.card, r)
         /\ e.card # None => Serialized("ISSUE", b["ISSUE"][r]) /\ IsIssued(is, e.card)
         /\ e.card # None /\ e.issue = None => e.status \in {"EXACT_DUPLICATE", "CONFLICT_HISTORY_ONLY"}
         /\ Serialized("ISSUE", b["ISSUE"][r]) => e = Unread \/ e.card # None
<1>1. (\A c \in DOMAIN cs : c # None) /\ \A i \in DOMAIN is : i # None
  BY BooksAreSheets DEF IsList
<1>2. CASE e = Unread
  BY <1>1, <1>2 DEF Unread, Statuses
<1>3. CASE ~Serialized("ISSUE", b["ISSUE"][r]) /\ e = Deferral("ISSUE", b["ISSUE"][r])
  <2>1. e.status # "UNREAD" /\ e.status \in Statuses /\ e.card = None /\ e.issue = None
    BY <1>3, DeferralFacts DEF Statuses
  <2> QED
    BY <1>1, <1>3, <2>1 DEF Unread
<1>4. CASE /\ Serialized("ISSUE", b["ISSUE"][r])
           /\ e.card \in DOMAIN cs /\ IsIssued(is, e.card)
           /\ \/ e.status \in {"EXACT_DUPLICATE", "CONFLICT_HISTORY_ONLY"} /\ e.issue = None
              \/ e.status \in IssuedStatuses /\ e.issue \in DOMAIN is /\ is[e.issue] = Issue(e.card, r)
  BY <1>1, <1>4 DEF Unread, Statuses, IssuedStatuses
<1> QED
  BY <1>2, <1>3, <1>4 DEF IssueRowOK

-----------------------------------------------------------------------------
(* Steps of the build. *)

Over(led, new) == [r \in DOMAIN led |-> IF r \in DOMAIN new THEN new[r] ELSE led[r]]

AreUnread(led, S) == S \subseteq DOMAIN led /\ \A r \in S : led[r].status = "UNREAD"

TallyOK(led, t) ==
  \A c \in Statuses : t[c] = Cardinality({r \in DOMAIN led : led[r].status = c})

LEMMA TallyKeeps ==
  ASSUME NEW led, NEW t, NEW new, NEW t2, IsFiniteSet(DOMAIN led),
         TallyOK(led, t), AreUnread(led, DOMAIN new),
         t2 = [c \in Statuses |-> t[c] + Cardinality({e \in DOMAIN new : new[e].status = c})]
  PROVE  TallyOK(Over(led, new), t2)
<1> SUFFICES ASSUME NEW c \in Statuses
             PROVE  t2[c] = Cardinality({r \in DOMAIN led : Over(led, new)[r].status = c})
  BY DEF TallyOK, Over
<1> DEFINE old == {r \in DOMAIN led : led[r].status = c}
           more == {e \in DOMAIN new : new[e].status = c}
<1>1. c # "UNREAD"
  BY DEF Statuses
<1>2. {r \in DOMAIN led : Over(led, new)[r].status = c} = old \cup more
  BY <1>1 DEF Over, AreUnread
<1>3. old \cap more = {}
  BY <1>1 DEF AreUnread
<1>4. IsFiniteSet(old) /\ IsFiniteSet(more)
  BY FS_Subset DEF AreUnread
<1>5. t2[c] = Cardinality(old) + Cardinality(more)
  BY DEF TallyOK
<1>6. Cardinality(old \cup more) = Cardinality(old) + Cardinality(more) - Cardinality(old \cap more)
  BY <1>4, FS_Union
<1>7. Cardinality(old \cap more) = 0
  BY <1>3, FS_EmptySet
<1>8. Cardinality(old) \in Nat /\ Cardinality(more) \in Nat
  BY <1>4, FS_CardinalityType
<1>9. Cardinality({r \in DOMAIN led : Over(led, new)[r].status = c}) = Cardinality(old \cup more)
  BY <1>2, Zenon
<1> HIDE DEF old, more
<1> QED
  BY <1>5, <1>6, <1>7, <1>8, <1>9

KeepCards(cs, cs2) ==
  \A c \in DOMAIN cs : c \in DOMAIN cs2 /\ cs2[c].key = cs[c].key /\ cs2[c].receipt = cs[c].receipt
                         /\ cs2[c].current = cs[c].current
KeepIssues(is, is2) == \A i \in DOMAIN is : i \in DOMAIN is2 /\ is2[i] = is[i]

AllStay(b, cs, cs2, is, is2) ==
  /\ \A c \in DOMAIN cs : CardOK(b, cs[c]) => CardOK(b, cs2[c])
  /\ \A e, r : ReceiptOK(b, cs, e, r) => ReceiptOK(b, cs2, e, r)
  /\ \A c : IsIssued(is, c) => IsIssued(is2, c)
  /\ \A e, r : IssueRowOK(b, cs, is, e, r) => IssueRowOK(b, cs2, is2, e, r)

LEMMA RowsStay ==
  ASSUME NEW b, NEW cs, NEW cs2, NEW is, NEW is2, KeepCards(cs, cs2), KeepIssues(is, is2)
  PROVE  AllStay(b, cs, cs2, is, is2)
<1>1. \A c \in DOMAIN cs : CardOK(b, cs[c]) => CardOK(b, cs2[c])
  <2> SUFFICES ASSUME NEW c \in DOMAIN cs, CardOK(b, cs[c]) PROVE CardOK(b, cs2[c])
    OBVIOUS
  <2>1. PICK x : x = cs[c]
    OBVIOUS
  <2>2. PICK y : y = cs2[c]
    OBVIOUS
  <2>3. y.key = x.key /\ y.receipt = x.receipt /\ y.current = x.current /\ CardOK(b, x)
    BY <2>1, <2>2 DEF KeepCards
  <2>4. CardOK(b, y)
    BY <2>3 DEF CardOK
  <2> QED
    BY <2>2, <2>4
<1>2. ASSUME NEW e, NEW r, ReceiptOK(b, cs, e, r) PROVE ReceiptOK(b, cs2, e, r)
  BY <1>2 DEF ReceiptOK, KeepCards
<1>3. ASSUME NEW c, IsIssued(is, c) PROVE IsIssued(is2, c)
  BY <1>3 DEF IsIssued, KeepIssues
<1>4. ASSUME NEW e, NEW r, IssueRowOK(b, cs, is, e, r) PROVE IssueRowOK(b, cs2, is2, e, r)
  <2>1. CASE e = Unread
    BY <2>1 DEF IssueRowOK
  <2>2. CASE ~Serialized("ISSUE", b["ISSUE"][r]) /\ e = Deferral("ISSUE", b["ISSUE"][r])
    BY <2>2 DEF IssueRowOK
  <2>3. CASE ~(e = Unread) /\ ~(~Serialized("ISSUE", b["ISSUE"][r]) /\ e = Deferral("ISSUE", b["ISSUE"][r]))
    <3>1. /\ Serialized("ISSUE", b["ISSUE"][r])
          /\ e.card \in DOMAIN cs /\ cs[e.card].key = KeyOf(b["ISSUE"][r].cell) /\ IsIssued(is, e.card)
          /\ e = Entry(e.status, e.card, e.issue)
          /\ \/ e.status \in {"EXACT_DUPLICATE", "CONFLICT_HISTORY_ONLY"} /\ e.issue = None
             \/ e.status \in IssuedStatuses /\ e.issue \in DOMAIN is /\ is[e.issue] = Issue(e.card, r)
      BY <1>4, <2>3 DEF IssueRowOK
    <3>2. e.card \in DOMAIN cs2 /\ cs2[e.card].key = KeyOf(b["ISSUE"][r].cell) /\ IsIssued(is2, e.card)
      BY <3>1, <1>3 DEF KeepCards
    <3>3. e.issue \in DOMAIN is => e.issue \in DOMAIN is2 /\ is2[e.issue] = is[e.issue]
      BY DEF KeepIssues
    <3> QED
      BY <3>1, <3>2, <3>3 DEF IssueRowOK
  <2> QED
    BY <2>1, <2>2, <2>3
<1> QED
  BY <1>1, <1>2, <1>3, <1>4 DEF AllStay

\* A group of receipts that begins with an unread row is new.
LEMMA GroupIsNew ==
  ASSUME NEW b, NEW cs, NEW is, NEW L, NEW M, NEW rel, BookOK(b, cs, is, L, M, rel),
         NEW r \in DOMAIN L, L[r].status = "UNREAD", Serialized("RECEIPT", b["RECEIPT"][r]),
         NEW key, key = KeyOf(b["RECEIPT"][r].cell), NEW g, g = GroupIn(b, key)
  PROVE  /\ r \in g /\ AreUnread(L, g) /\ \A c \in DOMAIN cs : ~cs[c].receipt.opening /\ cs[c].key # key
<1>1. r \in g /\ g \subseteq DOMAIN L
  BY DEF BookOK, ReceiptsOK, GroupIn
<1>2. \A c \in DOMAIN cs : ~cs[c].receipt.opening
  BY DEF BookOK, InTurn
<1>3. IsList(cs)
  BY DEF BookOK, CardsOK
<1>4. \A x \in DOMAIN L : ReceiptOK(b, cs, L[x], x)
  BY DEF BookOK, ReceiptsOK
<1>5. L[r] = Unread
  BY <1>3, <1>4, ReceiptFacts
<1>6. ASSUME NEW c \in DOMAIN cs, cs[c].key = key PROVE FALSE
  <2>1. L[r].card = c
    BY <1>1, <1>2, <1>6 DEF BookOK, ReceiptsOK
  <2>2. c # None
    BY <1>3, BooksAreSheets DEF IsList
  <2> QED
    BY <1>5, <2>1, <2>2 DEF Unread
<1>7. ASSUME NEW x \in g PROVE L[x].status = "UNREAD"
  <2>1. Serialized("RECEIPT", b["RECEIPT"][x]) /\ KeyOf(b["RECEIPT"][x].cell) = key /\ x \in DOMAIN L
    BY <1>1 DEF GroupIn
  <2>2. ReceiptOK(b, cs, L[x], x)
    BY <1>4, <2>1
  <2>3. L[x].card \notin DOMAIN cs \/ cs[L[x].card].key # key
    BY <1>6
  <2>4. L[x] = Unread
    BY <2>1, <2>2, <2>3 DEF ReceiptOK
  <2> QED
    BY <2>4 DEF Unread
<1> QED
  BY <1>1, <1>2, <1>6, <1>7 DEF AreUnread

GroupEntries(b, g, c) == [x \in g |-> Entry(StatusIn(b, x, g), c, None)]
GroupCard(b, key, current, n) == BuiltCard(key, Receipt(b["RECEIPT"][current].cell, FALSE), current, n)

GroupStep(b, cs, is, L, M, rel, r, key, g, current, n, card, cs2, c, new, L2) ==
  /\ BookOK(b, cs, is, L, M, rel)
  /\ r \in DOMAIN L /\ L[r].status = "UNREAD" /\ Serialized("RECEIPT", b["RECEIPT"][r])
  /\ key = KeyOf(b["RECEIPT"][r].cell) /\ g = GroupIn(b, key) /\ current = LatestIn(b, g)
  /\ card = GroupCard(b, key, current, n) /\ cs2 = Append(cs, card)
  /\ c = Len(cs) + 1 /\ new = GroupEntries(b, g, c) /\ L2 = Over(L, new)

LEMMA GroupKeeps ==
  ASSUME NEW b, NEW cs, NEW is, NEW L, NEW M, NEW rel, NEW r, NEW key, NEW g, NEW current, NEW n,
         NEW card, NEW cs2, NEW c, NEW new, NEW L2,
         GroupStep(b, cs, is, L, M, rel, r, key, g, current, n, card, cs2, c, new, L2)
  PROVE  BookOK(b, cs2, is, L2, M, rel) /\ AreUnread(L, g)
<1>1. /\ BookOK(b, cs, is, L, M, rel)
      /\ r \in DOMAIN L /\ L[r].status = "UNREAD" /\ Serialized("RECEIPT", b["RECEIPT"][r])
      /\ key = KeyOf(b["RECEIPT"][r].cell) /\ g = GroupIn(b, key) /\ current = LatestIn(b, g)
      /\ card = GroupCard(b, key, current, n) /\ cs2 = Append(cs, card)
      /\ c = Len(cs) + 1 /\ new = GroupEntries(b, g, c) /\ L2 = Over(L, new)
  BY DEF GroupStep
<1> USE <1>1
<1>2. r \in g /\ AreUnread(L, g) /\ \A d \in DOMAIN cs : ~cs[d].receipt.opening /\ cs[d].key # key
  BY GroupIsNew
<1>3. c = Len(cs) + 1
  OBVIOUS
<1>4. card = BuiltCard(key, Receipt(b["RECEIPT"][current].cell, FALSE), current, n)
  BY DEF GroupCard
<1>5. IsList(cs) /\ IsList(is) /\ IsBook(b)
  BY DEF BookOK, CardsOK, IssuesOK
<1>6. /\ IsList(cs2) /\ DOMAIN cs2 = DOMAIN cs \cup {c} /\ c \notin DOMAIN cs /\ c \in Nat
      /\ cs2[c] = card /\ \A d \in DOMAIN cs : cs2[d] = cs[d]
  <2>1. cs2 = Append(cs, card)
    BY <1>4, Zenon
  <2>2. GrownBy(cs, card, cs2, c)
    BY ONLY <1>3, <1>5, <2>1, Grows
  <2> QED
    BY <2>2 DEF GrownBy
<1>7. g \subseteq DOMAIN b["RECEIPT"] /\ current \in g
  BY <1>2, <1>5, LatestExists, Zenon DEF GroupIn
<1>8. /\ card.key = key /\ ~card.receipt.opening /\ card.receipt.opening \in BOOLEAN
      /\ card.current = current /\ card.receipt.serial = Shown(b["RECEIPT"][current].cell)
  BY ONLY <1>4 DEF BuiltCard, Receipt
<1>9. Serialized("RECEIPT", b["RECEIPT"][current]) /\ KeyOf(b["RECEIPT"][current].cell) = key
  BY <1>7, Zenon DEF GroupIn
<1>10. CardOK(b, card)
  BY <1>7, <1>8, <1>9, Zenon DEF CardOK
<1>11. AllStay(b, cs, cs2, is, is)
  <2>1. KeepCards(cs, cs2) /\ KeepIssues(is, is)
    BY <1>6 DEF KeepCards, KeepIssues
  <2> QED
    BY <2>1, RowsStay
<1>12. \A d \in DOMAIN cs2 : ~cs2[d].receipt.opening
  BY ONLY <1>2, <1>6, <1>8
<1>13. CardsOK(b, cs2)
  <2>1. \A d \in DOMAIN cs2 : CardOK(b, cs2[d])
    BY <1>6, <1>10 DEF BookOK, CardsOK
  <2>2. \A d, e \in DOMAIN cs : cs[d].key = cs[e].key => d = e
    BY DEF BookOK, CardsOK
  <2>3. \A d, e \in DOMAIN cs2 : cs2[d].key = cs2[e].key => d = e
    BY ONLY <1>2, <1>6, <1>8, <2>2
  <2> QED
    BY <1>6, <2>1, <2>3 DEF CardsOK
<1>14. /\ DOMAIN L2 = DOMAIN L /\ DOMAIN L = DOMAIN b["RECEIPT"] /\ DOMAIN new = g
       /\ \A x \in g : L2[x] = Entry(StatusIn(b, x, g), c, None)
       /\ \A x \in DOMAIN L \ g : L2[x] = L[x]
  <2>1. DOMAIN new = g /\ \A x \in g : new[x] = Entry(StatusIn(b, x, g), c, None)
    BY DEF GroupEntries
  <2>2. DOMAIN L = DOMAIN b["RECEIPT"]
    BY DEF BookOK, ReceiptsOK
  <2>3. DOMAIN L2 = DOMAIN L /\ \A x \in DOMAIN L : L2[x] = IF x \in DOMAIN new THEN new[x] ELSE L[x]
    BY ONLY <1>1 DEF Over
  <2> QED
    BY ONLY <1>7, <2>1, <2>2, <2>3
<1>15. ASSUME NEW x \in DOMAIN L2 PROVE ReceiptOK(b, cs2, L2[x], x)
  <2>1. CASE x \in g
    <3>1. PICK e : e = L2[x]
      OBVIOUS
    <3>2. PICK st : st = StatusIn(b, x, g)
      OBVIOUS
    <3>3. e = Entry(st, c, None) /\ e.card = c
      BY <2>1, <3>1, <3>2, <1>14 DEF Entry
    <3>4. Serialized("RECEIPT", b["RECEIPT"][x]) /\ KeyOf(b["RECEIPT"][x].cell) = key
      BY <2>1 DEF GroupIn
    <3>5. st = StatusIn(b, x, GroupIn(b, KeyOf(b["RECEIPT"][x].cell)))
      BY <3>2, <3>4
    <3>6. e.card \in DOMAIN cs2 /\ cs2[e.card].key = key /\ ~cs2[e.card].receipt.opening
      BY <3>3, <1>6, <1>8
    <3>7. ReceiptOK(b, cs2, e, x)
      BY <3>3, <3>4, <3>5, <3>6, Zenon DEF ReceiptOK
    <3> QED
      BY <3>1, <3>7
  <2>2. CASE x \notin g
    <3>1. ReceiptOK(b, cs, L[x], x) /\ L2[x] = L[x]
      BY <1>14, <2>2 DEF BookOK, ReceiptsOK
    <3>2. ReceiptOK(b, cs2, L[x], x)
      BY <1>11, <3>1 DEF AllStay
    <3> QED
      BY <3>1, <3>2
  <2> QED
    BY <2>1, <2>2
<1>16. ASSUME NEW d \in DOMAIN cs2, ~cs2[d].receipt.opening, NEW x \in GroupIn(b, cs2[d].key) PROVE L2[x].card = d
  <2>1. CASE d = c
    <3>1. x \in g
      BY <1>6, <1>8, <1>16, <2>1
    <3>2. PICK st : st = StatusIn(b, x, g)
      OBVIOUS
    <3>3. L2[x] = Entry(st, c, None)
      BY <3>1, <3>2, <1>14, Zenon
    <3> QED
      BY <3>3, <2>1 DEF Entry
  <2>2. CASE d # c
    <3>1. d \in DOMAIN cs /\ cs2[d] = cs[d] /\ cs[d].key # key
      BY <1>2, <1>6, <2>2
    <3>2. x \in DOMAIN L /\ x \notin g
      BY <1>14, <1>16, <3>1, Zenon DEF GroupIn
    <3>3. L[x].card = d
      BY <1>16, <3>1 DEF BookOK, ReceiptsOK
    <3> QED
      BY <1>14, <3>2, <3>3
  <2> QED
    BY <2>1, <2>2
<1>17. ReceiptsOK(b, cs2, L2)
  BY <1>14, <1>15, <1>16, Zenon DEF ReceiptsOK
<1>18. IssuesOK(b, cs2, is, M, rel)
  <2>1. \A x \in DOMAIN M : IssueRowOK(b, cs2, is, M[x], x)
    BY <1>11 DEF AllStay, BookOK, IssuesOK
  <2>2. IssuesOK(b, cs, is, M, rel)
    BY DEF BookOK
  <2> QED
    BY ONLY <2>1, <2>2, <1>12 DEF IssuesOK
<1>19. InTurn(cs2, L2, M)
  <2>1. \A x \in DOMAIN M : M[x].status = "UNREAD"
    BY DEF BookOK, InTurn
  <2> QED
    BY <1>12, <2>1 DEF InTurn
<1> QED
  BY <1>2, <1>5, <1>13, <1>17, <1>18, <1>19 DEF BookOK

\* A row that stands for no single piece of equipment.
DeferReceiptStep(b, cs, is, L, M, rel, r, new, L2) ==
  /\ BookOK(b, cs, is, L, M, rel)
  /\ r \in DOMAIN L /\ L[r].status = "UNREAD" /\ ~Serialized("RECEIPT", b["RECEIPT"][r])
  /\ new = [x \in {r} |-> Deferral("RECEIPT", b["RECEIPT"][r])] /\ L2 = Over(L, new)

LEMMA DeferReceiptKeeps ==
  ASSUME NEW b, NEW cs, NEW is, NEW L, NEW M, NEW rel, NEW r, NEW new, NEW L2,
         DeferReceiptStep(b, cs, is, L, M, rel, r, new, L2)
  PROVE  BookOK(b, cs, is, L2, M, rel) /\ AreUnread(L, {r})
<1>1. /\ BookOK(b, cs, is, L, M, rel)
      /\ r \in DOMAIN L /\ L[r].status = "UNREAD" /\ ~Serialized("RECEIPT", b["RECEIPT"][r])
      /\ new = [x \in {r} |-> Deferral("RECEIPT", b["RECEIPT"][r])] /\ L2 = Over(L, new)
  BY DEF DeferReceiptStep
<1> USE <1>1
<1>2. /\ DOMAIN L2 = DOMAIN L /\ DOMAIN L = DOMAIN b["RECEIPT"] /\ L2[r] = Deferral("RECEIPT", b["RECEIPT"][r])
      /\ \A x \in DOMAIN L \ {r} : L2[x] = L[x]
  BY DEF Over, BookOK, ReceiptsOK
<1>3. \A x \in DOMAIN L2 : ReceiptOK(b, cs, L2[x], x)
  <2>1. ReceiptOK(b, cs, L2[r], r)
    BY <1>2 DEF ReceiptOK
  <2>2. \A x \in DOMAIN L : ReceiptOK(b, cs, L[x], x)
    BY DEF BookOK, ReceiptsOK
  <2> QED
    BY <1>2, <2>1, <2>2
<1>4. \A c \in DOMAIN cs : ~cs[c].receipt.opening => \A x \in GroupIn(b, cs[c].key) : L2[x].card = c
  <2>1. \A key : r \notin GroupIn(b, key) /\ GroupIn(b, key) \subseteq DOMAIN L
    BY <1>2 DEF GroupIn
  <2>2. \A c \in DOMAIN cs : ~cs[c].receipt.opening => \A x \in GroupIn(b, cs[c].key) : L[x].card = c
    BY DEF BookOK, ReceiptsOK
  <2> QED
    BY <1>2, <2>1, <2>2
<1>5. ReceiptsOK(b, cs, L2)
  BY <1>2, <1>3, <1>4 DEF ReceiptsOK
<1>6. InTurn(cs, L2, M)
  BY DEF BookOK, InTurn
<1> QED
  BY <1>5, <1>6 DEF BookOK, AreUnread

\* A row that is read now was no witness for another one.
LEMMA OthersRepeat ==
  ASSUME NEW b, NEW cs, NEW is, NEW M, NEW rel, IssuesOK(b, cs, is, M, rel), IsList(cs),
         NEW M2, NEW r, r \in DOMAIN M, DOMAIN M2 = DOMAIN M, M[r] = Unread,
         \A x \in DOMAIN M \ {r} : M2[x] = M[x]
  PROVE  \A x \in DOMAIN M \ {r} : M2[x].status = "EXACT_DUPLICATE" => Repeats(b, M2, x)
<1> SUFFICES ASSUME NEW x \in DOMAIN M \ {r}, M[x].status = "EXACT_DUPLICATE" PROVE Repeats(b, M2, x)
  OBVIOUS
<1>1. PICK o \in DOMAIN M : /\ b["ISSUE"][o] = b["ISSUE"][x] /\ M[o].card = M[x].card
                            /\ M[o].status # "EXACT_DUPLICATE"
  BY DEF IssuesOK, Repeats
<1>2. M[x].card # None
  <2>1. PICK e : e = M[x]
    OBVIOUS
  <2>2. IssueRowOK(b, cs, is, e, x) /\ e.status = "EXACT_DUPLICATE"
    BY <2>1 DEF IssuesOK
  <2>3. ~ (e = Deferral("ISSUE", b["ISSUE"][x])) /\ e # Unread
    BY <2>2, DeferralFacts DEF Unread
  <2>4. e.card \in DOMAIN cs
    BY <2>2, <2>3 DEF IssueRowOK
  <2> QED
    BY <2>1, <2>4, BooksAreSheets DEF IsList
<1>3. o # r
  BY <1>1, <1>2 DEF Unread
<1> QED
  BY <1>1, <1>3 DEF Repeats

DeferIssueStep(b, cs, is, L, M, rel, r, new, M2) ==
  /\ BookOK(b, cs, is, L, M, rel) /\ \A x \in DOMAIN L : L[x].status # "UNREAD"
  /\ r \in DOMAIN M /\ M[r].status = "UNREAD" /\ ~Serialized("ISSUE", b["ISSUE"][r])
  /\ new = [x \in {r} |-> Deferral("ISSUE", b["ISSUE"][r])] /\ M2 = Over(M, new)

LEMMA DeferIssueKeeps ==
  ASSUME NEW b, NEW cs, NEW is, NEW L, NEW M, NEW rel, NEW r, NEW new, NEW M2,
         DeferIssueStep(b, cs, is, L, M, rel, r, new, M2)
  PROVE  BookOK(b, cs, is, L, M2, rel) /\ AreUnread(M, {r})
<1>1. /\ BookOK(b, cs, is, L, M, rel) /\ \A x \in DOMAIN L : L[x].status # "UNREAD"
      /\ r \in DOMAIN M /\ M[r].status = "UNREAD" /\ ~Serialized("ISSUE", b["ISSUE"][r])
      /\ new = [x \in {r} |-> Deferral("ISSUE", b["ISSUE"][r])] /\ M2 = Over(M, new)
  BY DEF DeferIssueStep
<1> USE <1>1
<1>2. IsList(cs) /\ IsList(is) /\ IssuesOK(b, cs, is, M, rel)
  BY DEF BookOK, CardsOK, IssuesOK
<1>3. /\ DOMAIN M2 = DOMAIN M /\ DOMAIN M = DOMAIN b["ISSUE"] /\ M2[r] = Deferral("ISSUE", b["ISSUE"][r])
      /\ \A x \in DOMAIN M \ {r} : M2[x] = M[x]
  BY <1>2 DEF Over, IssuesOK
<1>4. M[r] = Unread
  BY <1>2, IssueFacts DEF IssuesOK
<1>5. \A x \in DOMAIN M2 : IssueRowOK(b, cs, is, M2[x], x)
  <2>1. IssueRowOK(b, cs, is, M2[r], r)
    BY <1>3 DEF IssueRowOK
  <2> QED
    BY <1>2, <1>3, <2>1 DEF IssuesOK
<1>6. \A x \in DOMAIN M2 : M2[x].status = "EXACT_DUPLICATE" => Repeats(b, M2, x)
  <2>1. M2[r].status # "EXACT_DUPLICATE"
    BY <1>3, DeferralFacts
  <2>2. \A x \in DOMAIN M \ {r} : M2[x].status = "EXACT_DUPLICATE" => Repeats(b, M2, x)
    BY <1>2, <1>3, <1>4, OthersRepeat
  <2> QED
    BY <1>3, <2>1, <2>2
<1>7. \A i \in DOMAIN is : is[i].row \in DOMAIN M2 /\ M2[is[i].row].issue = i
  <2>1. \A i \in DOMAIN is : is[i].row \in DOMAIN M /\ M[is[i].row].issue = i /\ i # None
    BY <1>2, BooksAreSheets DEF IssuesOK, IsList
  <2> QED
    BY <1>3, <1>4, <2>1 DEF Unread
<1>8. \A x \in rel : x.row \in DOMAIN M2 /\ M2[x.row].card = x.card /\ M2[x.row].issue # None
  <2>1. \A x \in rel : x.row \in DOMAIN M /\ M[x.row].card = x.card /\ M[x.row].issue # None
    BY <1>2 DEF IssuesOK
  <2> QED
    BY <1>3, <1>4, <2>1 DEF Unread
<1>9. IssuesOK(b, cs, is, M2, rel)
  BY <1>2, <1>3, <1>5, <1>6, <1>7, <1>8 DEF IssuesOK
<1>10. InTurn(cs, L, M2)
  BY DEF InTurn
<1> QED
  BY <1>9, <1>10 DEF BookOK, AreUnread

RepeatStep(b, cs, is, L, M, rel, r, c, status, new, M2) ==
  /\ BookOK(b, cs, is, L, M, rel) /\ \A x \in DOMAIN L : L[x].status # "UNREAD"
  /\ r \in DOMAIN M /\ M[r].status = "UNREAD" /\ Serialized("ISSUE", b["ISSUE"][r])
  /\ c \in DOMAIN cs /\ cs[c].key = KeyOf(b["ISSUE"][r].cell) /\ IsIssued(is, c)
  /\ status \in {"EXACT_DUPLICATE", "CONFLICT_HISTORY_ONLY"}
  /\ status = "EXACT_DUPLICATE" => \E o \in DOMAIN M : M[o].card = c /\ b["ISSUE"][o] = b["ISSUE"][r]
  /\ new = [x \in {r} |-> Entry(status, c, None)] /\ M2 = Over(M, new)

LEMMA RepeatKeeps ==
  ASSUME NEW b, NEW cs, NEW is, NEW L, NEW M, NEW rel, NEW r, NEW c, NEW status, NEW new,
         NEW M2,
         RepeatStep(b, cs, is, L, M, rel, r, c, status, new, M2)
  PROVE  BookOK(b, cs, is, L, M2, rel) /\ AreUnread(M, {r})
<1>1. /\ BookOK(b, cs, is, L, M, rel) /\ \A x \in DOMAIN L : L[x].status # "UNREAD"
      /\ r \in DOMAIN M /\ M[r].status = "UNREAD" /\ Serialized("ISSUE", b["ISSUE"][r])
      /\ c \in DOMAIN cs /\ cs[c].key = KeyOf(b["ISSUE"][r].cell) /\ IsIssued(is, c)
      /\ status \in {"EXACT_DUPLICATE", "CONFLICT_HISTORY_ONLY"}
      /\ status = "EXACT_DUPLICATE" => \E o \in DOMAIN M : M[o].card = c /\ b["ISSUE"][o] = b["ISSUE"][r]
      /\ new = [x \in {r} |-> Entry(status, c, None)] /\ M2 = Over(M, new)
  BY DEF RepeatStep
<1> USE <1>1
<1>2. IsList(cs) /\ IsList(is) /\ IssuesOK(b, cs, is, M, rel)
  BY DEF BookOK, CardsOK, IssuesOK
<1>3. /\ DOMAIN M2 = DOMAIN M /\ DOMAIN M = DOMAIN b["ISSUE"] /\ M2[r] = Entry(status, c, None)
      /\ \A x \in DOMAIN M \ {r} : M2[x] = M[x]
  BY <1>2 DEF Over, IssuesOK
<1>4. M[r] = Unread /\ c # None
  BY <1>2, IssueFacts, BooksAreSheets DEF IssuesOK, IsList
<1>5. \A x \in DOMAIN M2 : IssueRowOK(b, cs, is, M2[x], x)
  <2>1. PICK e : e = M2[r]
    OBVIOUS
  <2>2. e.status = status /\ e.card = c /\ e.issue = None /\ e = Entry(e.status, e.card, e.issue)
    BY <1>3, <2>1 DEF Entry
  <2>3. IssueRowOK(b, cs, is, e, r)
    BY <2>2 DEF IssueRowOK
  <2> QED
    BY <1>2, <1>3, <2>1, <2>3 DEF IssuesOK
<1>6. ASSUME status = "EXACT_DUPLICATE" PROVE Repeats(b, M2, r)
  <2>1. PICK o \in DOMAIN M : M[o].card = c /\ b["ISSUE"][o] = b["ISSUE"][r]
    BY <1>6
  <2>2. PICK p \in DOMAIN M : M[p].card = c /\ b["ISSUE"][p] = b["ISSUE"][r] /\ M[p].status # "EXACT_DUPLICATE"
    <3>1. CASE M[o].status = "EXACT_DUPLICATE"
      <4>1. Repeats(b, M, o)
        BY <1>2, <3>1 DEF IssuesOK
      <4> QED
        BY <2>1, <4>1 DEF Repeats
    <3> QED
      BY <2>1, <3>1
  <2>3. p # r
    BY <1>4, <2>2 DEF Unread
  <2>4. M2[r].card = c
    BY <1>3 DEF Entry
  <2> QED
    BY <1>3, <2>2, <2>3, <2>4 DEF Repeats
<1>7. \A x \in DOMAIN M2 : M2[x].status = "EXACT_DUPLICATE" => Repeats(b, M2, x)
  <2>1. M2[r].status = "EXACT_DUPLICATE" => Repeats(b, M2, r)
    BY <1>3, <1>6 DEF Entry
  <2>2. \A x \in DOMAIN M \ {r} : M2[x].status = "EXACT_DUPLICATE" => Repeats(b, M2, x)
    BY <1>2, <1>3, <1>4, OthersRepeat
  <2> QED
    BY <1>3, <2>1, <2>2
<1>8. \A i \in DOMAIN is : is[i].row \in DOMAIN M2 /\ M2[is[i].row].issue = i
  <2>1. \A i \in DOMAIN is : is[i].row \in DOMAIN M /\ M[is[i].row].issue = i /\ i # None
    BY <1>2, BooksAreSheets DEF IssuesOK, IsList
  <2> QED
    BY <1>3, <1>4, <2>1 DEF Unread
<1>9. \A x \in rel : x.row \in DOMAIN M2 /\ M2[x.row].card = x.card /\ M2[x.row].issue # None
  <2>1. \A x \in rel : x.row \in DOMAIN M /\ M[x.row].card = x.card /\ M[x.row].issue # None
    BY <1>2 DEF IssuesOK
  <2> QED
    BY <1>3, <1>4, <2>1 DEF Unread
<1>10. IssuesOK(b, cs, is, M2, rel)
  BY <1>2, <1>3, <1>5, <1>7, <1>8, <1>9 DEF IssuesOK
<1>11. InTurn(cs, L, M2)
  BY DEF InTurn
<1> QED
  BY <1>10, <1>11 DEF BookOK, AreUnread

\* The first issue of a card, which may be opened for it.
ImportStep(b, cs, is, L, M, rel, r, key, n, c, cs2, status, is2, new, M2, rel2) ==
  /\ BookOK(b, cs, is, L, M, rel) /\ \A x \in DOMAIN L : L[x].status # "UNREAD"
  /\ r \in DOMAIN M /\ M[r].status = "UNREAD" /\ Serialized("ISSUE", b["ISSUE"][r])
  /\ key = KeyOf(b["ISSUE"][r].cell) /\ status \in IssuedStatuses
  /\ \/ /\ c \in DOMAIN cs /\ cs[c].key = key /\ ~IsIssued(is, c) /\ cs2 = cs
     \/ /\ \A d \in DOMAIN cs : cs[d].key # key
        /\ c = Len(cs) + 1
        /\ cs2 = Append(cs, BuiltCard(key, Receipt(b["ISSUE"][r].cell, TRUE), r, n))
  /\ is2 = Append(is, Issue(c, r))
  /\ new = [x \in {r} |-> Entry(status, c, Len(is) + 1)] /\ M2 = Over(M, new)
  /\ rel2 \subseteq rel \cup {x \in rel2 : x.row = r /\ x.card = c}

LEMMA ImportKeeps ==
  ASSUME NEW b, NEW cs, NEW is, NEW L, NEW M, NEW rel, NEW r, NEW key, NEW n, NEW c, NEW
         cs2, NEW status, NEW is2, NEW new, NEW M2, NEW rel2,
         ImportStep(b, cs, is, L, M, rel, r, key, n, c, cs2, status, is2, new, M2, rel2)
  PROVE  BookOK(b, cs2, is2, L, M2, rel2) /\ AreUnread(M, {r})
<1>1. /\ BookOK(b, cs, is, L, M, rel) /\ \A x \in DOMAIN L : L[x].status # "UNREAD"
      /\ r \in DOMAIN M /\ M[r].status = "UNREAD" /\ Serialized("ISSUE", b["ISSUE"][r])
      /\ key = KeyOf(b["ISSUE"][r].cell) /\ status \in IssuedStatuses
      /\ \/ /\ c \in DOMAIN cs /\ cs[c].key = key /\ ~IsIssued(is, c) /\ cs2 = cs
         \/ /\ \A d \in DOMAIN cs : cs[d].key # key
            /\ c = Len(cs) + 1
            /\ cs2 = Append(cs, BuiltCard(key, Receipt(b["ISSUE"][r].cell, TRUE), r, n))
      /\ is2 = Append(is, Issue(c, r))
      /\ new = [x \in {r} |-> Entry(status, c, Len(is) + 1)] /\ M2 = Over(M, new)
      /\ rel2 \subseteq rel \cup {x \in rel2 : x.row = r /\ x.card = c}
  BY DEF ImportStep
<1> USE <1>1
<1>2. IsBook(b) /\ IsList(cs) /\ IsList(is) /\ IssuesOK(b, cs, is, M, rel) /\ CardsOK(b, cs) /\ ReceiptsOK(b, cs, L)
  BY DEF BookOK, CardsOK, IssuesOK
<1>3. PICK i : i = Len(is) + 1
  OBVIOUS
<1>4. PICK issue : issue = Issue(c, r)
  OBVIOUS
<1>5. GrownBy(is, issue, is2, i)
  <2>1. is2 = Append(is, issue)
    BY <1>4
  <2> QED
    BY ONLY <1>2, <1>3, <2>1, Grows
<1>6. issue.card = c /\ issue.row = r
  BY <1>4 DEF Issue
<1>7. /\ DOMAIN M2 = DOMAIN M /\ DOMAIN M = DOMAIN b["ISSUE"] /\ M2[r] = Entry(status, c, i)
      /\ \A x \in DOMAIN M \ {r} : M2[x] = M[x]
  BY <1>2, <1>3 DEF Over, IssuesOK
<1>8. M[r] = Unread
  BY <1>2, IssueFacts DEF IssuesOK
<1>9. /\ c \in DOMAIN cs2 /\ cs2[c].key = key /\ KeepCards(cs, cs2) /\ IsList(cs2)
      /\ DOMAIN cs2 \subseteq DOMAIN cs \cup {c}
      /\ c \in DOMAIN cs => cs2 = cs /\ ~IsIssued(is, c)
      /\ c \notin DOMAIN cs => CardOK(b, cs2[c]) /\ cs2[c].receipt.opening /\ \A d \in DOMAIN cs : cs[d].key # key
  <2>1. CASE /\ c \in DOMAIN cs /\ cs[c].key = key /\ ~IsIssued(is, c) /\ cs2 = cs
    BY <1>2, <2>1 DEF KeepCards
  <2>2. CASE /\ \A d \in DOMAIN cs : cs[d].key # key
             /\ c = Len(cs) + 1
             /\ cs2 = Append(cs, BuiltCard(key, Receipt(b["ISSUE"][r].cell, TRUE), r, n))
    <3>1. PICK card : card = BuiltCard(key, Receipt(b["ISSUE"][r].cell, TRUE), r, n)
      OBVIOUS
    <3>2. cs2 = Append(cs, card)
      BY <2>2, <3>1
    <3>3. GrownBy(cs, card, cs2, c)
      BY ONLY <1>2, <2>2, <3>2, Grows
    <3>4. /\ card.key = key /\ card.receipt.opening = TRUE /\ card.current = r
          /\ card.receipt.serial = Shown(b["ISSUE"][r].cell)
      BY <3>1 DEF BuiltCard, Receipt
    <3>5. CardOK(b, card)
      BY <1>7, <3>4 DEF CardOK
    <3>6. /\ IsList(cs2) /\ DOMAIN cs2 = DOMAIN cs \cup {c} /\ c \notin DOMAIN cs
          /\ cs2[c] = card /\ \A d \in DOMAIN cs : cs2[d] = cs[d]
      BY <3>3 DEF GrownBy
    <3>7. KeepCards(cs, cs2)
      BY <3>6 DEF KeepCards
    <3> QED
      BY <2>2, <3>4, <3>5, <3>6, <3>7
  <2> QED
    BY <2>1, <2>2
<1>10. AllStay(b, cs, cs2, is, is2)
  <2>1. KeepIssues(is, is2)
    BY <1>5 DEF KeepIssues, GrownBy
  <2> QED
    BY <1>9, <2>1, RowsStay
<1>11. CardsOK(b, cs2)
  <2>1. \A d \in DOMAIN cs2 : CardOK(b, cs2[d])
    BY <1>2, <1>9, <1>10 DEF AllStay, CardsOK
  <2>2. ASSUME NEW d \in DOMAIN cs2, NEW e \in DOMAIN cs2, cs2[d].key = cs2[e].key PROVE d = e
    <3>1. \A x, y \in DOMAIN cs : cs[x].key = cs[y].key => x = y
      BY <1>2 DEF CardsOK
    <3>2. CASE c \in DOMAIN cs
      BY <1>9, <2>2, <3>1, <3>2
    <3>3. CASE c \notin DOMAIN cs
      BY <1>9, <2>2, <3>1, <3>3 DEF KeepCards
    <3> QED
      BY <3>2, <3>3
  <2> QED
    BY <1>9, <2>1, <2>2 DEF CardsOK
<1>12. ReceiptsOK(b, cs2, L)
  <2>1. \A x \in DOMAIN L : ReceiptOK(b, cs2, L[x], x)
    BY <1>2, <1>10 DEF AllStay, ReceiptsOK
  <2>2. ASSUME NEW d \in DOMAIN cs2, ~cs2[d].receipt.opening
        PROVE  d \in DOMAIN cs /\ cs2[d].key = cs[d].key /\ ~cs[d].receipt.opening
    <3>1. d \in DOMAIN cs
      BY <1>9, <2>2
    <3> QED
      BY <1>9, <2>2, <3>1 DEF KeepCards
  <2> QED
    BY <1>2, <2>1, <2>2 DEF ReceiptsOK
<1>13. \A x \in DOMAIN M2 : IssueRowOK(b, cs2, is2, M2[x], x)
  <2>1. PICK e : e = M2[r]
    OBVIOUS
  <2>2. e.status = status /\ e.card = c /\ e.issue = i /\ e = Entry(e.status, e.card, e.issue)
    BY <1>7, <2>1 DEF Entry
  <2>3. i \in DOMAIN is2 /\ is2[i] = Issue(c, r) /\ IsIssued(is2, c)
    BY <1>4, <1>5, <1>6 DEF GrownBy, IsIssued
  <2>4. IssueRowOK(b, cs2, is2, e, r)
    BY <1>9, <2>2, <2>3 DEF IssueRowOK
  <2>5. \A x \in DOMAIN M : IssueRowOK(b, cs2, is2, M[x], x)
    BY <1>2, <1>10 DEF AllStay, IssuesOK
  <2> QED
    BY <1>7, <2>1, <2>4, <2>5
<1>14. \A x \in DOMAIN M2 : M2[x].status = "EXACT_DUPLICATE" => Repeats(b, M2, x)
  <2>1. M2[r].status # "EXACT_DUPLICATE"
    BY <1>7 DEF Entry, IssuedStatuses
  <2>2. \A x \in DOMAIN M \ {r} : M2[x].status = "EXACT_DUPLICATE" => Repeats(b, M2, x)
    BY <1>2, <1>7, <1>8, OthersRepeat
  <2> QED
    BY <1>7, <2>1, <2>2
<1>15. \A j \in DOMAIN is2 : is2[j].row \in DOMAIN M2 /\ M2[is2[j].row].issue = j
  <2>1. \A j \in DOMAIN is : is[j].row \in DOMAIN M /\ M[is[j].row].issue = j /\ j # None
    BY <1>2, BooksAreSheets DEF IssuesOK, IsList
  <2>2. \A j \in DOMAIN is : is[j].row # r
    BY <1>8, <2>1 DEF Unread
  <2>3. M2[r].issue = i
    BY <1>7 DEF Entry
  <2> QED
    BY <1>5, <1>6, <1>7, <2>1, <2>2, <2>3 DEF GrownBy
<1>16. \A j, k \in DOMAIN is2 : is2[j].card = is2[k].card => j = k
  <2>1. \A j \in DOMAIN is : is[j].card # c
    <3>1. CASE c \in DOMAIN cs
      BY <1>9, <3>1 DEF IsIssued
    <3>2. CASE c \notin DOMAIN cs
      <4>1. ASSUME NEW j \in DOMAIN is PROVE is[j].card \in DOMAIN cs
        <5>1. PICK x : x = is[j].row
          OBVIOUS
        <5>2. x \in DOMAIN M /\ M[x].issue = j /\ j # None
          BY <1>2, <5>1, BooksAreSheets DEF IssuesOK, IsList
        <5>3. PICK e : e = M[x]
          OBVIOUS
        <5>4. IssueRowOK(b, cs, is, e, x) /\ e.issue = j
          BY <1>2, <5>2, <5>3 DEF IssuesOK
        <5>5. is[j] = Issue(e.card, x) /\ e.card \in DOMAIN cs
          BY <1>2, <5>2, <5>4, IssueFacts
        <5> QED
          BY <5>5 DEF Issue
      <4> QED
        BY <3>2, <4>1
    <3> QED
      BY <3>1, <3>2
  <2>2. \A j, k \in DOMAIN is : is[j].card = is[k].card => j = k
    BY <1>2 DEF IssuesOK
  <2> QED
    BY <1>5, <1>6, <2>1, <2>2 DEF GrownBy
<1>17. \A d \in DOMAIN cs2 : cs2[d].receipt.opening => IsIssued(is2, d)
  <2>1. IsIssued(is2, c)
    BY <1>5, <1>6 DEF GrownBy, IsIssued
  <2>2. \A d \in DOMAIN cs : cs[d].receipt.opening => IsIssued(is2, d)
    BY <1>2, <1>10 DEF AllStay, IssuesOK
  <2> QED
    BY <1>9, <2>1, <2>2 DEF KeepCards
<1>18. \A x \in rel2 : x.row \in DOMAIN M2 /\ M2[x.row].card = x.card /\ M2[x.row].issue # None
  <2>1. \A x \in rel : x.row \in DOMAIN M /\ M[x.row].card = x.card /\ M[x.row].issue # None
    BY <1>2 DEF IssuesOK
  <2>2. \A x \in rel : x.row # r
    BY <1>8, <2>1 DEF Unread
  <2>3. M2[r].card = c /\ M2[r].issue = i
    BY <1>7 DEF Entry
  <2>4. i # None
    BY <1>5, BooksAreSheets DEF GrownBy
  <2> QED
    BY <1>7, <2>1, <2>2, <2>3, <2>4
<1>19. IsList(is2)
  BY <1>5 DEF GrownBy
<1>20. IssuesOK(b, cs2, is2, M2, rel2)
  BY <1>7, <1>13, <1>14, <1>15, <1>16, <1>17, <1>18, <1>19 DEF IssuesOK
<1>21. InTurn(cs2, L, M2)
  BY DEF InTurn
<1> QED
  BY <1>2, <1>11, <1>12, <1>20, <1>21 DEF BookOK, AreUnread

-----------------------------------------------------------------------------
(* The build keeps all of it. *)

EntriesOf(b) == UNION {[sheet : {s}, row : DOMAIN b[s]] : s \in Sheets}
LinkedIn(b, led, c) == {e \in EntriesOf(b) : led[e.sheet][e.row].card = c}

\* A book that is written is read to its end; the marker and the cards have counted it.
Finished(b, cs, is, led, t, m) ==
  /\ \A s \in Sheets : \A r \in DOMAIN led[s] : led[s][r].status # "UNREAD"
  /\ m.tally = t /\ m.cards = Len(cs) /\ m.issues = Len(is) /\ m \in Totals
  /\ \A c \in DOMAIN cs : LinkedIn(b, led, c) # {} => cs[c].rows = Cardinality(LinkedIn(b, led, c))

LedgerOK(led, t) ==
  /\ DOMAIN led = Sheets /\ t \in Tallies
  /\ \A s \in Sheets : TallyOK(led[s], t[s])

IsCard(x) == x = BuiltCard(x.key, x.receipt, x.current, x.rows)
AreCards(cs) == \A c \in DOMAIN cs : IsCard(cs[c])

FullInv ==
  /\ BookOK(book, cards, issues, ledger["RECEIPT"], ledger["ISSUE"], relations)
  /\ LedgerOK(ledger, tally) /\ AreCards(cards)
  /\ at \in {"committed", "valid"} => Finished(book, cards, issues, ledger, tally, marker)

LEMMA EntriesOfBook ==
  /\ Entries = EntriesOf(book) /\ \A c : LinkedTo(c) = LinkedIn(book, ledger, c)
BY DEF Entries, EntriesOf, LinkedTo, LinkedIn, EntryAt, Rows

LEMMA CardsGrow ==
  ASSUME NEW cs, NEW cs2, NEW key, NEW receipt, NEW current, NEW n, IsList(cs), AreCards(cs),
         cs2 = Append(cs, BuiltCard(key, receipt, current, n))
  PROVE  AreCards(cs2)
<1>1. PICK card : card = BuiltCard(key, receipt, current, n)
  OBVIOUS
<1>2. PICK c : c = Len(cs) + 1
  OBVIOUS
<1>3. cs2 = Append(cs, card)
  BY <1>1
<1>4. GrownBy(cs, card, cs2, c)
  BY ONLY <1>2, <1>3, IsList(cs), Grows
<1>5. IsCard(card)
  BY ONLY <1>1 DEF BuiltCard, IsCard
<1> QED
  BY <1>4, <1>5 DEF AreCards, GrownBy

LEMMA WrittenIs ==
  ASSUME FullInv, NEW s \in Sheets, NEW new, Written(s, new), AreUnread(ledger[s], DOMAIN new)
  PROVE  /\ LedgerOK(ledger', tally') /\ ledger'[s] = Over(ledger[s], new)
         /\ \A q \in Sheets \ {s} : ledger'[q] = ledger[q]
<1>1. /\ DOMAIN ledger = Sheets /\ tally \in Tallies /\ TallyOK(ledger[s], tally[s])
      /\ \A q \in Sheets : TallyOK(ledger[q], tally[q])
  BY DEF FullInv, LedgerOK
<1>2. DOMAIN ledger[s] = DOMAIN book[s] /\ IsBook(book)
  BY DEF FullInv, BookOK, ReceiptsOK, IssuesOK, Sheets
<1>3. PICK L : L = [r \in Rows(s) |-> IF r \in DOMAIN new THEN new[r] ELSE ledger[s][r]]
  OBVIOUS
<1>4. ledger' = [ledger EXCEPT ![s] = L]
  BY <1>3 DEF Written
<1>5. L = Over(ledger[s], new)
  BY <1>2, <1>3 DEF Over, Rows
<1>6. /\ DOMAIN ledger' = Sheets /\ ledger'[s] = L /\ \A q \in Sheets \ {s} : ledger'[q] = ledger[q]
  BY <1>1, <1>4
<1>7. PICK t : t = [c \in Statuses |-> tally[s][c] + Cardinality({e \in DOMAIN new : new[e].status = c})]
  OBVIOUS
<1>8. tally' = [tally EXCEPT ![s] = t]
  BY <1>7 DEF Written, Counted
<1>9. IsFiniteSet(DOMAIN ledger[s])
  BY <1>2, BookFacts
<1>10. TallyOK(L, t)
  BY <1>1, <1>5, <1>7, <1>9, TallyKeeps
<1>11. t \in [Statuses -> Nat]
  <2>1. \A c \in Statuses : Cardinality({e \in DOMAIN new : new[e].status = c}) \in Nat
    BY <1>9, FS_Subset, FS_CardinalityType DEF AreUnread
  <2>2. \A c \in Statuses : tally[s][c] \in Nat
    BY <1>1 DEF Tallies
  <2>3. \A c \in Statuses : tally[s][c] + Cardinality({e \in DOMAIN new : new[e].status = c}) \in Nat
    BY <2>1, <2>2
  <2> QED
    BY <1>7, <2>3
<1>12. tally' \in Tallies /\ tally'[s] = t /\ \A q \in Sheets \ {s} : tally'[q] = tally[q]
  BY <1>1, <1>8, <1>11 DEF Tallies
<1>13. ASSUME NEW q \in Sheets PROVE TallyOK(ledger'[q], tally'[q])
  <2>1. CASE q = s
    BY <1>6, <1>10, <1>12, <2>1
  <2>2. CASE q # s
    <3>1. ledger'[q] = ledger[q] /\ tally'[q] = tally[q] /\ TallyOK(ledger[q], tally[q])
      BY <1>1, <1>6, <1>12, <2>2
    <3> QED
      BY <3>1
  <2> QED
    BY <2>1, <2>2
<1> QED
  BY <1>5, <1>6, <1>12, <1>13 DEF LedgerOK

LEMMA NothingIsOK ==
  ASSUME NEW b, IsBook(b), NEW cs, cs = <<>>, NEW L, L = [r \in DOMAIN b["RECEIPT"] |-> Unread],
         NEW M, M = [r \in DOMAIN b["ISSUE"] |-> Unread], NEW rel, rel = {}
  PROVE  BookOK(b, cs, cs, L, M, rel)
<1>1. IsList(cs) /\ DOMAIN cs = {}
  BY DEF IsList
<1>2. Unread.status = "UNREAD"
  BY DEF Unread
<1>3. CardsOK(b, cs)
  BY <1>1 DEF CardsOK
<1>4. ReceiptsOK(b, cs, L)
  BY <1>1 DEF ReceiptsOK, ReceiptOK
<1>5. IssuesOK(b, cs, cs, M, rel)
  BY <1>1, <1>2 DEF IssuesOK, IssueRowOK
<1>6. InTurn(cs, L, M)
  BY <1>1, <1>2 DEF InTurn
<1> QED
  BY <1>3, <1>4, <1>5, <1>6 DEF BookOK

LEMMA NothingIsCounted ==
  ASSUME NEW b, NEW led, led = [s \in Sheets |-> [r \in DOMAIN b[s] |-> Unread]],
         NEW t, t = [s \in Sheets |-> [c \in Statuses |-> 0]]
  PROVE  LedgerOK(led, t)
<1>1. t \in Tallies
  BY DEF Tallies
<1>2. ASSUME NEW s \in Sheets PROVE TallyOK(led[s], t[s])
  <2>1. ASSUME NEW c \in Statuses PROVE t[s][c] = Cardinality({r \in DOMAIN led[s] : led[s][r].status = c})
    <3>1. c # "UNREAD"
      BY DEF Statuses
    <3>2. {r \in DOMAIN led[s] : led[s][r].status = c} = {}
      BY <3>1 DEF Unread
    <3>3. Cardinality({r \in DOMAIN led[s] : led[s][r].status = c}) = Cardinality({})
      BY <3>2, Zenon
    <3> QED
      BY <3>3, FS_EmptySet
  <2> QED
    BY <2>1 DEF TallyOK
<1> QED
  BY <1>1, <1>2 DEF LedgerOK

LEMMA InitFullInv == InitFull => FullInv
<1> SUFFICES ASSUME InitFull PROVE FullInv
  OBVIOUS
<1>1. PICK b : b = book
  OBVIOUS
<1>2. PICK cs : cs = <<>>
  OBVIOUS
<1>3. PICK led : led = [s \in Sheets |-> [r \in DOMAIN b[s] |-> Unread]]
  OBVIOUS
<1>4. PICK t : t = [s \in Sheets |-> [c \in Statuses |-> 0]]
  OBVIOUS
<1>5. /\ b \in Books /\ at = "building" /\ book = b /\ cards = cs /\ issues = cs /\ relations = {}
      /\ ledger = led /\ tally = t
  BY <1>1, <1>2, <1>3, <1>4 DEF InitFull, EmptyTables, Rows
<1>6. IsBook(b)
  BY <1>5, BooksAreSheets DEF IsBook
<1>7. LedgerOK(led, t)
  BY ONLY <1>3, <1>4, NothingIsCounted
<1>8. BookOK(b, cs, cs, led["RECEIPT"], led["ISSUE"], {})
  <2>1. led["RECEIPT"] = [r \in DOMAIN b["RECEIPT"] |-> Unread] /\ led["ISSUE"] = [r \in DOMAIN b["ISSUE"] |-> Unread]
    BY <1>3 DEF Sheets
  <2> QED
    BY ONLY <1>2, <1>6, <2>1, NothingIsOK
<1>9. AreCards(cs)
  BY <1>2 DEF AreCards
<1> QED
  BY <1>5, <1>7, <1>8, <1>9 DEF FullInv

LEMMA StepOfGroup ==
  ASSUME FullInv, NEW r \in Rows("RECEIPT"), ImportGroup(r)
  PROVE  FullInv'
<1> DEFINE row == book["RECEIPT"][r]
<1>1. /\ at = "building" /\ r \in DOMAIN ledger["RECEIPT"] /\ ledger["RECEIPT"][r].status = "UNREAD"
      /\ Serialized("RECEIPT", row)
  BY Zenon DEF ImportGroup, ToGroup, ToRead, FullInv, BookOK, ReceiptsOK, Rows
<1>2. PICK key : key = KeyOf(row.cell)
  OBVIOUS
<1>3. PICK g : g = Group(key) /\ g = GroupIn(book, key)
  BY OfTheBook
<1>4. PICK current : current = CurrentRow(g) /\ current = LatestIn(book, g)
  BY OfTheBook
<1>5. PICK new : new = [x \in g |-> Entry(GroupStatus(x, g), Len(cards) + 1, None)]
  OBVIOUS
<1>6. PICK c : c = Len(cards) + 1
  OBVIOUS
<1>7. new = GroupEntries(book, g, c)
  <2>1. \A x \in g : GroupStatus(x, g) = StatusIn(book, x, g)
    BY OfTheBook
  <2> QED
    BY <1>5, <1>6, <2>1 DEF GroupEntries
<1>8. PICK n : n = Cardinality(g)
  OBVIOUS
<1>9. /\ cards' = Append(cards, BuiltCard(key, Receipt(book["RECEIPT"][current].cell, FALSE), current, n))
      /\ Written("RECEIPT", new)
      /\ UNCHANGED <<book, at, issues, relations, marker>>
  <2>1. /\ cards' = Append(cards, BuiltCard(KeyOf(book["RECEIPT"][r].cell),
                     Receipt(book["RECEIPT"][CurrentRow(Group(KeyOf(book["RECEIPT"][r].cell)))].cell, FALSE),
                     CurrentRow(Group(KeyOf(book["RECEIPT"][r].cell))),
                     Cardinality(Group(KeyOf(book["RECEIPT"][r].cell)))))
        /\ Written("RECEIPT", [x \in Group(KeyOf(book["RECEIPT"][r].cell)) |->
             Entry(GroupStatus(x, Group(KeyOf(book["RECEIPT"][r].cell))), Len(cards) + 1, None)])
        /\ UNCHANGED <<book, at, issues, relations, marker>>
    BY DEF ImportGroup
  <2>2. /\ cards' = Append(cards, BuiltCard(key, Receipt(book["RECEIPT"][CurrentRow(Group(key))].cell, FALSE),
                                     CurrentRow(Group(key)), Cardinality(Group(key))))
        /\ Written("RECEIPT", [x \in Group(key) |-> Entry(GroupStatus(x, Group(key)), Len(cards) + 1, None)])
    BY <1>2, <2>1, Zenon
  <2>3. /\ cards' = Append(cards, BuiltCard(key, Receipt(book["RECEIPT"][CurrentRow(g)].cell, FALSE),
                                     CurrentRow(g), Cardinality(g)))
        /\ Written("RECEIPT", [x \in g |-> Entry(GroupStatus(x, g), Len(cards) + 1, None)])
    BY <1>3, <2>2, Zenon
  <2> QED
    BY <1>4, <1>5, <1>8, <2>1, <2>3, Zenon
<1>10. PICK L : L = ledger["RECEIPT"]
  OBVIOUS
<1>11. PICK M : M = ledger["ISSUE"]
  OBVIOUS
<1>12. BookOK(book, cards, issues, L, M, relations)
  BY <1>10, <1>11 DEF FullInv
<1>13. PICK L2 : L2 = Over(L, new)
  OBVIOUS
<1>14. PICK cs2 : cs2 = cards'
  OBVIOUS
<1>15. BookOK(book, cs2, issues, L2, M, relations) /\ AreUnread(L, g)
  <2>1. PICK card : card = GroupCard(book, key, current, n)
    OBVIOUS
  <2>2. cs2 = Append(cards, card)
    BY <1>9, <1>14, <2>1 DEF GroupCard
  <2>3. r \in DOMAIN L /\ L[r].status = "UNREAD" /\ Serialized("RECEIPT", book["RECEIPT"][r])
    BY <1>1, <1>10
  <2>4. /\ key = KeyOf(book["RECEIPT"][r].cell) /\ g = GroupIn(book, key) /\ current = LatestIn(book, g)
    BY <1>2, <1>3, <1>4
  <2>5. GroupStep(book, cards, issues, L, M, relations, r, key, g, current, n, card, cs2, c, new, L2)
    BY ONLY <1>7, <1>12, <1>13, <1>6, <2>1, <2>2, <2>3, <2>4 DEF GroupStep
  <2> QED
    BY ONLY <2>5, GroupKeeps
<1>16. AreUnread(ledger["RECEIPT"], DOMAIN new) /\ "RECEIPT" \in Sheets
  BY <1>5, <1>10, <1>15 DEF Sheets
<1>17. /\ LedgerOK(ledger', tally') /\ ledger'["RECEIPT"] = L2 /\ ledger'["ISSUE"] = M
  BY <1>9, <1>10, <1>11, <1>13, <1>16, WrittenIs DEF Sheets
<1>18. BookOK(book', cards', issues', ledger'["RECEIPT"], ledger'["ISSUE"], relations')
  BY <1>9, <1>14, <1>15, <1>17
<1>19. AreCards(cards')
  BY <1>9, CardsGrow DEF FullInv, BookOK, CardsOK
<1> QED
  BY <1>1, <1>9, <1>17, <1>18, <1>19 DEF FullInv

LEMMA StepOfDeferReceipt ==
  ASSUME FullInv, NEW r \in Rows("RECEIPT"), DeferReceipt(r)
  PROVE  FullInv'
<1>1. PICK L : L = ledger["RECEIPT"]
  OBVIOUS
<1>2. PICK M : M = ledger["ISSUE"]
  OBVIOUS
<1>3. BookOK(book, cards, issues, L, M, relations)
  BY <1>1, <1>2 DEF FullInv
<1>4. PICK new : new = [x \in {r} |-> Deferral("RECEIPT", book["RECEIPT"][r])]
  OBVIOUS
<1>5. /\ at = "building" /\ ToGroup = {} /\ r \in ToRead("RECEIPT") /\ Written("RECEIPT", new)
      /\ UNCHANGED <<book, at, cards, issues, relations, marker>>
  BY <1>4 DEF DeferReceipt
<1>6. r \in DOMAIN L /\ L[r].status = "UNREAD" /\ ~Serialized("RECEIPT", book["RECEIPT"][r])
  BY <1>1, <1>3, <1>5 DEF ToRead, ToGroup, BookOK, ReceiptsOK, Rows
<1>7. PICK L2 : L2 = Over(L, new)
  OBVIOUS
<1>8. DeferReceiptStep(book, cards, issues, L, M, relations, r, new, L2)
  BY ONLY <1>3, <1>4, <1>6, <1>7 DEF DeferReceiptStep
<1>9. BookOK(book, cards, issues, L2, M, relations) /\ AreUnread(L, {r})
  BY ONLY <1>8, DeferReceiptKeeps
<1>10. AreUnread(ledger["RECEIPT"], DOMAIN new) /\ "RECEIPT" \in Sheets
  BY <1>1, <1>4, <1>9 DEF Sheets
<1>11. LedgerOK(ledger', tally') /\ ledger'["RECEIPT"] = L2 /\ ledger'["ISSUE"] = M
  BY <1>1, <1>2, <1>5, <1>7, <1>10, WrittenIs DEF Sheets
<1>12. BookOK(book', cards', issues', ledger'["RECEIPT"], ledger'["ISSUE"], relations')
  BY <1>5, <1>9, <1>11
<1> QED
  BY <1>5, <1>11, <1>12 DEF FullInv

\* What is known when an issue is read.
LEMMA IssueIsNext ==
  ASSUME FullInv, NEW r \in Rows("ISSUE"), NextIssue(r),
         NEW L, L = ledger["RECEIPT"], NEW M, M = ledger["ISSUE"]
  PROVE  /\ at = "building" /\ r \in DOMAIN M /\ M[r].status = "UNREAD"
         /\ BookOK(book, cards, issues, L, M, relations)
         /\ \A x \in DOMAIN L : L[x].status # "UNREAD"
<1>1. BookOK(book, cards, issues, L, M, relations)
  BY DEF FullInv
<1>2. DOMAIN L = Rows("RECEIPT") /\ DOMAIN M = Rows("ISSUE")
  BY <1>1 DEF BookOK, ReceiptsOK, IssuesOK, Rows
<1> QED
  BY <1>1, <1>2 DEF NextIssue, ToRead

LEMMA StepOfDeferIssue ==
  ASSUME FullInv, NEW r \in Rows("ISSUE"), DeferIssue(r)
  PROVE  FullInv'
<1>1. PICK L : L = ledger["RECEIPT"]
  OBVIOUS
<1>2. PICK M : M = ledger["ISSUE"]
  OBVIOUS
<1>3. PICK new : new = [x \in {r} |-> Deferral("ISSUE", book["ISSUE"][r])]
  OBVIOUS
<1>4. /\ NextIssue(r) /\ ~Serialized("ISSUE", book["ISSUE"][r]) /\ Written("ISSUE", new)
      /\ UNCHANGED <<book, at, cards, issues, relations, marker>>
  BY <1>3 DEF DeferIssue
<1>5. /\ at = "building" /\ r \in DOMAIN M /\ M[r].status = "UNREAD"
      /\ BookOK(book, cards, issues, L, M, relations)
      /\ \A x \in DOMAIN L : L[x].status # "UNREAD"
  BY <1>1, <1>2, <1>4, IssueIsNext
<1>6. PICK M2 : M2 = Over(M, new)
  OBVIOUS
<1>7. DeferIssueStep(book, cards, issues, L, M, relations, r, new, M2)
  BY ONLY <1>3, <1>4, <1>5, <1>6 DEF DeferIssueStep
<1>8. BookOK(book, cards, issues, L, M2, relations) /\ AreUnread(M, {r})
  BY ONLY <1>7, DeferIssueKeeps
<1>9. AreUnread(ledger["ISSUE"], DOMAIN new) /\ "ISSUE" \in Sheets
  BY <1>2, <1>3, <1>8 DEF Sheets
<1>10. LedgerOK(ledger', tally') /\ ledger'["ISSUE"] = M2 /\ ledger'["RECEIPT"] = L
  BY <1>1, <1>2, <1>4, <1>6, <1>9, WrittenIs DEF Sheets
<1>11. BookOK(book', cards', issues', ledger'["RECEIPT"], ledger'["ISSUE"], relations')
  BY <1>4, <1>8, <1>10
<1> QED
  BY <1>4, <1>5, <1>10, <1>11 DEF FullInv

LEMMA KnownCard ==
  ASSUME NEW key, Known(key)
  PROVE  CardOf(key) \in DOMAIN cards /\ cards[CardOf(key)].key = key
BY DEF Known, CardOf

LEMMA StepOfRepeat ==
  ASSUME FullInv, NEW r \in Rows("ISSUE"), RepeatIssue(r)
  PROVE  FullInv'
<1>1. PICK L : L = ledger["RECEIPT"]
  OBVIOUS
<1>2. PICK M : M = ledger["ISSUE"]
  OBVIOUS
<1>3. PICK row : row = book["ISSUE"][r]
  OBVIOUS
<1>4. PICK key : key = KeyOf(row.cell)
  OBVIOUS
<1>5. PICK c : c = CardOf(key)
  OBVIOUS
<1>6. PICK status : status = IF Seen(c, row) THEN "EXACT_DUPLICATE" ELSE "CONFLICT_HISTORY_ONLY"
  OBVIOUS
<1>7. PICK new : new = [x \in {r} |-> Entry(status, c, None)]
  OBVIOUS
<1>8. /\ NextIssue(r) /\ Serialized("ISSUE", row) /\ Known(key) /\ Consumed(c)
      /\ Written("ISSUE", new) /\ UNCHANGED <<book, at, cards, issues, relations, marker>>
  <2>1. /\ NextIssue(r) /\ Serialized("ISSUE", row) /\ Known(KeyOf(row.cell)) /\ Consumed(CardOf(KeyOf(row.cell)))
        /\ Written("ISSUE", [x \in {r} |->
             Entry(IF Seen(CardOf(KeyOf(row.cell)), row) THEN "EXACT_DUPLICATE" ELSE "CONFLICT_HISTORY_ONLY",
                   CardOf(KeyOf(row.cell)), None)])
        /\ UNCHANGED <<book, at, cards, issues, relations, marker>>
    BY <1>3 DEF RepeatIssue
  <2>2. /\ Known(key) /\ Consumed(c)
        /\ Written("ISSUE", [x \in {r} |->
             Entry(IF Seen(c, row) THEN "EXACT_DUPLICATE" ELSE "CONFLICT_HISTORY_ONLY", c, None)])
    BY <1>4, <1>5, <2>1, Zenon
  <2> QED
    BY <1>6, <1>7, <2>1, <2>2, Zenon
<1>9. /\ at = "building" /\ r \in DOMAIN M /\ M[r].status = "UNREAD"
      /\ BookOK(book, cards, issues, L, M, relations)
      /\ \A x \in DOMAIN L : L[x].status # "UNREAD"
  BY <1>1, <1>2, <1>8, IssueIsNext
<1>10. c \in DOMAIN cards /\ cards[c].key = KeyOf(book["ISSUE"][r].cell) /\ IsIssued(issues, c)
  BY <1>3, <1>4, <1>5, <1>8, KnownCard DEF Consumed, IsIssued
<1>11. status \in {"EXACT_DUPLICATE", "CONFLICT_HISTORY_ONLY"}
  BY <1>6
<1>12. status = "EXACT_DUPLICATE" => \E o \in DOMAIN M : M[o].card = c /\ book["ISSUE"][o] = book["ISSUE"][r]
  <2>1. DOMAIN M = Rows("ISSUE")
    BY <1>9 DEF BookOK, IssuesOK, Rows
  <2> QED
    BY <1>2, <1>3, <1>6, <2>1 DEF Seen
<1>13. PICK M2 : M2 = Over(M, new)
  OBVIOUS
<1>14. RepeatStep(book, cards, issues, L, M, relations, r, c, status, new, M2)
  BY ONLY <1>3, <1>7, <1>8, <1>9, <1>10, <1>11, <1>12, <1>13 DEF RepeatStep
<1>15. BookOK(book, cards, issues, L, M2, relations) /\ AreUnread(M, {r})
  BY ONLY <1>14, RepeatKeeps
<1>16. AreUnread(ledger["ISSUE"], DOMAIN new) /\ "ISSUE" \in Sheets
  BY <1>2, <1>7, <1>15 DEF Sheets
<1>17. LedgerOK(ledger', tally') /\ ledger'["ISSUE"] = M2 /\ ledger'["RECEIPT"] = L
  BY <1>1, <1>2, <1>8, <1>13, <1>16, WrittenIs DEF Sheets
<1>18. BookOK(book', cards', issues', ledger'["RECEIPT"], ledger'["ISSUE"], relations')
  BY <1>8, <1>15, <1>17
<1> QED
  BY <1>8, <1>9, <1>17, <1>18 DEF FullInv

LEMMA StepOfImport ==
  ASSUME FullInv, NEW r \in Rows("ISSUE"), ImportIssue(r)
  PROVE  FullInv'
<1>1. PICK L : L = ledger["RECEIPT"]
  OBVIOUS
<1>2. PICK M : M = ledger["ISSUE"]
  OBVIOUS
<1>3. PICK row : row = book["ISSUE"][r]
  OBVIOUS
<1>4. PICK key : key = KeyOf(row.cell)
  OBVIOUS
<1>5. PICK c : c = IF ~Known(key) THEN Len(cards) + 1 ELSE CardOf(key)
  OBVIOUS
<1>6. PICK status : status = CASE Provisional(row.cell) -> "NUMERIC_PROVISIONAL_LINKED"
                             [] ~Provisional(row.cell) /\ ~Known(key) -> "OPENING_STATE_CREATED"
                             [] OTHER -> "IMPORTED"
  OBVIOUS
<1>7. PICK n : n = PotentialRows(key)
  OBVIOUS
<1>8. PICK new : new = [x \in {r} |-> Entry(status, c, Len(issues) + 1)]
  OBVIOUS
<1>9. /\ NextIssue(r) /\ Serialized("ISSUE", row) /\ (~Known(key) \/ ~Consumed(c))
      /\ cards' = IF ~Known(key) THEN Append(cards, BuiltCard(key, Receipt(row.cell, TRUE), r, n)) ELSE cards
      /\ issues' = Append(issues, Issue(c, r)) /\ Written("ISSUE", new)
      /\ relations' \subseteq relations \cup {x \in relations' : x.row = r /\ x.card = c}
      /\ UNCHANGED <<book, at, marker>>
  <2> DEFINE op(k) == ~Known(k)
             cc(k) == IF op(k) THEN Len(cards) + 1 ELSE CardOf(k)
             st(k) == CASE Provisional(row.cell) -> "NUMERIC_PROVISIONAL_LINKED"
                        [] ~Provisional(row.cell) /\ op(k) -> "OPENING_STATE_CREATED"
                        [] OTHER -> "IMPORTED"
             of(k, d, s) ==
               /\ NextIssue(r) /\ Serialized("ISSUE", row) /\ (op(k) \/ ~Consumed(d))
               /\ cards' = IF op(k)
                           THEN Append(cards, BuiltCard(k, Receipt(row.cell, TRUE), r, PotentialRows(k)))
                           ELSE cards
               /\ issues' = Append(issues, Issue(d, r))
               /\ Written("ISSUE", [x \in {r} |-> Entry(s, d, Len(issues) + 1)])
               /\ \E y : \/ relations' = relations
                         \/ relations' = relations \cup {[row |-> r, card |-> d, target |-> y]}
               /\ UNCHANGED <<book, at, marker>>
  <2>1. of(KeyOf(row.cell), cc(KeyOf(row.cell)), st(KeyOf(row.cell)))
    BY <1>3, Zenon DEF ImportIssue
  <2>2. of(key, cc(key), st(key))
    <3> HIDE DEF of, cc, st
    <3> QED
      BY <1>4, <2>1, Zenon
  <2>3. cc(key) = c /\ st(key) = status
    BY <1>5, <1>6
  <2>4. of(key, c, status)
    <3> HIDE DEF of, cc, st
    <3> QED
      BY <2>2, <2>3, Zenon
  <2>5. relations' \subseteq relations \cup {x \in relations' : x.row = r /\ x.card = c}
    <3>1. PICK y : relations' = relations \/ relations' = relations \cup {[row |-> r, card |-> c, target |-> y]}
      BY <2>4
    <3> QED
      BY ONLY <3>1
  <2>6. Written("ISSUE", new)
    BY <1>8, <2>4, Zenon
  <2>7. cards' = IF ~Known(key) THEN Append(cards, BuiltCard(key, Receipt(row.cell, TRUE), r, n)) ELSE cards
    BY <1>7, <2>4, Zenon
  <2> QED
    BY <2>4, <2>5, <2>6, <2>7
<1>10. /\ at = "building" /\ r \in DOMAIN M /\ M[r].status = "UNREAD"
       /\ BookOK(book, cards, issues, L, M, relations)
       /\ \A x \in DOMAIN L : L[x].status # "UNREAD"
  BY <1>1, <1>2, <1>9, IssueIsNext
<1>11. status \in IssuedStatuses
  BY <1>6 DEF IssuedStatuses
<1>12. PICK cs2 : cs2 = cards'
  OBVIOUS
<1>13. \/ c \in DOMAIN cards /\ cards[c].key = key /\ ~IsIssued(issues, c) /\ cs2 = cards
       \/ /\ \A d \in DOMAIN cards : cards[d].key # key
          /\ c = Len(cards) + 1
          /\ cs2 = Append(cards, BuiltCard(key, Receipt(row.cell, TRUE), r, n))
  <2>1. CASE Known(key)
    BY <1>5, <1>9, <1>12, <2>1, KnownCard DEF Consumed, IsIssued
  <2>2. CASE ~Known(key)
    BY <1>5, <1>9, <1>12, <2>2 DEF Known
  <2> QED
    BY <2>1, <2>2
<1>14. PICK M2 : M2 = Over(M, new)
  OBVIOUS
<1>15. PICK is2 : is2 = issues'
  OBVIOUS
<1>16. PICK rel2 : rel2 = relations'
  OBVIOUS
<1>17. rel2 \subseteq relations \cup {x \in rel2 : x.row = r /\ x.card = c}
  BY <1>9, <1>16
<1>18. ImportStep(book, cards, issues, L, M, relations, r, key, n, c, cs2, status, is2, new, M2, rel2)
  <2>1. is2 = Append(issues, Issue(c, r)) /\ Serialized("ISSUE", row)
    BY <1>9, <1>15
  <2> QED
    BY ONLY <1>3, <1>4, <1>8, <1>10, <1>11, <1>13, <1>14, <1>17, <2>1 DEF ImportStep
<1>19. BookOK(book, cs2, is2, L, M2, rel2) /\ AreUnread(M, {r})
  BY ONLY <1>18, ImportKeeps
<1>20. AreUnread(ledger["ISSUE"], DOMAIN new) /\ "ISSUE" \in Sheets
  BY <1>2, <1>8, <1>19 DEF Sheets
<1>21. LedgerOK(ledger', tally') /\ ledger'["ISSUE"] = M2 /\ ledger'["RECEIPT"] = L
  BY <1>1, <1>2, <1>9, <1>14, <1>20, WrittenIs DEF Sheets
<1>22. BookOK(book', cards', issues', ledger'["RECEIPT"], ledger'["ISSUE"], relations')
  BY <1>9, <1>12, <1>15, <1>16, <1>19, <1>21
<1>23. AreCards(cards')
  <2>1. AreCards(cards) /\ IsList(cards)
    BY DEF FullInv, BookOK, CardsOK
  <2>2. CASE Known(key)
    BY <1>9, <2>1, <2>2
  <2>3. CASE ~Known(key)
    BY <1>9, <2>1, <2>3, CardsGrow
  <2> QED
    BY <2>2, <2>3
<1> QED
  BY <1>9, <1>10, <1>21, <1>22, <1>23 DEF FullInv

\* As many entries as the sheets have rows.
Side(b, s) == {[sheet |-> s, row |-> r] : r \in DOMAIN b[s]}

LEMMA EntriesAreSides == \A b : EntriesOf(b) = Side(b, "RECEIPT") \cup Side(b, "ISSUE")
BY DEF EntriesOf, Side, Sheets

LEMMA Numbered ==
  ASSUME NEW b, IsBook(b), NEW s \in Sheets
  PROVE  IsFiniteSet(Side(b, s)) /\ Cardinality(Side(b, s)) = Len(b[s])
<1>1. IsFiniteSet(DOMAIN b[s]) /\ Cardinality(DOMAIN b[s]) = Len(b[s])
  BY BookFacts
<1> DEFINE f == [r \in DOMAIN b[s] |-> [sheet |-> s, row |-> r]]
<1>2. f \in Bijection(DOMAIN b[s], Side(b, s))
  BY DEF Bijection, Injection, Surjection, IsInjective, Side
<1> QED
  BY <1>1, <1>2, FS_Bijection DEF ExistsBijection

LEMMA EntriesCount ==
  ASSUME NEW b, IsBook(b)
  PROVE  /\ IsFiniteSet(EntriesOf(b))
         /\ Cardinality(EntriesOf(b)) = Len(b["RECEIPT"]) + Len(b["ISSUE"])
<1>1. PICK R : R = Side(b, "RECEIPT")
  OBVIOUS
<1>2. PICK I : I = Side(b, "ISSUE")
  OBVIOUS
<1>3. IsFiniteSet(R) /\ IsFiniteSet(I) /\ Cardinality(R) = Len(b["RECEIPT"]) /\ Cardinality(I) = Len(b["ISSUE"])
  BY <1>1, <1>2, Numbered DEF Sheets
<1>4. R \cap I = {}
  BY <1>1, <1>2 DEF Side
<1>5. EntriesOf(b) = R \cup I
  BY <1>1, <1>2, EntriesAreSides
<1>6. Cardinality(R \cap I) = 0
  BY <1>4, FS_EmptySet
<1>7. IsFiniteSet(R \cup I) /\ Cardinality(R \cup I) = Cardinality(R) + Cardinality(I) - Cardinality(R \cap I)
  BY <1>3, FS_Union
<1>8. Cardinality(R) \in Nat /\ Cardinality(I) \in Nat
  BY <1>3, FS_CardinalityType
<1> QED
  BY <1>3, <1>5, <1>6, <1>7, <1>8

\* Counting the rows of a card again changes nothing else.
LEMMA RowsAreCounted ==
  ASSUME NEW b, NEW cs, NEW cs2, NEW is, NEW L, NEW M, NEW rel, BookOK(b, cs, is, L, M, rel),
         DOMAIN cs2 = DOMAIN cs, KeepCards(cs, cs2), IsList(cs2)
  PROVE  BookOK(b, cs2, is, L, M, rel)
<1>1. /\ IsBook(b) /\ CardsOK(b, cs) /\ ReceiptsOK(b, cs, L) /\ IssuesOK(b, cs, is, M, rel)
      /\ InTurn(cs, L, M)
  BY DEF BookOK
<1>2. AllStay(b, cs, cs2, is, is)
  <2>1. KeepIssues(is, is)
    BY DEF KeepIssues
  <2> QED
    BY <2>1, RowsStay
<1>3. \A c \in DOMAIN cs2 : cs2[c].key = cs[c].key /\ cs2[c].receipt.opening = cs[c].receipt.opening
  BY DEF KeepCards
<1>4. CardsOK(b, cs2)
  <2>1. \A c \in DOMAIN cs2 : CardOK(b, cs2[c])
    BY <1>1, <1>2 DEF AllStay, CardsOK
  <2> QED
    BY <1>1, <1>3, <2>1 DEF CardsOK
<1>5. ReceiptsOK(b, cs2, L)
  <2>1. \A r \in DOMAIN L : ReceiptOK(b, cs2, L[r], r)
    BY <1>1, <1>2 DEF AllStay, ReceiptsOK
  <2> QED
    BY <1>1, <1>3, <2>1 DEF ReceiptsOK
<1>6. IssuesOK(b, cs2, is, M, rel)
  <2>1. \A r \in DOMAIN M : IssueRowOK(b, cs2, is, M[r], r)
    BY <1>1, <1>2 DEF AllStay, IssuesOK
  <2>2. \A c \in DOMAIN cs2 : cs2[c].receipt.opening => IsIssued(is, c)
    BY <1>1, <1>3 DEF IssuesOK
  <2> QED
    BY ONLY <1>1, <2>1, <2>2 DEF IssuesOK
<1>7. InTurn(cs2, L, M)
  BY <1>1, <1>3 DEF InTurn
<1> QED
  BY <1>1, <1>4, <1>5, <1>6, <1>7 DEF BookOK

LEMMA StepOfCommit ==
  ASSUME FullInv, Commit
  PROVE  FullInv'
<1>1. /\ AllRead /\ at' = "committed"
      /\ cards' = [c \in DOMAIN cards |->
                    [cards[c] EXCEPT !.rows = IF LinkedTo(c) = {} THEN @ ELSE Cardinality(LinkedTo(c))]]
      /\ marker' = [cards |-> Len(cards), issues |-> Len(issues), tally |-> tally,
                    openings |-> Cardinality({c \in DOMAIN cards : cards[c].receipt.opening}),
                    quarantine |-> Cardinality({e \in Entries : EntryAt(e).quarantined})]
      /\ UNCHANGED <<book, issues, ledger, relations, tally>>
  BY DEF Commit
<1>2. /\ BookOK(book, cards, issues, ledger["RECEIPT"], ledger["ISSUE"], relations)
      /\ LedgerOK(ledger, tally) /\ AreCards(cards)
  BY DEF FullInv
<1>3. IsBook(book) /\ IsList(cards) /\ IsList(issues)
  BY <1>2 DEF BookOK, CardsOK, IssuesOK
<1>4. Len(cards) \in Nat /\ DOMAIN cards = 1 .. Len(cards) /\ IsFiniteSet(DOMAIN cards) /\ Len(issues) \in Nat
  <2>1. Len(cards) \in Nat /\ DOMAIN cards = 1 .. Len(cards) /\ Len(issues) \in Nat
    BY <1>3 DEF IsList
  <2> QED
    BY <2>1, FS_Interval
<1>5. PICK cs2 : cs2 = cards'
  OBVIOUS
<1>6. /\ DOMAIN cs2 = DOMAIN cards
      /\ \A c \in DOMAIN cards : \E n :
           /\ cs2[c] = BuiltCard(cards[c].key, cards[c].receipt, cards[c].current, n)
           /\ LinkedIn(book, ledger, c) # {} => n = Cardinality(LinkedIn(book, ledger, c))
  <2>1. DOMAIN cs2 = DOMAIN cards
    BY <1>1, <1>5
  <2>2. ASSUME NEW c \in DOMAIN cards
        PROVE  \E n : /\ cs2[c] = BuiltCard(cards[c].key, cards[c].receipt, cards[c].current, n)
                      /\ LinkedIn(book, ledger, c) # {} => n = Cardinality(LinkedIn(book, ledger, c))
    <3>1. PICK linked : linked = LinkedTo(c) /\ linked = LinkedIn(book, ledger, c)
      BY EntriesOfBook
    <3>2. PICK x : x = cards[c]
      OBVIOUS
    <3>3. PICK n : n = IF linked = {} THEN x.rows ELSE Cardinality(linked)
      OBVIOUS
    <3>4. x = BuiltCard(x.key, x.receipt, x.current, x.rows)
      BY <1>2, <3>2 DEF AreCards, IsCard
    <3>5. cs2[c] = [x EXCEPT !.rows = n]
      BY <1>1, <1>5, <3>1, <3>2, <3>3
    <3>6. [x EXCEPT !.rows = n] = BuiltCard(x.key, x.receipt, x.current, n)
      BY ONLY <3>4 DEF BuiltCard
    <3> QED
      BY <3>1, <3>2, <3>3, <3>5, <3>6
  <2> QED
    BY <2>1, <2>2
<1>7. ASSUME NEW c \in DOMAIN cards
      PROVE  /\ IsCard(cs2[c]) /\ cs2[c].key = cards[c].key /\ cs2[c].receipt = cards[c].receipt
             /\ cs2[c].current = cards[c].current
             /\ LinkedIn(book, ledger, c) # {} => cs2[c].rows = Cardinality(LinkedIn(book, ledger, c))
  <2>1. PICK n : /\ cs2[c] = BuiltCard(cards[c].key, cards[c].receipt, cards[c].current, n)
                 /\ LinkedIn(book, ledger, c) # {} => n = Cardinality(LinkedIn(book, ledger, c))
    BY <1>6
  <2> QED
    BY ONLY <2>1 DEF BuiltCard, IsCard
<1>8. IsList(cs2) /\ Len(cs2) = Len(cards)
  <2>1. cs2 = [c \in DOMAIN cs2 |-> cs2[c]]
    BY <1>1, <1>5
  <2>2. DOMAIN cs2 = 1 .. Len(cards) /\ Len(cards) \in Nat
    BY <1>4, <1>6
  <2>3. \A c \in DOMAIN cs2 : cs2[c] \in Range(cs2)
    BY DEF Range
  <2>4. cs2 \in Seq(Range(cs2)) /\ Len(cs2) = Len(cards)
    BY ONLY <2>1, <2>2, <2>3
  <2> QED
    BY <2>4 DEF IsList
<1>9. KeepCards(cards, cs2) /\ AreCards(cs2)
  BY <1>6, <1>7 DEF KeepCards, AreCards
<1>10. BookOK(book, cs2, issues, ledger["RECEIPT"], ledger["ISSUE"], relations)
  BY <1>2, <1>6, <1>8, <1>9, RowsAreCounted
<1>11. \A s \in Sheets : \A r \in DOMAIN ledger[s] : ledger[s][r].status # "UNREAD"
  <2>1. DOMAIN ledger["RECEIPT"] = Rows("RECEIPT") /\ DOMAIN ledger["ISSUE"] = Rows("ISSUE")
    BY <1>2 DEF BookOK, ReceiptsOK, IssuesOK, Rows
  <2> QED
    BY <1>1, <2>1 DEF AllRead, ToRead, Sheets
<1>12. PICK openings : openings = Cardinality({c \in DOMAIN cards : cards[c].receipt.opening})
  OBVIOUS
<1>13. PICK quarantine : quarantine = Cardinality({e \in Entries : EntryAt(e).quarantined})
  OBVIOUS
<1>14. openings \in Nat /\ quarantine \in Nat
  <2>1. IsFiniteSet(Entries)
    BY <1>3, EntriesOfBook, EntriesCount
  <2> QED
    BY <1>4, <1>12, <1>13, <2>1, FS_Subset, FS_CardinalityType
<1>15. marker' = [cards |-> Len(cards), issues |-> Len(issues), tally |-> tally,
                  openings |-> openings, quarantine |-> quarantine]
  BY <1>1, <1>12, <1>13
<1>16. PICK m : m = marker'
  OBVIOUS
<1>17. m \in Totals /\ m.tally = tally /\ m.cards = Len(cs2) /\ m.issues = Len(issues)
  <2>1. tally \in Tallies
    BY <1>2 DEF LedgerOK
  <2> QED
    BY <1>4, <1>8, <1>14, <1>15, <1>16, <2>1 DEF Totals
<1>18. Finished(book, cs2, issues, ledger, tally, m)
  BY <1>6, <1>7, <1>11, <1>17 DEF Finished
<1> QED
  BY <1>1, <1>2, <1>5, <1>9, <1>10, <1>16, <1>18 DEF FullInv

LEMMA StepOfRefuse ==
  ASSUME FullInv, Refuse
  PROVE  FullInv'
<1>1. PICK b : b = book
  OBVIOUS
<1>2. PICK cs : cs = <<>>
  OBVIOUS
<1>3. PICK led : led = [s \in Sheets |-> [r \in DOMAIN b[s] |-> Unread]]
  OBVIOUS
<1>4. PICK t : t = [s \in Sheets |-> [c \in Statuses |-> 0]]
  OBVIOUS
<1>5. /\ at' = "refused" /\ book' = b /\ cards' = cs /\ issues' = cs /\ relations' = {} /\ ledger' = led /\ tally' = t
  BY <1>1, <1>2, <1>3, <1>4 DEF Refuse, Rows
<1>6. IsBook(b)
  BY <1>1 DEF FullInv, BookOK
<1>7. LedgerOK(led, t)
  BY ONLY <1>3, <1>4, NothingIsCounted
<1>8. BookOK(b, cs, cs, led["RECEIPT"], led["ISSUE"], {})
  <2>1. led["RECEIPT"] = [r \in DOMAIN b["RECEIPT"] |-> Unread] /\ led["ISSUE"] = [r \in DOMAIN b["ISSUE"] |-> Unread]
    BY <1>3 DEF Sheets
  <2> QED
    BY ONLY <1>2, <1>6, <2>1, NothingIsOK
<1>9. AreCards(cs)
  BY <1>2 DEF AreCards
<1> QED
  BY <1>5, <1>7, <1>8, <1>9 DEF FullInv

LEMMA FullStep == FullInv /\ [NextFull]_fullVars => FullInv'
<1> SUFFICES ASSUME FullInv, [NextFull]_fullVars PROVE FullInv'
  OBVIOUS
<1>1. ASSUME NEW r \in Rows("RECEIPT"), ImportGroup(r) PROVE FullInv'
  BY <1>1, StepOfGroup
<1>2. ASSUME NEW r \in Rows("RECEIPT"), DeferReceipt(r) PROVE FullInv'
  BY <1>2, StepOfDeferReceipt
<1>3. ASSUME NEW r \in Rows("ISSUE"), DeferIssue(r) PROVE FullInv'
  BY <1>3, StepOfDeferIssue
<1>4. ASSUME NEW r \in Rows("ISSUE"), RepeatIssue(r) PROVE FullInv'
  BY <1>4, StepOfRepeat
<1>5. ASSUME NEW r \in Rows("ISSUE"), ImportIssue(r) PROVE FullInv'
  BY <1>5, StepOfImport
<1>6. CASE Commit
  BY <1>6, StepOfCommit
<1>7. CASE Refuse
  BY <1>7, StepOfRefuse
<1>8. CASE Check
  <2>1. UNCHANGED <<book, cards, issues, ledger, relations, tally, marker>> /\ at = "committed"
    BY <1>8 DEF Check, tables
  <2> QED
    BY <2>1 DEF FullInv
<1>9. CASE UNCHANGED fullVars
  <2>1. UNCHANGED <<book, at, cards, issues, ledger, relations, tally, marker>>
    BY <1>9 DEF fullVars, tables
  <2> QED
    BY <2>1 DEF FullInv
<1> QED
  BY <1>1, <1>2, <1>3, <1>4, <1>5, <1>6, <1>7, <1>8, <1>9 DEF NextFull

-----------------------------------------------------------------------------
(* What the ledger of a finished build says. *)

CardStatuses == ImportedStatuses \cup IssuedStatuses \cup
  {"EXACT_DUPLICATE", "CONFLICT_HISTORY_ONLY", "LINKED_TO_EXISTING_IDENTITY"}

\* What the entry x of a row says, once all rows are read.
IsPlaced(s, r, x, row) ==
  /\ x.card # None <=> Serialized(s, row)
  /\ x.card = None => x = Deferral(s, row)
  /\ x.card # None =>
       /\ x.card \in DOMAIN cards /\ cards[x.card].key = KeyOf(row.cell)
       /\ ~x.quarantined /\ x.status \in CardStatuses
       /\ s = "RECEIPT" => ~cards[x.card].receipt.opening
       /\ s = "ISSUE" => IsIssued(issues, x.card)
  /\ x.issue # None =>
       /\ s = "ISSUE" /\ x.card # None /\ x.status \in IssuedStatuses
       /\ x.issue \in DOMAIN issues /\ issues[x.issue] = Issue(x.card, r)

LEMMA FullInvFacts ==
  ASSUME FullInv
  PROVE  /\ IsBook(book) /\ IsList(cards) /\ IsList(issues) /\ CardsOK(book, cards)
         /\ ReceiptsOK(book, cards, ledger["RECEIPT"])
         /\ IssuesOK(book, cards, issues, ledger["ISSUE"], relations)
         /\ \A s \in Sheets : DOMAIN ledger[s] = DOMAIN book[s]
         /\ LedgerOK(ledger, tally)
         /\ Built => Finished(book, cards, issues, ledger, tally, marker)
<1>1. /\ IsBook(book) /\ CardsOK(book, cards) /\ ReceiptsOK(book, cards, ledger["RECEIPT"])
      /\ IssuesOK(book, cards, issues, ledger["ISSUE"], relations)
  BY DEF FullInv, BookOK
<1>2. LedgerOK(ledger, tally) /\ (Built => Finished(book, cards, issues, ledger, tally, marker))
  BY DEF FullInv, Built
<1>3. IsList(cards) /\ IsList(issues) /\ \A s \in Sheets : DOMAIN ledger[s] = DOMAIN book[s]
  BY <1>1 DEF CardsOK, IssuesOK, ReceiptsOK, Sheets
<1> QED
  BY <1>1, <1>2, <1>3

LEMMA RowIsPlaced ==
  ASSUME FullInv, Built, NEW s \in Sheets, NEW r \in DOMAIN book[s],
         NEW x, x = ledger[s][r], NEW row, row = book[s][r]
  PROVE  IsPlaced(s, r, x, row)
<1>1. x # Unread
  <2>1. x.status # "UNREAD"
    BY FullInvFacts DEF Finished
  <2> QED
    BY <2>1 DEF Unread
<1>2. (\A c \in DOMAIN cards : c # None) /\ \A i \in DOMAIN issues : i # None
  BY FullInvFacts, BooksAreSheets DEF IsList
<1>3. CASE s = "RECEIPT"
  <2>1. ReceiptOK(book, cards, x, r)
    BY <1>3, FullInvFacts DEF ReceiptsOK
  <2>2. x.issue = None
    BY <2>1, FullInvFacts, ReceiptFacts
  <2>3. CASE ~Serialized("RECEIPT", row) /\ x = Deferral("RECEIPT", row)
    <3>1. x.card = None
      BY <2>3, DeferralFacts
    <3> QED
      BY <1>3, <2>2, <2>3, <3>1 DEF IsPlaced
  <2>4. CASE /\ Serialized("RECEIPT", row)
             /\ x.card \in DOMAIN cards /\ cards[x.card].key = KeyOf(row.cell) /\ ~cards[x.card].receipt.opening
             /\ x = Entry(StatusIn(book, r, GroupIn(book, KeyOf(row.cell))), x.card, None)
    <3>1. PICK st : st = StatusIn(book, r, GroupIn(book, KeyOf(row.cell)))
      OBVIOUS
    <3>2. st \in CardStatuses
      BY <3>1, StatusFacts DEF CardStatuses
    <3>3. x.status = st /\ ~x.quarantined
      BY <2>4, <3>1 DEF Entry
    <3>4. x.card # None
      BY <1>2, <2>4
    <3> QED
      BY <1>3, <2>2, <2>4, <3>2, <3>3, <3>4 DEF IsPlaced
  <2>5. row = book["RECEIPT"][r]
    BY <1>3
  <2>6. \/ ~Serialized("RECEIPT", row) /\ x = Deferral("RECEIPT", row)
        \/ /\ Serialized("RECEIPT", row)
           /\ x.card \in DOMAIN cards /\ cards[x.card].key = KeyOf(row.cell) /\ ~cards[x.card].receipt.opening
           /\ x = Entry(StatusIn(book, r, GroupIn(book, KeyOf(row.cell))), x.card, None)
    BY ONLY <1>1, <2>1, <2>5 DEF ReceiptOK
  <2> QED
    BY <2>3, <2>4, <2>6, Zenon
<1>4. CASE s = "ISSUE"
  <2>1. IssueRowOK(book, cards, issues, x, r)
    BY <1>4, FullInvFacts DEF IssuesOK
  <2>2. CASE ~Serialized("ISSUE", row) /\ x = Deferral("ISSUE", row)
    <3>1. x.card = None /\ x.issue = None
      BY <2>2, DeferralFacts
    <3> QED
      BY <1>4, <2>2, <3>1 DEF IsPlaced
  <2>3. CASE /\ Serialized("ISSUE", row)
             /\ x.card \in DOMAIN cards /\ cards[x.card].key = KeyOf(row.cell) /\ IsIssued(issues, x.card)
             /\ x = Entry(x.status, x.card, x.issue)
             /\ \/ x.status \in {"EXACT_DUPLICATE", "CONFLICT_HISTORY_ONLY"} /\ x.issue = None
                \/ x.status \in IssuedStatuses /\ x.issue \in DOMAIN issues /\ issues[x.issue] = Issue(x.card, r)
    <3>1. ~x.quarantined
      BY ONLY <2>3 DEF Entry
    <3>2. x.status \in CardStatuses
      BY <2>3 DEF CardStatuses
    <3>3. x.card # None
      BY <1>2, <2>3
    <3> QED
      BY <1>4, <2>3, <3>1, <3>2, <3>3 DEF IsPlaced
  <2>4. row = book["ISSUE"][r]
    BY <1>4
  <2>5. \/ ~Serialized("ISSUE", row) /\ x = Deferral("ISSUE", row)
        \/ /\ Serialized("ISSUE", row)
           /\ x.card \in DOMAIN cards /\ cards[x.card].key = KeyOf(row.cell) /\ IsIssued(issues, x.card)
           /\ x = Entry(x.status, x.card, x.issue)
           /\ \/ x.status \in {"EXACT_DUPLICATE", "CONFLICT_HISTORY_ONLY"} /\ x.issue = None
              \/ x.status \in IssuedStatuses /\ x.issue \in DOMAIN issues /\ issues[x.issue] = Issue(x.card, r)
    BY ONLY <1>1, <2>1, <2>4 DEF IssueRowOK
  <2> QED
    BY <2>2, <2>3, <2>5, Zenon
<1> QED
  BY <1>3, <1>4 DEF Sheets

LEMMA EntryParts ==
  ASSUME NEW st, NEW c, NEW i, NEW e, e = Entry(st, c, i)
  PROVE  e.status = st /\ e.card = c /\ e.issue = i /\ ~e.quarantined
BY DEF Entry

LEMMA EntryIs ==
  /\ \A e \in Entries : e.sheet \in Sheets /\ e.row \in DOMAIN book[e.sheet] /\ e = [sheet |-> e.sheet, row |-> e.row]
  /\ \A s \in Sheets : \A r \in DOMAIN book[s] :
       LET e == [sheet |-> s, row |-> r] IN e \in Entries /\ e.sheet = s /\ e.row = r
BY DEF Entries, Rows

LEMMA EntryIsPlaced ==
  ASSUME FullInv, Built, NEW e \in Entries
  PROVE  IsPlaced(e.sheet, e.row, EntryAt(e), RowAt(e))
BY EntryIs, RowIsPlaced DEF EntryAt, RowAt

LEMMA KeyIs ==
  ASSUME NEW cell, NEW key, key = KeyOf(cell)
  PROVE  /\ Provisional(cell) => key[1] = "NUMERIC_FORMAT_UNPROVEN" /\ key = <<"NUMERIC_FORMAT_UNPROVEN", cell.value>>
         /\ Preservation(cell) = "TEXT_EXACT" => key[1] = "TEXT_EXACT"
BY DEF KeyOf, Provisional

\* What is spent of a card is one issue at most.
LEMMA Spent ==
  ASSUME FullInv, NEW c
  PROVE  LET spent == {i \in DOMAIN issues : issues[i].card = c}
         IN  /\ ~IsIssued(issues, c) => Cardinality(spent) = 0
             /\ IsIssued(issues, c) => Cardinality(spent) = 1
<1> DEFINE spent == {i \in DOMAIN issues : issues[i].card = c}
<1>1. CASE ~IsIssued(issues, c)
  <2>1. spent = {}
    BY <1>1 DEF IsIssued
  <2>2. Cardinality(spent) = 0
    BY <2>1, FS_EmptySet
  <2> QED
    BY <1>1, <2>2
<1>2. CASE IsIssued(issues, c)
  <2>1. PICK i : i \in spent
    BY <1>2 DEF IsIssued
  <2>2. spent = {i}
    BY <2>1, FullInvFacts DEF IssuesOK
  <2>3. Cardinality(spent) = 1
    BY <2>2, FS_Singleton
  <2> QED
    BY <1>2, <2>3
<1> QED
  BY <1>1, <1>2

-----------------------------------------------------------------------------
(* The properties of the build. *)

LEMMA Validates ==
  ASSUME FullInv
  PROVE  BuiltPassesValidation
<1> SUFFICES ASSUME at = "committed" PROVE Validated
  BY DEF BuiltPassesValidation
<1>1. Built
  BY DEF Built
<1>2. CountsMatch
  <2>1. Finished(book, cards, issues, ledger, tally, marker)
    BY <1>1, FullInvFacts
  <2>2. ASSUME NEW s \in Sheets, NEW c \in Statuses
        PROVE  marker.tally[s][c] = Cardinality({r \in Rows(s) : ledger[s][r].status = c})
    BY <2>1, FullInvFacts DEF Finished, LedgerOK, TallyOK, Rows
  <2> QED
    BY <2>1, <2>2 DEF CountsMatch, Finished
<1>3. DamageIsolated
  <2> SUFFICES ASSUME NEW e \in Entries
               PROVE  /\ Preservation(RowAt(e).cell) = "SOURCE_CORRUPTED" => EntryAt(e).card = None
                      /\ EntryAt(e).quarantined => EntryAt(e).card = None /\ EntryAt(e).issue = None
    BY DEF DamageIsolated
  <2> QED
    BY <1>1, EntryIsPlaced DEF IsPlaced, Serialized, Keyed
<1>4. NumbersApart
  <2> SUFFICES ASSUME NEW e \in Entries, EntryAt(e).card # None, Provisional(RowAt(e).cell)
               PROVE  cards[EntryAt(e).card].key[1] = "NUMERIC_FORMAT_UNPROVEN"
    BY DEF NumbersApart
  <2> QED
    BY <1>1, EntryIsPlaced, KeyIs DEF IsPlaced
<1>5. NoNegativeBalance
  <2> SUFFICES ASSUME NEW c \in DOMAIN cards
               PROVE  Cardinality({i \in DOMAIN issues : issues[i].card = c}) <= 1
    BY DEF NoNegativeBalance
  <2>1. /\ ~IsIssued(issues, c) => Cardinality({i \in DOMAIN issues : issues[i].card = c}) = 0
        /\ IsIssued(issues, c) => Cardinality({i \in DOMAIN issues : issues[i].card = c}) = 1
    BY Spent, Zenon
  <2> QED
    BY <2>1
<1>6. Provenance
  BY FullInvFacts DEF Provenance, IssuesOK, Rows, Sheets
<1> QED
  BY <1>2, <1>3, <1>4, <1>5, <1>6 DEF Validated

LEMMA KeysAreKept ==
  ASSUME FullInv
  PROVE  CardsAreTheKeys
<1> SUFFICES ASSUME Built
             PROVE  /\ \A c, d \in DOMAIN cards : cards[c].key = cards[d].key => c = d
                    /\ {cards[c].key : c \in DOMAIN cards} = {KeyOf(RowAt(e).cell) : e \in {x \in Entries : Stand(x)}}
                    /\ {cards[issues[i].card].key : i \in DOMAIN issues} =
                         {KeyOf(RowAt(e).cell) : e \in {x \in Entries : Stand(x) /\ x.sheet = "ISSUE"}}
  BY DEF CardsAreTheKeys
<1>1. \A c, d \in DOMAIN cards : cards[c].key = cards[d].key => c = d
  BY FullInvFacts DEF CardsOK
<1>2. ASSUME NEW c \in DOMAIN cards
      PROVE  \E e \in Entries : Stand(e) /\ cards[c].key = KeyOf(RowAt(e).cell)
  <2>1. PICK s \in Sheets : /\ cards[c].current \in DOMAIN book[s] /\ Serialized(s, book[s][cards[c].current])
                            /\ cards[c].key = KeyOf(book[s][cards[c].current].cell)
    BY FullInvFacts DEF CardsOK, CardOK, Sheets
  <2>2. PICK e \in Entries : e.sheet = s /\ e.row = cards[c].current
    BY <2>1, EntryIs
  <2> QED
    BY <2>1, <2>2 DEF Stand, RowAt
<1>3. ASSUME NEW e \in Entries, Stand(e)
      PROVE  /\ \E c \in DOMAIN cards : cards[c].key = KeyOf(RowAt(e).cell)
             /\ e.sheet = "ISSUE" => \E i \in DOMAIN issues : cards[issues[i].card].key = KeyOf(RowAt(e).cell)
  BY <1>3, EntryIsPlaced DEF Stand, IsPlaced, IsIssued
<1>4. ASSUME NEW i \in DOMAIN issues
      PROVE  \E e \in Entries : Stand(e) /\ e.sheet = "ISSUE" /\ cards[issues[i].card].key = KeyOf(RowAt(e).cell)
  <2>1. PICK r \in DOMAIN book["ISSUE"] : ledger["ISSUE"][r].issue = i /\ r = issues[i].row
    BY FullInvFacts DEF IssuesOK, Sheets
  <2>2. PICK e \in Entries : e.sheet = "ISSUE" /\ e.row = r
    BY <2>1, EntryIs DEF Sheets
  <2>3. i # None
    BY FullInvFacts, BooksAreSheets DEF IsList
  <2>4. EntryAt(e).issue = i
    BY <2>1, <2>2 DEF EntryAt
  <2>5. issues[i] = Issue(EntryAt(e).card, r) /\ Stand(e) /\ cards[EntryAt(e).card].key = KeyOf(RowAt(e).cell)
    BY <2>2, <2>3, <2>4, EntryIsPlaced DEF IsPlaced, Stand
  <2>6. issues[i].card = EntryAt(e).card
    BY <2>5 DEF Issue
  <2> QED
    BY <2>2, <2>5, <2>6
<1>5. {cards[c].key : c \in DOMAIN cards} = {KeyOf(RowAt(e).cell) : e \in {x \in Entries : Stand(x)}}
  BY <1>2, <1>3
<1>6. {cards[issues[i].card].key : i \in DOMAIN issues} =
        {KeyOf(RowAt(e).cell) : e \in {x \in Entries : Stand(x) /\ x.sheet = "ISSUE"}}
  BY <1>3, <1>4
<1> QED
  BY <1>1, <1>5, <1>6

\* Values that do not differ are one.
LEMMA NoTwo ==
  ASSUME NEW S, IsFiniteSet(S), ~(Cardinality(S) > 1), NEW x \in S, NEW y \in S
  PROVE  x = y
<1> SUFFICES ASSUME x # y PROVE FALSE
  OBVIOUS
<1>1. IsFiniteSet({x}) /\ Cardinality({x}) = 1
  BY FS_Singleton
<1>2. Cardinality({x} \cup {y}) = 2 /\ IsFiniteSet({x} \cup {y})
  <2>1. PICK T : T = {x}
    OBVIOUS
  <2>2. IsFiniteSet(T) /\ Cardinality(T) = 1 /\ y \notin T
    BY <1>1, <2>1
  <2>3. Cardinality(T \cup {y}) = 2 /\ IsFiniteSet(T \cup {y})
    BY ONLY <2>2, FS_AddElement
  <2> QED
    BY <2>1, <2>3
<1>3. {x} \cup {y} \in SUBSET S
  OBVIOUS
<1>4. Cardinality({x} \cup {y}) <= Cardinality(S) /\ Cardinality(S) \in Nat
  BY <1>3, FS_Subset, FS_CardinalityType
<1> QED
  BY <1>2, <1>4

LEMMA Agree ==
  ASSUME NEW b, IsBook(b), NEW g \in SUBSET DOMAIN b["RECEIPT"], ~DisagreeIn(b, g), NEW x \in g, NEW y \in g
  PROVE  /\ b["RECEIPT"][x].cell.value = b["RECEIPT"][y].cell.value
         /\ \A f \in Fields : \/ Blank \in {b["RECEIPT"][x].attrs[f], b["RECEIPT"][y].attrs[f]}
                              \/ b["RECEIPT"][x].attrs[f] = b["RECEIPT"][y].attrs[f]
<1>1. IsFiniteSet(g)
  BY BookFacts, FS_Subset DEF Sheets
<1>2. b["RECEIPT"][x].cell.value = b["RECEIPT"][y].cell.value
  <2> DEFINE S == {b["RECEIPT"][r].cell.value : r \in g}
             h == [r \in g |-> b["RECEIPT"][r].cell.value]
  <2>1. h \in Surjection(g, S)
    BY DEF Surjection
  <2>2. IsFiniteSet(S)
    BY ONLY <1>1, <2>1, FS_Surjection
  <2>3. ~(Cardinality(S) > 1)
    BY DEF DisagreeIn
  <2>4. b["RECEIPT"][x].cell.value \in S /\ b["RECEIPT"][y].cell.value \in S
    OBVIOUS
  <2> HIDE DEF S
  <2> QED
    BY <2>2, <2>3, <2>4, NoTwo
<1>3. ASSUME NEW f \in Fields, b["RECEIPT"][x].attrs[f] # Blank, b["RECEIPT"][y].attrs[f] # Blank
      PROVE  b["RECEIPT"][x].attrs[f] = b["RECEIPT"][y].attrs[f]
  <2> DEFINE V == {b["RECEIPT"][r].attrs[f] : r \in g}
             S == V \ {Blank}
             h == [r \in g |-> b["RECEIPT"][r].attrs[f]]
  <2>1. h \in Surjection(g, V)
    BY DEF Surjection
  <2>2. IsFiniteSet(V)
    BY ONLY <1>1, <2>1, FS_Surjection
  <2>3. IsFiniteSet(S)
    BY <2>2, FS_Subset
  <2>4. ~(Cardinality(S) > 1)
    BY DEF DisagreeIn
  <2>5. b["RECEIPT"][x].attrs[f] \in S /\ b["RECEIPT"][y].attrs[f] \in S
    BY <1>3
  <2> HIDE DEF S, V
  <2> QED
    BY <2>3, <2>4, <2>5, NoTwo
<1> QED
  BY <1>2, <1>3

\* The receipt rows of a card are the group of its key.
LEMMA RowsOfCard ==
  ASSUME FullInv, NEW c \in DOMAIN cards, ~cards[c].receipt.opening, NEW g, g = GroupIn(book, cards[c].key)
  PROVE  /\ g = {r \in Rows("RECEIPT") : ledger["RECEIPT"][r].card = c}
         /\ \A r \in g : ledger["RECEIPT"][r] = Entry(StatusIn(book, r, g), c, None)
         /\ cards[c].current = LatestIn(book, g) /\ cards[c].current \in g
         /\ \A r \in g : book["RECEIPT"][r].date <= book["RECEIPT"][cards[c].current].date
<1>1. /\ cards[c].current \in DOMAIN book["RECEIPT"] /\ Serialized("RECEIPT", book["RECEIPT"][cards[c].current])
      /\ cards[c].key = KeyOf(book["RECEIPT"][cards[c].current].cell) /\ cards[c].current = LatestIn(book, g)
  BY FullInvFacts DEF CardsOK, CardOK
<1>2. cards[c].current \in g /\ g \in SUBSET DOMAIN book["RECEIPT"]
  BY <1>1 DEF GroupIn
<1>3. \A r \in g : book["RECEIPT"][r].date <= book["RECEIPT"][cards[c].current].date
  BY <1>1, <1>2, LatestExists, FullInvFacts
<1>4. c # None
  BY FullInvFacts, BooksAreSheets DEF IsList
<1>5. ASSUME NEW r \in DOMAIN book["RECEIPT"], ledger["RECEIPT"][r].card = c
      PROVE  r \in g /\ ledger["RECEIPT"][r] = Entry(StatusIn(book, r, g), c, None)
  <2>1. PICK e : e = ledger["RECEIPT"][r]
    OBVIOUS
  <2>2. ReceiptOK(book, cards, e, r) /\ e.card = c
    BY <1>5, <2>1, FullInvFacts DEF ReceiptsOK
  <2>3. e # Unread
    BY <1>4, <2>2 DEF Unread
  <2>4. e # Deferral("RECEIPT", book["RECEIPT"][r])
    BY <1>4, <2>2, DeferralFacts
  <2>5. /\ Serialized("RECEIPT", book["RECEIPT"][r]) /\ cards[c].key = KeyOf(book["RECEIPT"][r].cell)
        /\ e = Entry(StatusIn(book, r, GroupIn(book, KeyOf(book["RECEIPT"][r].cell))), c, None)
    BY <2>2, <2>3, <2>4 DEF ReceiptOK
  <2> QED
    BY <2>1, <2>5 DEF GroupIn
<1>6. \A r \in g : r \in Rows("RECEIPT") /\ ledger["RECEIPT"][r].card = c
  BY <1>2, FullInvFacts DEF ReceiptsOK, Rows
<1> QED
  BY <1>1, <1>2, <1>3, <1>5, <1>6 DEF Rows

LEMMA RowsAreTrue ==
  ASSUME FullInv
  PROVE  RowsTellTheTruth
<1>1. ASSUME NEW c \in DOMAIN cards, ~cards[c].receipt.opening, NEW of,
             of = {r \in Rows("RECEIPT") : ledger["RECEIPT"][r].card = c}
      PROVE  /\ {r \in of : ledger["RECEIPT"][r].status \in
                              {"IMPORTED", "NUMERIC_PROVISIONAL_IMPORTED"}} = {cards[c].current}
             /\ \A r \in of : book["RECEIPT"][r].date <= book["RECEIPT"][cards[c].current].date
  <2>1. PICK g : g = GroupIn(book, cards[c].key)
    OBVIOUS
  <2>2. /\ g = of
        /\ \A r \in g : ledger["RECEIPT"][r] = Entry(StatusIn(book, r, g), c, None)
        /\ cards[c].current = LatestIn(book, g) /\ cards[c].current \in g
        /\ \A r \in g : book["RECEIPT"][r].date <= book["RECEIPT"][cards[c].current].date
    BY <1>1, <2>1, RowsOfCard
  <2>3. ASSUME NEW r \in g PROVE ledger["RECEIPT"][r].status \in ImportedStatuses <=> r = cards[c].current
    <3>1. PICK st : st = StatusIn(book, r, g)
      OBVIOUS
    <3>2. ledger["RECEIPT"][r].status = st
      BY <2>2, <3>1, EntryParts
    <3>3. st \in ImportedStatuses <=> r = LatestIn(book, g)
      BY <3>1, StatusFacts
    <3> QED
      BY <2>2, <3>2, <3>3
  <2> QED
    BY <2>2, <2>3 DEF ImportedStatuses
<1>2. ASSUME NEW e \in Entries, EntryAt(e).status = "EXACT_DUPLICATE"
      PROVE  \E o \in Entries :
               /\ o.sheet = e.sheet /\ RowAt(o) = RowAt(e) /\ EntryAt(o).card = EntryAt(e).card
               /\ EntryAt(o).status # "EXACT_DUPLICATE"
  <2>1. \A s \in Sheets : \A o \in DOMAIN book[s] :
          /\ s = e.sheet /\ book[s][o] = book[s][e.row] /\ ledger[s][o].card = ledger[s][e.row].card
          /\ ledger[s][o].status # "EXACT_DUPLICATE"
          => \E x \in Entries : /\ x.sheet = e.sheet /\ RowAt(x) = RowAt(e) /\ EntryAt(x).card = EntryAt(e).card
                                /\ EntryAt(x).status # "EXACT_DUPLICATE"
    <3> SUFFICES ASSUME NEW s \in Sheets, NEW o \in DOMAIN book[s],
                        s = e.sheet, book[s][o] = book[s][e.row],
                        ledger[s][o].card = ledger[s][e.row].card, ledger[s][o].status # "EXACT_DUPLICATE"
                 PROVE  \E x \in Entries : /\ x.sheet = e.sheet /\ RowAt(x) = RowAt(e)
                                            /\ EntryAt(x).card = EntryAt(e).card
                                            /\ EntryAt(x).status # "EXACT_DUPLICATE"
      OBVIOUS
    <3>1. PICK x \in Entries : x.sheet = s /\ x.row = o
      BY EntryIs
    <3> QED
      BY <3>1 DEF RowAt, EntryAt
  <2>2. e.sheet \in Sheets /\ e.row \in DOMAIN book[e.sheet]
    BY EntryIs
  <2>3. CASE e.sheet = "RECEIPT"
    <3>1. PICK x : x = ledger["RECEIPT"][e.row]
      OBVIOUS
    <3>2. ReceiptOK(book, cards, x, e.row) /\ x.status = "EXACT_DUPLICATE"
      BY <1>2, <2>2, <2>3, <3>1, FullInvFacts DEF ReceiptsOK, EntryAt
    <3>3. x # Unread /\ x # Deferral("RECEIPT", book["RECEIPT"][e.row])
      BY <3>2, DeferralFacts DEF Unread
    <3>4. x.card \in DOMAIN cards /\ ~cards[x.card].receipt.opening
      BY <3>2, <3>3 DEF ReceiptOK
    <3>5. PICK c : c = x.card
      OBVIOUS
    <3>6. PICK g : g = GroupIn(book, cards[c].key)
      OBVIOUS
    <3>7. /\ g = {r \in Rows("RECEIPT") : ledger["RECEIPT"][r].card = c}
          /\ \A r \in g : ledger["RECEIPT"][r] = Entry(StatusIn(book, r, g), c, None)
          /\ cards[c].current = LatestIn(book, g) /\ cards[c].current \in g
      BY <3>4, <3>5, <3>6, RowsOfCard
    <3>8. e.row \in g
      BY <2>2, <2>3, <3>1, <3>5, <3>7 DEF Rows
    <3>9. PICK st : st = StatusIn(book, e.row, g)
      OBVIOUS
    <3>10. st = "EXACT_DUPLICATE"
      BY <3>1, <3>2, <3>7, <3>8, <3>9, EntryParts
    <3>11. book["RECEIPT"][e.row] = book["RECEIPT"][LatestIn(book, g)]
      BY <3>9, <3>10, StatusFacts
    <3>12. PICK sl : sl = StatusIn(book, LatestIn(book, g), g)
      OBVIOUS
    <3>13. sl # "EXACT_DUPLICATE"
      BY <3>12, StatusFacts DEF ImportedStatuses
    <3>14. LatestIn(book, g) \in g
      BY <3>7
    <3>15. ledger["RECEIPT"][LatestIn(book, g)] = Entry(sl, c, None)
      BY <3>7, <3>12, <3>14
    <3>16. LatestIn(book, g) \in DOMAIN book["RECEIPT"]
      BY <3>7, <3>14 DEF Rows
    <3>17. /\ ledger["RECEIPT"][LatestIn(book, g)].status # "EXACT_DUPLICATE"
           /\ LatestIn(book, g) \in DOMAIN book["RECEIPT"]
           /\ ledger["RECEIPT"][LatestIn(book, g)].card = ledger["RECEIPT"][e.row].card
      BY <3>1, <3>5, <3>13, <3>15, <3>16, EntryParts
    <3> QED
      BY <2>1, <2>3, <3>11, <3>17 DEF Sheets
  <2>4. CASE e.sheet = "ISSUE"
    <3>1. Repeats(book, ledger["ISSUE"], e.row) /\ DOMAIN ledger["ISSUE"] = DOMAIN book["ISSUE"]
      BY <1>2, <2>2, <2>4, FullInvFacts DEF IssuesOK, EntryAt
    <3>2. PICK o \in DOMAIN book["ISSUE"] : /\ book["ISSUE"][o] = book["ISSUE"][e.row]
                                            /\ ledger["ISSUE"][o].card = ledger["ISSUE"][e.row].card
                                            /\ ledger["ISSUE"][o].status # "EXACT_DUPLICATE"
      BY <3>1 DEF Repeats
    <3> QED
      BY <2>1, <2>4, <3>2 DEF Sheets
  <2> QED
    BY <2>2, <2>3, <2>4 DEF Sheets
<1>3. ASSUME NEW c \in DOMAIN cards, ~cards[c].receipt.opening
      PROVE  LET of == {r \in Rows("RECEIPT") : ledger["RECEIPT"][r].card = c}
             IN  /\ {r \in of : ledger["RECEIPT"][r].status \in
                                 {"IMPORTED", "NUMERIC_PROVISIONAL_IMPORTED"}} = {cards[c].current}
                 /\ \A r \in of : book["RECEIPT"][r].date <= book["RECEIPT"][cards[c].current].date
  BY <1>1, <1>3
<1>4. ASSUME NEW r \in Rows("RECEIPT"), ledger["RECEIPT"][r].status = "LINKED_TO_EXISTING_IDENTITY"
      PROVE  LET row == book["RECEIPT"][r]
                 card == book["RECEIPT"][cards[ledger["RECEIPT"][r].card].current]
             IN  /\ row.cell.value = card.cell.value
                 /\ \A f \in Fields : Blank \in {row.attrs[f], card.attrs[f]} \/ row.attrs[f] = card.attrs[f]
  <2>1. PICK row : row = book["RECEIPT"][r]
    OBVIOUS
  <2>2. PICK card : card = book["RECEIPT"][cards[ledger["RECEIPT"][r].card].current]
    OBVIOUS
  <2>3. PICK x : x = ledger["RECEIPT"][r]
    OBVIOUS
  <2>4. ReceiptOK(book, cards, x, r) /\ x.status = "LINKED_TO_EXISTING_IDENTITY"
    BY <1>4, <2>1, <2>2, <2>3, FullInvFacts DEF ReceiptsOK, Rows
  <2>5. x # Unread /\ x # Deferral("RECEIPT", book["RECEIPT"][r])
    BY <2>4, DeferralFacts DEF Unread
  <2>6. x.card \in DOMAIN cards /\ ~cards[x.card].receipt.opening
    BY <2>4, <2>5 DEF ReceiptOK
  <2>7. PICK c : c = x.card
    OBVIOUS
  <2>8. PICK g : g = GroupIn(book, cards[c].key)
    OBVIOUS
  <2>9. /\ g = {q \in Rows("RECEIPT") : ledger["RECEIPT"][q].card = c}
        /\ \A q \in g : ledger["RECEIPT"][q] = Entry(StatusIn(book, q, g), c, None)
        /\ cards[c].current = LatestIn(book, g) /\ cards[c].current \in g
    BY <2>6, <2>7, <2>8, RowsOfCard
  <2>10. r \in g /\ g \in SUBSET DOMAIN book["RECEIPT"]
    BY <2>3, <2>7, <2>9 DEF Rows
  <2>11. PICK st : st = StatusIn(book, r, g)
    OBVIOUS
  <2>12. st = "LINKED_TO_EXISTING_IDENTITY"
    BY <2>3, <2>4, <2>9, <2>10, <2>11, EntryParts
  <2>13. card = book["RECEIPT"][LatestIn(book, g)] /\ LatestIn(book, g) \in g
    BY <1>4, <2>1, <2>2, <2>3, <2>7, <2>9
  <2>14. \/ ~DisagreeIn(book, g)
         \/ row.attrs = card.attrs /\ row.cell.value = card.cell.value
         \/ row = card
    <3>1. PICK l : l = LatestIn(book, g)
      OBVIOUS
    <3>2. st = "LINKED_TO_EXISTING_IDENTITY" =>
            \/ ~DisagreeIn(book, g)
            \/ /\ book["RECEIPT"][r].attrs = book["RECEIPT"][l].attrs
               /\ book["RECEIPT"][r].cell.value = book["RECEIPT"][l].cell.value
            \/ book["RECEIPT"][r] = book["RECEIPT"][l]
      BY ONLY <2>11, <3>1, StatusFacts
    <3>3. row = book["RECEIPT"][r] /\ card = book["RECEIPT"][l]
      BY <1>4, <2>1, <2>2, <2>13, <3>1
    <3> QED
      BY ONLY <2>12, <3>2, <3>3
  <2>15. ~DisagreeIn(book, g) =>
           /\ row.cell.value = card.cell.value
           /\ \A f \in Fields : Blank \in {row.attrs[f], card.attrs[f]} \/ row.attrs[f] = card.attrs[f]
    BY <1>4, <2>1, <2>2, <2>10, <2>13, Agree, FullInvFacts
  <2>16. /\ row.cell.value = card.cell.value
         /\ \A f \in Fields : Blank \in {row.attrs[f], card.attrs[f]} \/ row.attrs[f] = card.attrs[f]
    BY ONLY <2>14, <2>15
  <2> QED
    BY ONLY <2>1, <2>2, <2>16, Zenon
<1> QED
  BY ONLY <1>2, <1>3, <1>4, Zenon DEF RowsTellTheTruth

-----------------------------------------------------------------------------
(* The review. *)

LEMMA FilteredIs ==
  /\ Filtered("QUARANTINE") = {e \in Entries : EntryAt(e).quarantined}
  /\ Filtered("UNRESOLVED_ISSUE") = {e \in Entries : EntryAt(e).status = "UNRESOLVED_ISSUE"}
BY DEF Filtered

\* A row is in one place.
IsIn(e, p) ==
  \/ p = "card" /\ HasCard(e)
  \/ p = "quarantine" /\ EntryAt(e).quarantined
  \/ p = "unresolved" /\ EntryAt(e).status = "UNRESOLVED_ISSUE"
  \/ p = "deferred" /\ EntryAt(e).status = "QUANTITY_DEFERRED"

LEMMA OnePlace ==
  ASSUME FullInv, Built, NEW e \in Entries
  PROVE  /\ \E p \in {"card", "quarantine", "unresolved", "deferred"} :
              IsIn(e, p) /\ \A q \in {"card", "quarantine", "unresolved", "deferred"} : IsIn(e, q) => q = p
         /\ EntryAt(e).status = "UNRESOLVED_ISSUE" => e.sheet = "ISSUE"
         /\ EntryAt(e).status = "EXACT_DUPLICATE" => HasCard(e)
<1>1. PICK x : x = EntryAt(e)
  OBVIOUS
<1>2. IsPlaced(e.sheet, e.row, x, RowAt(e)) /\ e.sheet \in Sheets
  BY <1>1, EntryIsPlaced, EntryIs
<1>3. HasCard(e) <=> x.card # None
  BY <1>1 DEF HasCard
<1>4. CASE HasCard(e)
  <2>1. ~x.quarantined /\ x.status \in CardStatuses
    BY <1>2, <1>3, <1>4 DEF IsPlaced
  <2>2. x.status \notin {"UNRESOLVED_ISSUE", "QUANTITY_DEFERRED"}
    BY <2>1 DEF CardStatuses, ImportedStatuses, IssuedStatuses
  <2> QED
    BY <1>1, <1>4, <2>1, <2>2 DEF IsIn
<1>5. CASE ~HasCard(e)
  <2>1. x = Deferral(e.sheet, RowAt(e))
    BY <1>2, <1>3, <1>5 DEF IsPlaced
  <2>2. /\ x.status # "EXACT_DUPLICATE"
        /\ \/ x.quarantined /\ x.status \notin {"UNRESOLVED_ISSUE", "QUANTITY_DEFERRED"}
           \/ ~x.quarantined /\ x.status = "QUANTITY_DEFERRED"
           \/ ~x.quarantined /\ x.status = "UNRESOLVED_ISSUE" /\ e.sheet # "RECEIPT"
    BY <2>1, DeferralFacts
  <2> QED
    BY <1>1, <1>2, <1>5, <2>2 DEF IsIn, Sheets
<1> QED
  BY <1>4, <1>5

LEMMA TwoParts ==
  ASSUME NEW S, NEW T, IsFiniteSet(S), IsFiniteSet(T), S \cap T = {}
  PROVE  /\ IsFiniteSet(S \cup T) /\ Cardinality(S \cup T) = Cardinality(S) + Cardinality(T)
         /\ Cardinality(S) \in Nat /\ Cardinality(T) \in Nat
<1>1. IsFiniteSet(S \cup T) /\ Cardinality(S \cup T) = Cardinality(S) + Cardinality(T) - Cardinality(S \cap T)
  BY FS_Union
<1>2. Cardinality(S \cap T) = 0
  BY FS_EmptySet
<1>3. Cardinality(S) \in Nat /\ Cardinality(T) \in Nat
  BY FS_CardinalityType
<1> QED
  BY <1>1, <1>2, <1>3

\* The rows behind a card, in quarantine, unresolved and deferred are all rows.
LEMMA RowsAddUp ==
  ASSUME FullInv, Built
  PROVE  Cardinality(Entries) =
           Cardinality({e \in Entries : HasCard(e)}) + Cardinality({e \in Entries : EntryAt(e).quarantined})
             + Cardinality({e \in Entries : EntryAt(e).status = "UNRESOLVED_ISSUE"})
             + Cardinality({e \in Entries : EntryAt(e).status = "QUANTITY_DEFERRED"})
<1>1. PICK E : E = Entries
  OBVIOUS
<1>2. PICK A : A = {e \in Entries : HasCard(e)}
  OBVIOUS
<1>3. PICK Q : Q = {e \in Entries : EntryAt(e).quarantined}
  OBVIOUS
<1>4. PICK U : U = {e \in Entries : EntryAt(e).status = "UNRESOLVED_ISSUE"}
  OBVIOUS
<1>5. PICK D : D = {e \in Entries : EntryAt(e).status = "QUANTITY_DEFERRED"}
  OBVIOUS
<1>6. IsFiniteSet(E)
  BY <1>1, EntriesOfBook, EntriesCount, FullInvFacts
<1>7. IsFiniteSet(A) /\ IsFiniteSet(Q) /\ IsFiniteSet(U) /\ IsFiniteSet(D)
  BY <1>1, <1>2, <1>3, <1>4, <1>5, <1>6, FS_Subset
<1>8. ASSUME NEW e \in E
      PROVE  \/ e \in A /\ e \notin Q /\ e \notin U /\ e \notin D
             \/ e \notin A /\ e \in Q /\ e \notin U /\ e \notin D
             \/ e \notin A /\ e \notin Q /\ e \in U /\ e \notin D
             \/ e \notin A /\ e \notin Q /\ e \notin U /\ e \in D
  BY <1>1, <1>2, <1>3, <1>4, <1>5, <1>8, OnePlace DEF IsIn
<1>9. A \subseteq E /\ Q \subseteq E /\ U \subseteq E /\ D \subseteq E
  BY <1>1, <1>2, <1>3, <1>4, <1>5
<1>10. A \cap Q = {} /\ (A \cup Q) \cap U = {} /\ ((A \cup Q) \cup U) \cap D = {} /\ E = ((A \cup Q) \cup U) \cup D
  BY <1>8, <1>9
<1>11. IsFiniteSet(A \cup Q) /\ Cardinality(A \cup Q) = Cardinality(A) + Cardinality(Q)
  BY <1>7, <1>10, TwoParts
<1>12. IsFiniteSet((A \cup Q) \cup U) /\ Cardinality((A \cup Q) \cup U) = Cardinality(A \cup Q) + Cardinality(U)
  BY <1>7, <1>10, <1>11, TwoParts
<1>13. Cardinality(((A \cup Q) \cup U) \cup D) = Cardinality((A \cup Q) \cup U) + Cardinality(D)
  BY <1>7, <1>10, <1>12, TwoParts
<1>14. /\ Cardinality(A) \in Nat /\ Cardinality(Q) \in Nat /\ Cardinality(U) \in Nat /\ Cardinality(D) \in Nat
  BY <1>7, FS_CardinalityType
<1>15. Cardinality(E) = Cardinality(A) + Cardinality(Q) + Cardinality(U) + Cardinality(D)
  BY <1>10, <1>11, <1>12, <1>13, <1>14
<1> QED
  BY <1>1, <1>2, <1>3, <1>4, <1>5, <1>15

Opened == {c \in DOMAIN cards : cards[c].receipt.opening}
Held == {c \in DOMAIN cards : ~cards[c].receipt.opening}

LEMMA CardsAddUp ==
  ASSUME FullInv
  PROVE  /\ IsFiniteSet(Opened) /\ IsFiniteSet(Held) /\ IsFiniteSet(DOMAIN issues)
         /\ Len(cards) \in Nat /\ Len(issues) \in Nat /\ Len(issues) = Cardinality(DOMAIN issues)
         /\ Len(cards) = Cardinality(Held) + Cardinality(Opened)
<1>1. IsList(cards) /\ IsList(issues)
  BY FullInvFacts
<1>2. /\ Len(cards) \in Nat /\ DOMAIN cards = 1 .. Len(cards)
      /\ Len(issues) \in Nat /\ DOMAIN issues = 1 .. Len(issues)
  BY <1>1 DEF IsList
<1>3. /\ IsFiniteSet(DOMAIN cards) /\ Cardinality(DOMAIN cards) = Len(cards)
      /\ IsFiniteSet(DOMAIN issues) /\ Cardinality(DOMAIN issues) = Len(issues)
  <2>1. \A n \in Nat : IsFiniteSet(1 .. n) /\ Cardinality(1 .. n) = n
    BY FS_Interval
  <2> QED
    BY <1>2, <2>1
<1>4. IsFiniteSet(Opened) /\ IsFiniteSet(Held)
  BY <1>3, FS_Subset DEF Opened, Held
<1>5. Held \cap Opened = {} /\ Held \cup Opened = DOMAIN cards
  BY DEF Opened, Held
<1>6. Cardinality(Held \cup Opened) = Cardinality(Held) + Cardinality(Opened)
  BY <1>4, <1>5, TwoParts
<1>7. Cardinality(Held \cup Opened) = Cardinality(DOMAIN cards)
  BY <1>5, Zenon
<1> QED
  BY <1>2, <1>3, <1>4, <1>6, <1>7

\* A card that was opened for an issue has it; a card of receipts has its current row.
LEMMA OpenedAreIssued ==
  ASSUME FullInv
  PROVE  Cardinality(Opened) <= Cardinality(DOMAIN issues)
<1> DEFINE f == [c \in Opened |-> CHOOSE i \in DOMAIN issues : issues[i].card = c]
<1>1. ASSUME NEW c \in Opened PROVE f[c] \in DOMAIN issues /\ issues[f[c]].card = c
  BY FullInvFacts DEF IssuesOK, IsIssued, Opened
<1>2. f \in Injection(Opened, DOMAIN issues)
  <2>1. f \in [Opened -> DOMAIN issues]
    BY <1>1
  <2>2. \A c, d \in Opened : f[c] = f[d] => c = d
    BY <1>1
  <2>3. DOMAIN f = Opened
    OBVIOUS
  <2> HIDE DEF f
  <2> QED
    BY <2>1, <2>2, <2>3 DEF Injection, IsInjective
<1> QED
  BY <1>2, FS_Injection, CardsAddUp

Current == {e \in Entries : e.sheet = "RECEIPT" /\ HasCard(e) /\ EntryAt(e).status \in ImportedStatuses}
Issuing == {e \in Entries : e.sheet = "ISSUE" /\ EntryAt(e).issue # None}
Dropped == {e \in Entries : EntryAt(e).status = "EXACT_DUPLICATE"}

LEMMA HeldAreCurrent ==
  ASSUME FullInv, IsFiniteSet(Current)
  PROVE  Cardinality(Held) <= Cardinality(Current)
<1> DEFINE f == [c \in Held |-> [sheet |-> "RECEIPT", row |-> cards[c].current]]
<1>1. ASSUME NEW c \in Held PROVE f[c] \in Current /\ f[c].row = cards[c].current
  <2>1. PICK e : e = [sheet |-> "RECEIPT", row |-> cards[c].current]
    OBVIOUS
  <2>2. PICK g : g = GroupIn(book, cards[c].key)
    OBVIOUS
  <2>3. /\ \A r \in g : ledger["RECEIPT"][r] = Entry(StatusIn(book, r, g), c, None)
        /\ cards[c].current = LatestIn(book, g) /\ cards[c].current \in g /\ g \subseteq DOMAIN book["RECEIPT"]
    BY <2>2, RowsOfCard DEF Held, Rows
  <2>4. e \in Entries /\ e.sheet = "RECEIPT" /\ e.row = cards[c].current
    BY <2>1, <2>3, EntryIs DEF Sheets
  <2>5. PICK st : st = StatusIn(book, cards[c].current, g)
    OBVIOUS
  <2>6. st \in ImportedStatuses
    BY <2>3, <2>5, StatusFacts
  <2>7. ledger["RECEIPT"][cards[c].current] = Entry(st, c, None)
    BY <2>3, <2>5
  <2>8. ledger["RECEIPT"][cards[c].current].status = st /\ ledger["RECEIPT"][cards[c].current].card = c
    BY <2>7, EntryParts
  <2>9. c # None
    BY FullInvFacts, BooksAreSheets DEF IsList, Held
  <2>10. e \in Current
    BY <2>4, <2>6, <2>8, <2>9 DEF Current, HasCard, EntryAt
  <2> QED
    BY <2>1, <2>4, <2>10
<1>2. ASSUME NEW c \in Held, NEW d \in Held, f[c] = f[d] PROVE c = d
  <2>1. cards[c].current = cards[d].current
    BY <1>1, <1>2
  <2>2. /\ cards[c].key = KeyOf(book["RECEIPT"][cards[c].current].cell)
        /\ cards[d].key = KeyOf(book["RECEIPT"][cards[d].current].cell)
    BY FullInvFacts DEF Held, CardsOK, CardOK
  <2>3. cards[c].key = cards[d].key
    BY <2>1, <2>2
  <2> QED
    BY <2>3, FullInvFacts DEF CardsOK, Held
<1>3. f \in Injection(Held, Current)
  <2>1. f \in [Held -> Current] /\ DOMAIN f = Held
    BY <1>1
  <2> HIDE DEF f
  <2> QED
    BY <1>2, <2>1 DEF Injection, IsInjective
<1> QED
  BY <1>3, FS_Injection

LEMMA IssuesAreIssuing ==
  ASSUME FullInv, IsFiniteSet(Issuing)
  PROVE  Cardinality(DOMAIN issues) <= Cardinality(Issuing)
<1> DEFINE f == [i \in DOMAIN issues |-> [sheet |-> "ISSUE", row |-> issues[i].row]]
<1>1. ASSUME NEW i \in DOMAIN issues PROVE f[i] \in Issuing /\ EntryAt(f[i]).issue = i
  <2>1. PICK e : e = [sheet |-> "ISSUE", row |-> issues[i].row]
    OBVIOUS
  <2>2. issues[i].row \in DOMAIN book["ISSUE"] /\ ledger["ISSUE"][issues[i].row].issue = i
    BY FullInvFacts DEF IssuesOK
  <2>3. e \in Entries /\ e.sheet = "ISSUE" /\ e.row = issues[i].row
    BY <2>1, <2>2, EntryIs DEF Sheets
  <2>4. i # None
    BY FullInvFacts, BooksAreSheets DEF IsList
  <2>5. e \in Issuing /\ EntryAt(e).issue = i
    BY <2>2, <2>3, <2>4 DEF Issuing, EntryAt
  <2> QED
    BY <2>1, <2>5
<1>2. f \in Injection(DOMAIN issues, Issuing)
  <2>1. f \in [DOMAIN issues -> Issuing] /\ DOMAIN f = DOMAIN issues
    BY <1>1
  <2> HIDE DEF f
  <2> QED
    BY <1>1, <2>1 DEF Injection, IsInjective
<1> QED
  BY <1>2, FS_Injection

LEMMA CardsHaveRows ==
  ASSUME FullInv, Built
  PROVE  Cardinality(Held) + Len(issues) + Cardinality(Dropped) <= Cardinality({e \in Entries : HasCard(e)})
<1>1. PICK A : A = {e \in Entries : HasCard(e)}
  OBVIOUS
<1>2. IsFiniteSet(Entries)
  BY EntriesOfBook, EntriesCount, FullInvFacts
<1>3. IsFiniteSet(A) /\ IsFiniteSet(Current) /\ IsFiniteSet(Issuing) /\ IsFiniteSet(Dropped)
  BY <1>1, <1>2, FS_Subset DEF Current, Issuing, Dropped
<1>4. ASSUME NEW e \in Issuing PROVE HasCard(e) /\ EntryAt(e).status \in IssuedStatuses
  BY <1>4, EntryIsPlaced DEF Issuing, IsPlaced, HasCard
<1>5. ASSUME NEW e \in Dropped PROVE HasCard(e)
  BY <1>5, OnePlace DEF Dropped
<1>6. (Current \cup Issuing) \cup Dropped \in SUBSET A
  BY <1>1, <1>4, <1>5 DEF Current, Issuing, Dropped
<1>7. Current \cap Issuing = {}
  BY DEF Current, Issuing
<1>8. (Current \cup Issuing) \cap Dropped = {}
  BY <1>4 DEF Current, Issuing, Dropped, ImportedStatuses, IssuedStatuses
<1>9. /\ IsFiniteSet(Current \cup Issuing)
      /\ Cardinality(Current \cup Issuing) = Cardinality(Current) + Cardinality(Issuing)
  BY <1>3, <1>7, TwoParts
<1>10. Cardinality((Current \cup Issuing) \cup Dropped) = Cardinality(Current \cup Issuing) + Cardinality(Dropped)
  BY <1>3, <1>8, <1>9, TwoParts
<1>11. Cardinality((Current \cup Issuing) \cup Dropped) <= Cardinality(A)
  BY <1>3, <1>6, FS_Subset
<1>12. Cardinality(Held) <= Cardinality(Current) /\ Len(issues) <= Cardinality(Issuing)
  BY <1>3, HeldAreCurrent, IssuesAreIssuing, CardsAddUp
<1>13. /\ Cardinality(Held) \in Nat /\ Len(issues) \in Nat /\ Cardinality(Current) \in Nat
       /\ Cardinality(Issuing) \in Nat /\ Cardinality(Dropped) \in Nat /\ Cardinality(A) \in Nat
  BY <1>3, CardsAddUp, FS_CardinalityType
<1>14. Cardinality(Held) + Len(issues) + Cardinality(Dropped) <= Cardinality(A)
  BY ONLY <1>9, <1>10, <1>11, <1>12, <1>13
<1> QED
  BY <1>1, <1>14

LEMMA NothingMissing ==
  ASSUME FullInv, Built
  PROVE  NothingIsMissing
<1> DEFINE kinds == {"card", "quarantine", "unresolved", "deferred"}
           Places(e) == {p \in kinds :
             CASE p = "card" -> HasCard(e)
               [] p = "quarantine" -> e \in Filtered("QUARANTINE")
               [] p = "unresolved" -> e \in Filtered("UNRESOLVED_ISSUE")
               [] p = "deferred" -> EntryAt(e).status = "QUANTITY_DEFERRED"}
<1>1. ASSUME NEW e \in Entries PROVE Cardinality(Places(e)) = 1
  <2>1. \A p \in kinds : p \in Places(e) <=> IsIn(e, p)
    BY <1>1, FilteredIs DEF IsIn
  <2>2. PICK p \in kinds : IsIn(e, p) /\ \A q \in kinds : IsIn(e, q) => q = p
    BY <1>1, OnePlace
  <2>3. Places(e) = {p}
    BY <2>1, <2>2
  <2>4. Cardinality({p}) = 1
    BY FS_Singleton
  <2> QED
    BY <2>3, <2>4, Zenon
<1>2. PICK s : s = Summary
  OBVIOUS
<1>3. /\ s.source_rows = Cardinality(Entries) /\ s.imported_cards = Len(cards)
      /\ s.imported_issues = Len(issues)
      /\ s.exact_duplicates = Cardinality(Dropped)
      /\ s.quarantine = Cardinality({e \in Entries : EntryAt(e).quarantined})
      /\ s.deferred_quantity = Cardinality({e \in Entries : EntryAt(e).status = "QUANTITY_DEFERRED"})
  BY <1>2 DEF Summary, Dropped
<1>4. s.imported_receipts = Cardinality(Held) /\ s.opening_states = Cardinality(Opened)
  BY <1>2 DEF Summary, Held, Opened, Opening
<1>5. s.unresolved_issues = Cardinality({e \in Entries : EntryAt(e).status = "UNRESOLVED_ISSUE"})
  <2>1. {e \in Filtered("UNRESOLVED_ISSUE") : e.sheet = "ISSUE"} = {e \in Entries : EntryAt(e).status = "UNRESOLVED_ISSUE"}
    BY FilteredIs, OnePlace
  <2>2. s.unresolved_issues = Cardinality({e \in Filtered("UNRESOLVED_ISSUE") : e.sheet = "ISSUE"})
    BY <1>2 DEF Summary
  <2> QED
    BY <2>1, <2>2, Zenon
<1>6. s.source_rows = Cardinality({e \in Entries : HasCard(e)})
                        + s.quarantine + s.unresolved_issues + s.deferred_quantity
  BY <1>3, <1>5, RowsAddUp
<1>7. /\ s.imported_cards = s.imported_receipts + s.opening_states
      /\ s.imported_receipts + s.imported_issues + s.exact_duplicates
           <= Cardinality({e \in Entries : HasCard(e)})
      /\ s.opening_states <= s.imported_issues
  BY <1>3, <1>4, CardsAddUp, OpenedAreIssued, CardsHaveRows
<1> QED
  BY <1>1, <1>2, <1>6, <1>7 DEF NothingIsMissing

LEMMA Told ==
  ASSUME NEW n \in Nat, NEW S, NEW w \in S, NEW t, t = [i \in 1 .. n |-> w]
  PROVE  t \in Seq(S) /\ Len(t) = n
OBVIOUS

LEMMA OneSaid ==
  ASSUME NEW S, NEW w \in S
  PROVE  <<w>> \in Seq(S) /\ Len(<<w>>) = 1
OBVIOUS

LEMMA Joined ==
  ASSUME NEW S, NEW s \in Seq(S), NEW t \in Seq(S)
  PROVE  Len(s \o t) = Len(s) + Len(t)
OBVIOUS

LEMMA CardsShowTheRow ==
  ASSUME FullInv, Built
  PROVE  CardsAreOfTheRow
<1> SUFFICES ASSUME NEW e \in Entries, HasCard(e)
             PROVE  LET shown == ReviewCard(e)
                        c == EntryAt(e).card
                    IN  /\ e \in shown.sources /\ Cardinality(shown.sources) = cards[c].rows
                        /\ shown.balance \in {0, 1} /\ Len(shown.history) = 2 - shown.balance
                        /\ Opening(c) => shown.balance = 0 /\ \A s \in shown.sources : s.sheet = "ISSUE"
                        /\ EntryAt(e).issue # None => shown.balance = 0
                        /\ shown.relationships # {} => \E s \in shown.sources : EntryAt(s).issue # None
  BY DEF CardsAreOfTheRow
<1>1. PICK c : c = EntryAt(e).card
  OBVIOUS
<1>2. PICK n : n = Cardinality({i \in DOMAIN issues : issues[i].card = c})
  OBVIOUS
<1>3. PICK shown : shown = ReviewCard(e)
  OBVIOUS
<1>4. PICK history : history = <<IF Opening(c) THEN "opening state" ELSE "historical receipt">>
                                 \o [i \in 1 .. n |-> "historical issue"]
  OBVIOUS
<1>5. /\ shown.sources = LinkedTo(c) /\ shown.relationships = {r \in relations : r.card = c}
      /\ shown.history = history /\ shown.balance = 1 - n
  BY <1>1, <1>2, <1>3, <1>4 DEF ReviewCard
<1>6. c \in DOMAIN cards
  BY <1>1, EntryIsPlaced DEF IsPlaced, HasCard
<1>7. e \in shown.sources
  BY <1>1, <1>5 DEF LinkedTo
<1>8. Cardinality(shown.sources) = cards[c].rows
  <2>1. PICK linked : linked = LinkedTo(c) /\ linked = LinkedIn(book, ledger, c)
    BY EntriesOfBook
  <2>2. linked # {}
    BY <1>5, <1>7, <2>1
  <2>3. cards[c].rows = Cardinality(linked)
    BY <1>6, <2>1, <2>2, FullInvFacts DEF Finished
  <2> QED
    BY <1>5, <2>1, <2>3, Zenon
<1>9. n \in {0, 1} /\ (n = 0 <=> ~IsIssued(issues, c))
  <2>1. /\ ~IsIssued(issues, c) => Cardinality({i \in DOMAIN issues : issues[i].card = c}) = 0
        /\ IsIssued(issues, c) => Cardinality({i \in DOMAIN issues : issues[i].card = c}) = 1
    BY Spent, Zenon
  <2> QED
    BY <1>2, <2>1
<1>10. shown.balance \in {0, 1} /\ (shown.balance = 0 <=> IsIssued(issues, c))
  BY <1>5, <1>9
<1>11. Len(shown.history) = 2 - shown.balance
  <2>1. PICK told : told = [i \in 1 .. n |-> "historical issue"]
    OBVIOUS
  <2>2. PICK kind : kind = IF Opening(c) THEN "opening state" ELSE "historical receipt"
    OBVIOUS
  <2>3. PICK S : S = {"opening state", "historical receipt", "historical issue"}
    OBVIOUS
  <2>4. kind \in S /\ "historical issue" \in S /\ n \in Nat
    <3>1. kind \in {"opening state", "historical receipt"}
      BY <2>2
    <3>2. kind \in S /\ "historical issue" \in S
      BY ONLY <2>3, <3>1
    <3>3. n \in Nat
      BY <1>9
    <3> QED
      BY <3>2, <3>3
  <2>5. told \in Seq(S) /\ Len(told) = n
    BY ONLY <2>1, <2>4, Told
  <2>6. PICK said : said = <<kind>>
    OBVIOUS
  <2>7. said \in Seq(S) /\ Len(said) = 1
    BY <2>4, <2>6, OneSaid
  <2>8. Len(said \o told) = Len(said) + Len(told)
    BY <2>5, <2>7, Joined
  <2>9. history = said \o told
    BY <1>4, <2>1, <2>2, <2>6
  <2> QED
    BY <1>5, <1>9, <2>5, <2>7, <2>8, <2>9
<1>12. ASSUME Opening(c) PROVE shown.balance = 0 /\ \A s \in shown.sources : s.sheet = "ISSUE"
  <2>1. shown.balance = 0
    BY <1>6, <1>10, <1>12, FullInvFacts DEF IssuesOK, Opening
  <2>2. ASSUME NEW s \in shown.sources PROVE s.sheet = "ISSUE"
    <3>1. s \in Entries /\ EntryAt(s).card = c /\ s.sheet \in Sheets
      BY <1>5, EntryIs DEF LinkedTo
    <3>2. EntryAt(s).card # None
      BY <1>1, <3>1 DEF HasCard
    <3>3. s.sheet # "RECEIPT"
      BY <1>12, <3>1, <3>2, EntryIsPlaced DEF IsPlaced, Opening
    <3> QED
      BY <3>1, <3>3 DEF Sheets
  <2> QED
    BY <2>1, <2>2
<1>13. EntryAt(e).issue # None => shown.balance = 0
  <2>1. EntryAt(e).issue # None => e.sheet = "ISSUE" /\ IsIssued(issues, c)
    BY <1>1, EntryIsPlaced DEF IsPlaced
  <2> QED
    BY <1>10, <2>1
<1>14. ASSUME shown.relationships # {} PROVE \E s \in shown.sources : EntryAt(s).issue # None
  <2>1. PICK x \in relations : x.card = c
    BY <1>5, <1>14
  <2>2. x.row \in DOMAIN book["ISSUE"] /\ ledger["ISSUE"][x.row].card = c /\ ledger["ISSUE"][x.row].issue # None
    BY <2>1, FullInvFacts DEF IssuesOK
  <2>3. PICK s \in Entries : s.sheet = "ISSUE" /\ s.row = x.row
    BY <2>2, EntryIs DEF Sheets
  <2> QED
    BY <1>5, <2>2, <2>3 DEF LinkedTo, EntryAt
<1>15. /\ e \in shown.sources /\ Cardinality(shown.sources) = cards[c].rows
       /\ shown.balance \in {0, 1} /\ Len(shown.history) = 2 - shown.balance
       /\ Opening(c) => shown.balance = 0 /\ \A s \in shown.sources : s.sheet = "ISSUE"
       /\ EntryAt(e).issue # None => shown.balance = 0
       /\ shown.relationships # {} => \E s \in shown.sources : EntryAt(s).issue # None
  BY <1>7, <1>8, <1>10, <1>11, <1>12, <1>13, <1>14
<1> QED
  BY <1>1, <1>3, <1>15, Zenon

LEMMA ReviewOpens ==
  ASSUME FullInv, Built
  PROVE  Opens(TRUE, Len(cards), Len(issues)) /\ Opens(FALSE, Len(cards), Len(issues))
<1>1. Finished(book, cards, issues, ledger, tally, marker)
  BY FullInvFacts
<1>2. marker # None /\ marker.cards = Len(cards) /\ marker.issues = Len(issues)
  BY <1>1, BooksAreSheets DEF Finished
<1>3. Cardinality({e \in Entries : EntryAt(e).status # "UNREAD"}) = Len(book["RECEIPT"]) + Len(book["ISSUE"])
  <2>1. \A e \in Entries : EntryAt(e).status # "UNREAD"
    BY <1>1, EntryIs, FullInvFacts DEF Finished, EntryAt
  <2>2. {e \in Entries : EntryAt(e).status # "UNREAD"} = EntriesOf(book)
    BY <2>1, EntriesOfBook
  <2>3. Cardinality(EntriesOf(book)) = Len(book["RECEIPT"]) + Len(book["ISSUE"])
    BY EntriesCount, FullInvFacts
  <2> QED
    BY <2>2, <2>3, Zenon
<1>4. Len(cards) \in Nat /\ Len(issues) \in Nat
  BY CardsAddUp
<1> QED
  BY <1>2, <1>3, <1>4 DEF Opens

\* The serials that a card of a guessed number shows are those of its rows.
LEMMA GuessesAreOfRows ==
  ASSUME FullInv, Built, NEW serial
  PROVE  ~NumberAllowed(serial) <=>
           \E e \in Entries : /\ Stand(e) /\ Provisional(RowAt(e).cell)
                             /\ serial \in {Shown(RowAt(e).cell), RowAt(e).cell.value}
<1>1. ASSUME NEW d \in DOMAIN cards
      PROVE  \E e \in Entries :
               /\ Stand(e) /\ RowAt(e).cell = CellOf(d)
               /\ cards[d].key = KeyOf(CellOf(d)) /\ cards[d].receipt.serial = Shown(CellOf(d))
               /\ Preservation(CellOf(d)) \in Keyed
  <2>1. PICK s \in Sheets : /\ s = IF cards[d].receipt.opening THEN "ISSUE" ELSE "RECEIPT"
                            /\ cards[d].current \in DOMAIN book[s] /\ Serialized(s, book[s][cards[d].current])
                            /\ cards[d].key = KeyOf(book[s][cards[d].current].cell)
                            /\ cards[d].receipt.serial = Shown(book[s][cards[d].current].cell)
    BY FullInvFacts DEF CardsOK, CardOK, Sheets
  <2>2. CellOf(d) = book[s][cards[d].current].cell
    BY <2>1 DEF CellOf
  <2>3. PICK r : r = cards[d].current
    OBVIOUS
  <2>4. PICK e \in Entries : e.sheet = s /\ e.row = r
    <3>1. r \in DOMAIN book[s]
      BY <2>1, <2>3
    <3> QED
      BY ONLY <3>1, EntryIs
  <2> QED
    BY <2>1, <2>2, <2>3, <2>4 DEF Stand, RowAt, Serialized
<1>2. ASSUME NEW d \in DOMAIN cards, IdentityOf(d) = "NUMERIC_FORMAT_UNPROVEN",
             serial \in {cards[d].receipt.serial, CellOf(d).value}
      PROVE  \E e \in Entries : /\ Stand(e) /\ Provisional(RowAt(e).cell)
                                /\ serial \in {Shown(RowAt(e).cell), RowAt(e).cell.value}
  <2>1. PICK e \in Entries : /\ Stand(e) /\ RowAt(e).cell = CellOf(d)
                             /\ cards[d].key = KeyOf(CellOf(d)) /\ cards[d].receipt.serial = Shown(CellOf(d))
                             /\ Preservation(CellOf(d)) \in Keyed
    BY <1>1
  <2>2. Provisional(CellOf(d))
    BY <1>2, <2>1, KeyIs DEF IdentityOf, Keyed, Provisional
  <2> QED
    BY <1>2, <2>1, <2>2
<1>3. ASSUME NEW e \in Entries, Stand(e), Provisional(RowAt(e).cell),
             serial \in {Shown(RowAt(e).cell), RowAt(e).cell.value}
      PROVE  \E d \in DOMAIN cards : IdentityOf(d) = "NUMERIC_FORMAT_UNPROVEN"
                                       /\ serial \in {cards[d].receipt.serial, CellOf(d).value}
  <2>1. PICK d \in DOMAIN cards : cards[d].key = KeyOf(RowAt(e).cell)
    BY <1>3, EntryIsPlaced DEF IsPlaced, Stand
  <2>2. /\ cards[d].key = KeyOf(CellOf(d)) /\ cards[d].receipt.serial = Shown(CellOf(d))
        /\ Preservation(CellOf(d)) \in Keyed
    BY <1>1
  <2>3. cards[d].key[1] = "NUMERIC_FORMAT_UNPROVEN" /\ cards[d].key = <<"NUMERIC_FORMAT_UNPROVEN", RowAt(e).cell.value>>
    BY <1>3, <2>1, KeyIs
  <2>4. Provisional(CellOf(d)) /\ cards[d].key = <<"NUMERIC_FORMAT_UNPROVEN", CellOf(d).value>>
    BY <2>2, <2>3, KeyIs DEF Keyed, Provisional
  <2>5. CellOf(d).value = RowAt(e).cell.value
    BY <2>3, <2>4
  <2>6. Shown(CellOf(d)) = Shown(RowAt(e).cell)
    BY <1>3, <2>4, <2>5 DEF Shown, Provisional
  <2> QED
    BY <1>3, <2>2, <2>3, <2>5, <2>6 DEF IdentityOf
<1> QED
  BY <1>2, <1>3 DEF NumberAllowed

LEMMA BookIsShown ==
  ASSUME FullInv
  PROVE  BookIsTheSheets
<1>1. at = "valid" => Built
  BY DEF Built
<1>2. ReviewShowsTheBook
  BY <1>1, ReviewOpens, NothingMissing, CardsShowTheRow, GuessesAreOfRows DEF ReviewShowsTheBook
<1> QED
  BY <1>2, Validates, KeysAreKept, RowsAreTrue DEF BookIsTheSheets

\* What a build of the full warehouse leaves is what its two sheets say, for every book of
\* every length (full_builder.py, and the review that shows it).
THEOREM BookIsOfTheSheets == InitFull /\ [][NextFull]_fullVars => []BookIsTheSheets
<1>1. InitFull => FullInv
  BY InitFullInv
<1>2. FullInv /\ [NextFull]_fullVars => FullInv'
  BY FullStep
<1>3. FullInv => BookIsTheSheets
  BY BookIsShown
<1> QED
  BY <1>1, <1>2, <1>3, PTL

-----------------------------------------------------------------------------
(* The pilot: the rows of a sheet and their groups. *)

LEMMA LeastOf ==
  ASSUME NEW S \in SUBSET Nat, S # {}
  PROVE  Min(S) \in S /\ \A m \in S : Min(S) <= m
<1>1. \E n \in S : \A m \in S : n <= m
  BY Smallest
<1> QED
  BY <1>1 DEF Min

\* Rows are numbers and their hashes differ; a match key comes of an S/N that is there.
LEMMA RowsOfSheet ==
  ASSUME sheet \in Sheets200
  PROVE  /\ AllRows \in SUBSET Nat /\ IsFiniteSet(AllRows)
         /\ \A r \in AllRows : Rank(r) \in Nat
         /\ \A r, q \in AllRows : Rank(r) = Rank(q) => r = q
         /\ \A r \in AllRows :
              MatchOf(Line(r)) # Empty =>
                /\ Line(r).status = "TEXT_EXACT" /\ Line(r).serial # Empty
                /\ MatchOf(Line(r)) = Key[Line(r).serial]
<1>1. /\ Len(sheet.rows) \in Nat /\ AllRows = 1 .. Len(sheet.rows)
      /\ sheet.rank \in [AllRows -> Nat]
      /\ \A r, q \in AllRows : sheet.rank[r] = sheet.rank[q] => r = q
      /\ \A r \in AllRows :
           Line(r).status = "TEXT_EXACT" /\ Line(r).serial = Empty => Key[Empty] = Empty
  BY SheetsAreRanked DEF AllRows, Line
<1>2. IsFiniteSet(AllRows)
  <2>1. PICK n \in Nat : AllRows = 1 .. n
    BY ONLY <1>1
  <2>2. IsFiniteSet(1 .. n)
    BY ONLY n \in Nat, FS_Interval
  <2> QED
    BY ONLY <2>1, <2>2
<1>3. \A r \in AllRows : Rank(r) \in Nat
  BY <1>1 DEF Rank
<1>4. \A r, q \in AllRows : Rank(r) = Rank(q) => r = q
  BY <1>1 DEF Rank
<1>5. ASSUME NEW r \in AllRows, MatchOf(Line(r)) # Empty
      PROVE  /\ Line(r).status = "TEXT_EXACT" /\ Line(r).serial # Empty
             /\ MatchOf(Line(r)) = Key[Line(r).serial]
  BY <1>1, <1>5 DEF MatchOf
<1> QED
  BY <1>1, <1>2, <1>3, <1>4, <1>5

LEMMA GroupsOfRows ==
  ASSUME NEW g \in Groups
  PROVE  /\ g \in SUBSET AllRows /\ g # {}
         /\ \A r \in g : g = GroupOf(r) /\ MatchOf(Line(r)) # Empty
         /\ \A r, s \in g : MatchOf(Line(r)) = MatchOf(Line(s))
<1>1. PICK p \in AllRows : g = GroupOf(p) /\ MatchOf(Line(p)) # Empty
  BY DEF Groups
<1>2. g = {s \in AllRows : MatchOf(Line(s)) = MatchOf(Line(p))}
  BY <1>1 DEF GroupOf
<1>3. p \in g
  BY <1>2
<1>4. ASSUME NEW r \in g PROVE g = GroupOf(r) /\ MatchOf(Line(r)) # Empty
  <2>1. MatchOf(Line(r)) = MatchOf(Line(p))
    BY <1>2
  <2>2. GroupOf(r) = {s \in AllRows : MatchOf(Line(s)) = MatchOf(Line(p))}
    BY <2>1 DEF GroupOf
  <2> QED
    BY <1>1, <1>2, <2>1, <2>2
<1> QED
  BY <1>2, <1>3, <1>4

\* Rows with one match key are of one group.
LEMMA OneGroup ==
  ASSUME NEW g \in Groups, NEW h \in Groups, NEW r \in g, NEW s \in h,
         MatchOf(Line(r)) = MatchOf(Line(s))
  PROVE  g = h
<1>1. g = GroupOf(r) /\ h = GroupOf(s)
  BY GroupsOfRows
<1>2. GroupOf(r) = GroupOf(s)
  BY DEF GroupOf
<1> QED
  BY <1>1, <1>2

LEMMA GroupOfMatch ==
  ASSUME NEW g \in Groups, NEW r \in g, NEW s \in AllRows,
         MatchOf(Line(r)) = MatchOf(Line(s))
  PROVE  GroupOf(s) = g /\ s \in g
<1>1. g = GroupOf(r)
  BY GroupsOfRows
<1>2. GroupOf(r) = GroupOf(s) /\ s \in GroupOf(s)
  BY DEF GroupOf
<1> QED
  BY <1>1, <1>2

\* A group whose rows say the same has no two vendors, models or items.
LEMMA AlikeAgree ==
  ASSUME NEW g \in Groups, sheet \in Sheets200, AllAlike(g)
  PROVE  ~Contradictory(g)
<1>1. g \in SUBSET AllRows /\ g # {} /\ IsFiniteSet(g)
  BY GroupsOfRows, RowsOfSheet, FS_Subset
<1> PICK p \in g : TRUE
  BY <1>1
<1>2. \A r \in g : Payload(r) = Payload(p)
  <2> SUFFICES ASSUME NEW r \in g, Payload(r) # Payload(p) PROVE FALSE
    OBVIOUS
  <2> DEFINE all == {Payload(q) : q \in g}
  <2>1. [q \in g |-> Payload(q)] \in Surjection(g, all)
    BY DEF Surjection
  <2>4. IsFiniteSet(all)
    BY <1>1, <2>1, FS_Surjection
  <2>2. Cardinality(all) = 1
    BY DEF AllAlike
  <2>3. \E x : all = {x}
    BY <2>4, <2>2, FS_Singleton
  <2> QED
    BY <2>3
<1>3. ASSUME NEW r \in g
      PROVE  /\ Line(r).vendor = Line(p).vendor /\ Line(r).model = Line(p).model
             /\ Line(r).item = Line(p).item
  <2>1. Payload(r) = Payload(p)
    BY <1>2
  <2>2. \A f \in Columns : Line(r)[f] = Line(p)[f]
    BY <2>1 DEF Payload
  <2> QED
    BY <2>2 DEF Columns
<1>4. ASSUME NEW r \in g
      PROVE  Vendor(Line(r)) = Vendor(Line(p)) /\ Model(Line(r)) = Model(Line(p))
  BY <1>3 DEF Vendor, Model
<1>5. Variants(g, Vendor) \subseteq {Vendor(Line(p))}
  BY <1>4 DEF Variants
<1>6. Variants(g, Model) \subseteq {Model(Line(p))}
  BY <1>4 DEF Variants
<1>7. Variants(g, LAMBDA row : row.item) \subseteq {Line(p).item}
  BY <1>3 DEF Variants
<1>8. ASSUME NEW x, NEW S \in SUBSET {x} PROVE ~(Cardinality(S) > 1)
  <2>1. S = {} \/ S = {x}
    OBVIOUS
  <2> QED
    BY <2>1, FS_EmptySet, FS_Singleton
<1> QED
  BY <1>5, <1>6, <1>7, <1>8 DEF Contradictory

LEMMA KindsApart ==
  ASSUME sheet \in Sheets200
  PROVE  /\ ConflictGroups \in SUBSET Several /\ ExactGroups \in SUBSET Several
         /\ HistoryGroups \in SUBSET Several /\ Several \in SUBSET Groups
         /\ ConflictGroups \cap ExactGroups = {}
         /\ HistoryGroups \cap (ConflictGroups \cup ExactGroups) = {}
<1>1. /\ ConflictGroups \in SUBSET Several /\ ExactGroups \in SUBSET Several
      /\ HistoryGroups \in SUBSET Several /\ Several \in SUBSET Groups
  BY DEF ConflictGroups, ExactGroups, HistoryGroups, Several
<1>2. \A g \in ConflictGroups : Contradictory(g)
  BY DEF ConflictGroups
<1>3. \A g \in ExactGroups : AllAlike(g)
  BY DEF ExactGroups
<1>4. \A g \in HistoryGroups : ~AllAlike(g) /\ ~Contradictory(g)
  BY DEF HistoryGroups
<1> QED
  BY <1>1, <1>2, <1>3, <1>4, AlikeAgree

\* Two rows of a group of several.
LEMMA TwoOf ==
  ASSUME sheet \in Sheets200, NEW g \in Several, NEW r \in g
  PROVE  Min(g \ {r}) \in g \ {r}
<1>1. g \in SUBSET AllRows /\ IsFiniteSet(g) /\ AllRows \in SUBSET Nat
  BY GroupsOfRows, RowsOfSheet, FS_Subset DEF Several
<1>2. g \ {r} # {}
  <2> SUFFICES ASSUME g = {r} PROVE FALSE
    OBVIOUS
  <2>1. Cardinality(g) > 1
    BY DEF Several
  <2>2. Cardinality(g) = 1
    BY FS_Singleton
  <2> QED
    BY <2>1, <2>2
<1> QED
  BY <1>1, <1>2, LeastOf

LEMMA LeadOfConflict ==
  ASSUME sheet \in Sheets200, NEW g \in ConflictGroups
  PROVE  Min(g) \in g /\ Eligible(Line(Min(g))) /\ Second(g) \in g
<1>1. g \in Several /\ Eligible(Line(Min(g)))
  BY DEF ConflictGroups
<1>2. g \in SUBSET Nat /\ g # {}
  BY <1>1, GroupsOfRows, RowsOfSheet DEF Several
<1>3. Min(g) \in g
  BY <1>2, LeastOf
<1> QED
  BY <1>1, <1>3, TwoOf DEF Second

LEMMA LeadOfOthers ==
  ASSUME sheet \in Sheets200, NEW g \in ExactGroups \cup HistoryGroups
  PROVE  Primary(g) \in g /\ Eligible(Line(Primary(g))) /\ Another(g) \in g
<1>1. g \in Several /\ {r \in g : Eligible(Line(r))} # {}
  BY DEF ExactGroups, HistoryGroups
<1>2. g \in SUBSET Nat
  BY <1>1, GroupsOfRows, RowsOfSheet DEF Several
<1>3. Primary(g) \in {r \in g : Eligible(Line(r))}
  BY <1>1, <1>2, LeastOf DEF Primary
<1> QED
  BY <1>1, <1>3, TwoOf DEF Another

-----------------------------------------------------------------------------
(* The pilot: what a selection keeps. *)

ImportsOf(c) == {r \in AllRows : c[r] = "IMPORT"}
Repeated == {"EXACT_DUPLICATE", "CONFLICT_HISTORY_ONLY"}
OneKey(r, s) == MatchOf(Line(r)) = MatchOf(Line(s))

\* Cards are for rows that may become one, one for each identity; what repeats an
\* identity has its card.
Sound(c) ==
  /\ c \in [AllRows -> Decisions \cup {NoRow}]
  /\ \A r \in ImportsOf(c) : Eligible(Line(r))
  /\ \A r, s \in ImportsOf(c) : OneKey(r, s) => r = s
  /\ \A r \in AllRows : c[r] \in Repeated =>
       MatchOf(Line(r)) # Empty /\ \E p \in ImportsOf(c) : OneKey(p, r)

\* Decisions added to others.
Added(c, decided) == [r \in AllRows |-> IF r \in DOMAIN decided THEN decided[r] ELSE c[r]]

\* Rows taken for cards, and rows that repeat them.
Leads(c, first, second, word, decided) ==
  /\ Sound(c) /\ first \in SUBSET AllRows /\ second \in SUBSET AllRows /\ word \in Repeated
  /\ decided = [r \in first \cup second |-> IF r \in first THEN "IMPORT" ELSE word]
  /\ \A r \in first : Eligible(Line(r))
  /\ \A r, s \in first : OneKey(r, s) => r = s
  /\ \A r \in first : \A s \in ImportsOf(c) : OneKey(r, s) => r = s
  /\ \A s \in second : MatchOf(Line(s)) # Empty /\ \E p \in first : OneKey(p, s)
  /\ \A r \in DOMAIN decided : c[r] \in {NoRow, decided[r]}

LEMMA LeadsSound ==
  ASSUME NEW c, NEW first, NEW second, NEW word, NEW decided,
         Leads(c, first, second, word, decided)
  PROVE  /\ Sound(Added(c, decided))
         /\ ImportsOf(Added(c, decided)) = ImportsOf(c) \cup first
<1> DEFINE d == Added(c, decided)
<1>1. /\ Sound(c) /\ first \in SUBSET AllRows /\ second \in SUBSET AllRows /\ word \in Repeated
      /\ DOMAIN decided = first \cup second
      /\ \A r \in first : decided[r] = "IMPORT"
      /\ \A r \in second \ first : decided[r] = word
      /\ \A r \in first : Eligible(Line(r))
      /\ \A r, s \in first : OneKey(r, s) => r = s
      /\ \A r \in first : \A s \in ImportsOf(c) : OneKey(r, s) => r = s
      /\ \A s \in second : MatchOf(Line(s)) # Empty /\ \E p \in first : OneKey(p, s)
      /\ \A r \in first \cup second : c[r] \in {NoRow, decided[r]}
  BY DEF Leads
<1>2. /\ DOMAIN d = AllRows
      /\ \A r \in first : d[r] = "IMPORT"
      /\ \A r \in second \ first : d[r] = word
      /\ \A r \in AllRows \ (first \cup second) : d[r] = c[r]
  BY <1>1 DEF Added
<1>3. NoRow # "IMPORT" /\ word # "IMPORT" /\ word \in Decisions /\ "IMPORT" \in Decisions
  BY <1>1, NoRowIsNone DEF Repeated, Decisions
<1>4. d \in [AllRows -> Decisions \cup {NoRow}]
  <2>1. c \in [AllRows -> Decisions \cup {NoRow}]
    BY <1>1 DEF Sound
  <2>2. \A r \in AllRows : d[r] \in Decisions \cup {NoRow}
    BY <1>1, <1>2, <1>3, <2>1
  <2>3. d = [r \in AllRows |-> d[r]]
    BY DEF Added
  <2> QED
    BY <2>2, <2>3
<1>5. \A r \in AllRows : d[r] = "IMPORT" <=> c[r] = "IMPORT" \/ r \in first
  BY <1>1, <1>2, <1>3
<1>6. ImportsOf(d) = ImportsOf(c) \cup first
  BY <1>5, <1>1 DEF ImportsOf
<1> HIDE DEF d
<1>7. \A r \in ImportsOf(d) : Eligible(Line(r))
  BY <1>1, <1>6 DEF Sound
<1>8. \A r, s \in ImportsOf(d) : OneKey(r, s) => r = s
  BY <1>1, <1>6 DEF Sound, OneKey
<1>9. ASSUME NEW r \in AllRows, d[r] \in Repeated
      PROVE  MatchOf(Line(r)) # Empty /\ \E p \in ImportsOf(d) : OneKey(p, r)
  <2>1. CASE r \in second
    BY <2>1, <1>1, <1>6
  <2>2. CASE r \notin second
    <3>1. r \notin first
      BY <1>2, <1>9 DEF Repeated
    <3>2. c[r] \in Repeated
      BY <3>1, <2>2, <1>2, <1>9
    <3> QED
      BY <3>2, <1>1, <1>6 DEF Sound
  <2> QED
    BY <2>1, <2>2
<1>10. Sound(d)
  BY <1>4, <1>7, <1>8, <1>9 DEF Sound
<1> QED
  BY <1>6, <1>10 DEF d

\* Rows taken for something else.
Asides(c, decided) ==
  /\ Sound(c) /\ DOMAIN decided \in SUBSET AllRows
  /\ \A r \in DOMAIN decided : decided[r] \in Decisions \ LinkedDecisions
  /\ \A r \in DOMAIN decided : c[r] \in {NoRow, decided[r]}

LEMMA AsidesSound ==
  ASSUME NEW c, NEW decided, Asides(c, decided)
  PROVE  Sound(Added(c, decided)) /\ ImportsOf(Added(c, decided)) = ImportsOf(c)
<1> DEFINE d == Added(c, decided)
<1>1. /\ Sound(c) /\ DOMAIN decided \in SUBSET AllRows
      /\ \A r \in DOMAIN decided : decided[r] \in Decisions \ LinkedDecisions
      /\ \A r \in DOMAIN decided : c[r] \in {NoRow, decided[r]}
  BY DEF Asides
<1>2. /\ \A r \in DOMAIN decided : d[r] = decided[r]
      /\ \A r \in AllRows \ DOMAIN decided : d[r] = c[r]
  BY <1>1 DEF Added
<1>3. NoRow \notin LinkedDecisions /\ Repeated = LinkedDecisions \ {"IMPORT"} /\ "IMPORT" \in LinkedDecisions
  BY NoRowIsNone DEF Repeated, LinkedDecisions, Decisions
<1>4. d \in [AllRows -> Decisions \cup {NoRow}]
  <2>1. c \in [AllRows -> Decisions \cup {NoRow}]
    BY <1>1 DEF Sound
  <2>2. \A r \in AllRows : d[r] \in Decisions \cup {NoRow}
    BY <1>1, <1>2, <2>1
  <2>3. d = [r \in AllRows |-> d[r]]
    BY DEF Added
  <2> QED
    BY <2>2, <2>3
<1>5. \A r \in AllRows : d[r] \in LinkedDecisions \/ c[r] \in LinkedDecisions => d[r] = c[r]
  BY <1>1, <1>2, <1>3
<1> HIDE DEF d
<1>6. ImportsOf(d) = ImportsOf(c)
  BY <1>3, <1>5 DEF ImportsOf
<1>7. ASSUME NEW r \in AllRows, d[r] \in Repeated
      PROVE  MatchOf(Line(r)) # Empty /\ \E p \in ImportsOf(d) : OneKey(p, r)
  <2>1. c[r] \in Repeated
    BY <1>3, <1>5, <1>7
  <2> QED
    BY <2>1, <1>1, <1>6 DEF Sound
<1>8. Sound(d)
  BY <1>4, <1>6, <1>7, <1>1 DEF Sound
<1> QED
  BY <1>6, <1>8 DEF d

-----------------------------------------------------------------------------
(* The pilot: the order of the hashes. *)

\* What is first in the order of the hashes is of the set it is taken from.
LEMMA FirstOf ==
  ASSUME NEW S, NEW n PROVE First(S, n) \in SUBSET S
BY DEF First

LEMMA FirstGroupsOf ==
  ASSUME NEW G, NEW n PROVE FirstGroups(G, n) \in SUBSET G
BY DEF FirstGroups

\* Of rows in any number, one has the first hash.
LEMMA SomeFirst ==
  ASSUME sheet \in Sheets200, NEW S \in SUBSET AllRows, S # {}
  PROVE  First(S, 1) # {}
<1>1. {Rank(r) : r \in S} \in SUBSET Nat /\ {Rank(r) : r \in S} # {}
  BY RowsOfSheet
<1>2. PICK p \in S : \A r \in S : Rank(p) <= Rank(r)
  <2>1. \E n \in {Rank(r) : r \in S} : \A m \in {Rank(r) : r \in S} : n <= m
    BY <1>1, Smallest
  <2> QED
    BY <2>1
<1>3. \A r \in S : ~(Rank(r) < Rank(p))
  BY <1>2, RowsOfSheet
<1>4. {s \in S : Rank(s) < Rank(p)} = {}
  BY <1>3
<1>5. Cardinality({s \in S : Rank(s) < Rank(p)}) < 1
  BY <1>4, FS_EmptySet
<1> QED
  BY <1>5 DEF First

\* The rows of a set in this order: each of them at one place.
Ordering(S, f) ==
  /\ Len(f) = Cardinality(S) /\ Cardinality(S) \in Nat /\ DOMAIN f = 1 .. Cardinality(S)
  /\ \A i \in DOMAIN f : f[i] \in S
  /\ \A r \in S : \E i \in DOMAIN f : f[i] = r
  /\ \A i, j \in DOMAIN f : f[i] = f[j] => i = j

Place(S, r) == Cardinality({s \in S : Rank(s) < Rank(r)})

LEMMA PlacesDiffer ==
  ASSUME sheet \in Sheets200, NEW S \in SUBSET AllRows
  PROVE  /\ IsFiniteSet(S) /\ Cardinality(S) \in Nat
         /\ \A r \in S : Place(S, r) \in 0 .. (Cardinality(S) - 1)
         /\ \A r, s \in S : Place(S, r) = Place(S, s) => r = s
<1> DEFINE below(r) == {s \in S : Rank(s) < Rank(r)}
<1>1. IsFiniteSet(S) /\ Cardinality(S) \in Nat
  BY RowsOfSheet, FS_Subset, FS_CardinalityType
<1>2. ASSUME NEW r \in S
      PROVE  IsFiniteSet(below(r)) /\ Place(S, r) \in Nat /\ Place(S, r) < Cardinality(S)
  <2>1. IsFiniteSet(S \ {r}) /\ Cardinality(S \ {r}) = Cardinality(S) - 1
    BY <1>1, FS_RemoveElement
  <2>2. below(r) \subseteq S \ {r}
    BY RowsOfSheet
  <2>3. IsFiniteSet(below(r)) /\ Place(S, r) \in Nat /\ Place(S, r) <= Cardinality(S \ {r})
    BY <2>1, <2>2, FS_Subset, FS_CardinalityType DEF Place
  <2> QED
    BY <2>1, <2>3, <1>1
<1>3. ASSUME NEW r \in S, NEW s \in S, Rank(r) < Rank(s)
      PROVE  Place(S, r) < Place(S, s)
  <2>1. below(r) \subseteq below(s) \ {r} /\ r \in below(s)
    BY <1>3, RowsOfSheet
  <2>2. IsFiniteSet(below(s) \ {r}) /\ Cardinality(below(s) \ {r}) = Place(S, s) - 1
    BY <1>2, <2>1, FS_RemoveElement DEF Place
  <2>3. Place(S, r) <= Cardinality(below(s) \ {r})
    BY <2>1, <2>2, FS_Subset DEF Place
  <2>4. Place(S, r) \in Nat /\ Place(S, s) \in Nat
    BY <1>2
  <2> QED
    BY <2>2, <2>3, <2>4
<1>4. ASSUME NEW r \in S, NEW s \in S, Place(S, r) = Place(S, s) PROVE r = s
  <2>1. Place(S, r) \in Nat /\ Rank(r) \in Nat /\ Rank(s) \in Nat
    BY <1>2, RowsOfSheet
  <2>2. ~(Rank(r) < Rank(s)) /\ ~(Rank(s) < Rank(r))
    BY <2>1, <1>3, <1>4
  <2>3. Rank(r) = Rank(s)
    BY <2>1, <2>2
  <2> QED
    BY <2>3, RowsOfSheet
<1> HIDE DEF below
<1> QED
  BY <1>1, <1>2, <1>4

LEMMA OrderOf ==
  ASSUME sheet \in Sheets200, NEW S \in SUBSET AllRows
  PROVE  Ordering(S, InOrder(S))
<1> DEFINE n == Cardinality(S)
           f == InOrder(S)
           was == [r \in S |-> Place(S, r) + 1]
<1>1. /\ IsFiniteSet(S) /\ n \in Nat
      /\ \A r \in S : Place(S, r) \in 0 .. (n - 1)
      /\ \A r, s \in S : Place(S, r) = Place(S, s) => r = s
  BY PlacesDiffer
<1>2. was \in [S -> 1 .. n]
  BY <1>1
<1>3. \A r, s \in S : was[r] = was[s] => r = s
  BY <1>1
<1>4. was \in Injection(S, 1 .. n)
  BY <1>2, <1>3 DEF Injection, IsInjective
<1>5. Cardinality(1 .. n) = n /\ IsFiniteSet(1 .. n)
  BY <1>1, FS_Interval
<1>6. was \in Surjection(S, 1 .. n)
  BY <1>1, <1>4, <1>5, FS_Injection
<1>7. \A i \in 1 .. n : \E r \in S : was[r] = i
  BY <1>6 DEF Surjection
<1>8. \A i \in 1 .. n : \E r \in S : Place(S, r) = i - 1
  BY <1>1, <1>7
<1>9. \A i \in 1 .. n : f[i] = CHOOSE r \in S : Place(S, r) = i - 1
  BY DEF InOrder, Place
<1>10. \A i \in 1 .. n : f[i] \in S /\ Place(S, f[i]) = i - 1
  BY <1>8, <1>9
<1>11. DOMAIN f = 1 .. n /\ Len(f) = n
  BY <1>1 DEF InOrder
<1> HIDE DEF f, was
<1>12. ASSUME NEW r \in S PROVE \E i \in DOMAIN f : f[i] = r
  <2> DEFINE i == Place(S, r) + 1
  <2>1. i \in 1 .. n /\ i - 1 = Place(S, r)
    BY <1>1
  <2> HIDE DEF i
  <2>2. f[i] \in S /\ Place(S, f[i]) = Place(S, r)
    BY <1>10, <2>1
  <2>3. f[i] = r
    BY <2>2, <1>1
  <2> QED
    BY <2>1, <2>3, <1>11
<1>13. ASSUME NEW i \in DOMAIN f, NEW j \in DOMAIN f, f[i] = f[j] PROVE i = j
  <2>1. i \in 1 .. n /\ j \in 1 .. n
    BY <1>11
  <2>2. i - 1 = j - 1
    BY <2>1, <1>10, <1>13
  <2> QED
    BY <2>1, <2>2, <1>1
<1>14. \A i \in DOMAIN f : f[i] \in S
  BY <1>10, <1>11
<1>15. Ordering(S, f)
  BY <1>1, <1>11, <1>12, <1>13, <1>14 DEF Ordering
<1> QED
  BY <1>15 DEF f

\* What is sound of a selection, and the groups, are so while the sheet is the same.
LEMMA SoundStays ==
  ASSUME sheet' = sheet, NEW d, Sound(d), chosen' = d
  PROVE  Sound(chosen)' /\ Imports' = ImportsOf(d) /\ AllRows' = AllRows
<1>1. AllRows' = AllRows
  BY DEF AllRows
<1>2. \A r : (Line(r))' = Line(r)
  BY DEF Line
<1>3. Imports' = ImportsOf(d) /\ (ImportsOf(chosen))' = ImportsOf(d)
  BY <1>1 DEF Imports, ImportsOf
<1>4. Sound(chosen)'
  BY <1>1, <1>2, <1>3 DEF Sound, OneKey
<1> QED
  BY <1>1, <1>3, <1>4
LEMMA GroupsStay ==
  ASSUME sheet' = sheet
  PROVE  /\ ConflictGroups' = ConflictGroups /\ ExactGroups' = ExactGroups
         /\ \A r : (GroupOf(r))' = GroupOf(r)
<1>1. AllRows' = AllRows
  BY DEF AllRows
<1>2. \A r : (Line(r))' = Line(r)
  BY DEF Line
<1>3. \A r : (GroupOf(r))' = GroupOf(r)
  BY <1>1, <1>2 DEF GroupOf
<1>4. Groups' = Groups
  BY <1>1, <1>2, <1>3 DEF Groups
<1>5. Several' = Several
  BY <1>4 DEF Several
<1>6. \A g : (Contradictory(g))' = Contradictory(g)
  BY Zenon DEF Contradictory, Variants, Line
<1>7. \A g : (AllAlike(g))' = AllAlike(g)
  <2>1. \A r : (Payload(r))' = Payload(r)
    BY DEF Payload, Line
  <2>2. \A g : {(Payload(r))' : r \in g} = {Payload(r) : r \in g}
    BY <2>1
  <2> QED
    BY <2>2 DEF AllAlike
<1>8. ConflictGroups' = ConflictGroups
  BY <1>2, <1>5, <1>6 DEF ConflictGroups
<1>9. ExactGroups' = ExactGroups
  BY <1>2, <1>5, <1>7 DEF ExactGroups
<1> QED
  BY <1>3, <1>8, <1>9

-----------------------------------------------------------------------------
(* The pilot: its inductive invariant. *)

Selecting == {"groups", "conflicts", "exact", "history", "unknown", "vendors",
  "quota1", "quota2", "quota3", "quota4", "fill", "selected"}
Accepted == {"writing", "linking", "committed", "valid"}
ZeroTaken == {"quota2", "quota3", "quota4", "fill", "selected"} \cup Accepted

\* What the steps before have taken: no row twice of one group, and the leading zero.
Fits(next, c) ==
  /\ next \in {"groups", "conflicts"} => ImportsOf(c) = {}
  /\ next = "exact" => \A r \in ImportsOf(c) : GroupOf(r) \in ConflictGroups
  /\ next = "history" => \A r \in ImportsOf(c) : GroupOf(r) \in ConflictGroups \cup ExactGroups
  /\ next \in ZeroTaken => \E r \in ImportsOf(c) : Line(r).serial \in ZeroFirst

NoAudits == [a \in Decisions \cup {"LINKED"} |-> 0]
CardAudits ==
  [a \in Decisions \cup {"LINKED"} |-> IF a \in {"IMPORT", "LINKED"} THEN Cardinality(Imports) ELSE 0]

\* What LinkRows leaves.
LinkedUp ==
  /\ target = [r \in AllRows |-> IF r \in ToLink THEN Min(CardFor(r)) ELSE NoRow]
  /\ isolated = ToIsolate
  /\ audits["IMPORT"] = Cardinality(Imports)
  /\ audits["LINKED"] = Cardinality(Imports) + Cardinality(ToLink \ Imports)
  /\ \A d \in Repeated : audits[d] = Count(d)
  /\ audits["QUARANTINE"] = Cardinality(ToIsolate)
  /\ stamp = [taken |-> Cardinality(Taken), cards |-> Count("IMPORT"),
              isolated |-> Cardinality(ToIsolate), counts |-> [d \in Decisions |-> Count(d)]]

BuiltSoFar ==
  /\ step \in Selecting \cup {"writing"} => audits = NoAudits
  /\ step = "linking" => audits = CardAudits
  /\ step \in {"linking", "committed", "valid"} => Ordering(Imports, stock)
  /\ step \in {"committed", "valid"} => LinkedUp

PilotInv ==
  /\ sheet \in Sheets200 /\ step \in Selecting \cup Accepted \cup {"refused"}
  /\ Sound(chosen) /\ Fits(step, chosen)
  /\ step \in Accepted => Distributed
  /\ BuiltSoFar

LEMMA FitsStays ==
  ASSUME sheet' = sheet, NEW d, NEW next, Fits(next, d), chosen' = d, step' = next
  PROVE  Fits(step, chosen)'
<1>1. (ImportsOf(chosen))' = ImportsOf(d)
  BY DEF ImportsOf, AllRows
<1>2. \A r : (Line(r))' = Line(r)
  BY DEF Line
<1> QED
  BY <1>1, <1>2, GroupsStay DEF Fits

LEMMA RefusedKeeps ==
  ASSUME PilotInv, step' = "refused", UNCHANGED chosen, Untouched
  PROVE  PilotInv'
<1>1. sheet' = sheet /\ chosen' = chosen /\ sheet \in Sheets200 /\ Sound(chosen)
  BY DEF PilotInv, Untouched
<1>2. Sound(chosen)'
  BY <1>1, SoundStays
<1>3. Fits(step, chosen)'
  BY DEF Fits, ZeroTaken, Accepted
<1>4. BuiltSoFar'
  BY DEF BuiltSoFar, Selecting
<1>5. (step \in Accepted => Distributed)'
  BY DEF Accepted
<1> QED
  BY <1>1, <1>2, <1>3, <1>4, <1>5 DEF PilotInv

Compatible(c, decided) == \A r \in DOMAIN decided : c[r] \in {NoRow, decided[r]}

\* A step of the selection that adds decisions, or finds a row that has another.
LEMMA AddingKeeps ==
  ASSUME PilotInv, NEW was \in Selecting, NEW next \in Selecting, NEW decided,
         Adding(was, next, decided),
         Compatible(chosen, decided) =>
           Sound(Added(chosen, decided)) /\ Fits(next, Added(chosen, decided))
  PROVE  PilotInv'
<1>1. CASE Clash(was, decided)
  BY <1>1, RefusedKeeps DEF Clash, Now
<1>2. CASE Take(was, next, decided)
  <2> DEFINE d == Added(chosen, decided)
  <2>1. step = was /\ step' = next /\ Untouched /\ chosen' = d /\ Compatible(chosen, decided)
    BY <1>2 DEF Take, Now, Added, Compatible
  <2>2. sheet' = sheet /\ sheet \in Sheets200 /\ audits' = audits
    BY <2>1 DEF Untouched, PilotInv
  <2>3. Sound(d) /\ Fits(next, d)
    BY <2>1
  <2>4. PICK e : e = d
    OBVIOUS
  <2> HIDE DEF d
  <2>5. Sound(chosen)'
    BY <2>1, <2>2, <2>3, <2>4, SoundStays
  <2>6. Fits(step, chosen)'
    BY <2>1, <2>2, <2>3, <2>4, FitsStays
  <2>7. step' \notin Accepted \cup {"committed", "linking", "valid", "writing"}
    BY <2>1 DEF Selecting, Accepted
  <2>8. BuiltSoFar'
    <3>1. audits' = NoAudits
      BY <2>1, <2>2 DEF PilotInv, BuiltSoFar
    <3>2. NoAudits' = NoAudits
      BY DEF NoAudits
    <3> QED
      BY <3>1, <3>2, <2>7 DEF BuiltSoFar
  <2> QED
    BY <2>1, <2>2, <2>5, <2>6, <2>7, <2>8 DEF PilotInv
<1> QED
  BY <1>1, <1>2 DEF Adding

-----------------------------------------------------------------------------
(* The pilot: the steps that take groups. *)

\* A lead and another row of each group, where no row of the groups was taken for a card.
OfGroups(c, G, lead, other, word, decided) ==
  /\ G \in SUBSET Several /\ word \in Repeated
  /\ DOMAIN lead = G /\ DOMAIN other = G
  /\ \A g \in G : lead[g] \in g /\ Eligible(Line(lead[g])) /\ other[g] \in g
  /\ \A r \in ImportsOf(c) : GroupOf(r) \notin G
  /\ decided = [r \in {lead[g] : g \in G} \cup {other[g] : g \in G} |->
                  IF r \in {lead[g] : g \in G} THEN "IMPORT" ELSE word]

LEMMA GroupsSound ==
  ASSUME sheet \in Sheets200, NEW c, NEW G, NEW lead, NEW other, NEW word, NEW decided,
         Sound(c), OfGroups(c, G, lead, other, word, decided), Compatible(c, decided)
  PROVE  /\ Sound(Added(c, decided))
         /\ \A r \in ImportsOf(Added(c, decided)) : r \in ImportsOf(c) \/ GroupOf(r) \in G
<1> DEFINE first == {lead[g] : g \in G}
           second == {other[g] : g \in G}
<1>1. /\ G \in SUBSET Groups /\ word \in Repeated
      /\ \A g \in G : lead[g] \in g /\ Eligible(Line(lead[g])) /\ other[g] \in g
      /\ \A r \in ImportsOf(c) : GroupOf(r) \notin G
      /\ decided = [r \in first \cup second |-> IF r \in first THEN "IMPORT" ELSE word]
  BY DEF OfGroups, Several
<1>2. \A g \in G : g \in SUBSET AllRows /\ \A r \in g : g = GroupOf(r) /\ MatchOf(Line(r)) # Empty
  BY <1>1, GroupsOfRows
<1>3. first \in SUBSET AllRows /\ second \in SUBSET AllRows
  BY <1>1, <1>2
<1>4. \A r \in first : Eligible(Line(r)) /\ GroupOf(r) \in G
  BY <1>1, <1>2
<1>5. ASSUME NEW r \in first, NEW s \in first, OneKey(r, s) PROVE r = s
  <2>1. PICK g \in G : r = lead[g]
    OBVIOUS
  <2>2. PICK h \in G : s = lead[h]
    OBVIOUS
  <2>3. g \in Groups /\ h \in Groups /\ r \in g /\ s \in h
    BY <1>1, <2>1, <2>2
  <2>4. g = h
    BY <2>3, <1>5, OneGroup DEF OneKey
  <2> QED
    BY <2>1, <2>2, <2>4
<1>6. ASSUME NEW r \in first, NEW s \in ImportsOf(c), OneKey(r, s) PROVE r = s
  <2>1. PICK g \in G : r = lead[g]
    OBVIOUS
  <2>2. g \in Groups /\ r \in g /\ s \in AllRows
    BY <1>1, <2>1 DEF ImportsOf
  <2>3. GroupOf(s) = g
    BY <2>2, <1>6, GroupOfMatch DEF OneKey
  <2> QED
    BY <2>3, <1>1
<1>7. ASSUME NEW s \in second
      PROVE  MatchOf(Line(s)) # Empty /\ \E p \in first : OneKey(p, s)
  <2>1. PICK g \in G : s = other[g]
    OBVIOUS
  <2>2. g \in Groups /\ lead[g] \in g /\ s \in g /\ lead[g] \in first
    BY <1>1, <2>1
  <2>3. MatchOf(Line(s)) # Empty /\ OneKey(lead[g], s)
    BY <2>2, GroupsOfRows DEF OneKey
  <2> QED
    BY <2>2, <2>3
<1>8. \A r \in DOMAIN decided : c[r] \in {NoRow, decided[r]}
  BY DEF Compatible
<1> HIDE DEF first, second
<1>9. Leads(c, first, second, word, decided)
  BY <1>1, <1>3, <1>4, <1>5, <1>6, <1>7, <1>8 DEF Leads
<1>10. /\ Sound(Added(c, decided))
       /\ ImportsOf(Added(c, decided)) = ImportsOf(c) \cup first
  BY <1>9, LeadsSound
<1> QED
  BY <1>4, <1>10

\* Rows that are alone in their group.
LEMMA SinglesSound ==
  ASSUME sheet \in Sheets200, NEW c, NEW more \in SUBSET UniqueEligible, NEW decided,
         decided = [r \in more |-> "IMPORT"], Sound(c), Compatible(c, decided)
  PROVE  /\ Sound(Added(c, decided))
         /\ ImportsOf(Added(c, decided)) = ImportsOf(c) \cup more
<1>1. /\ more \in SUBSET AllRows
      /\ \A r \in more : Eligible(Line(r)) /\ Cardinality(GroupOf(r)) = 1
  BY DEF UniqueEligible, Singles
<1>2. ASSUME NEW r \in more, NEW s \in AllRows, OneKey(r, s) PROVE r = s
  <2>1. r \in GroupOf(r) /\ s \in GroupOf(r) /\ GroupOf(r) \in SUBSET AllRows
    BY <1>1, <1>2 DEF GroupOf, OneKey
  <2>2. IsFiniteSet(GroupOf(r)) /\ Cardinality(GroupOf(r)) = 1
    BY <1>1, <2>1, RowsOfSheet, FS_Subset
  <2>3. \E x : GroupOf(r) = {x}
    BY <2>2, FS_Singleton
  <2> QED
    BY <2>1, <2>3
<1>3. ImportsOf(c) \in SUBSET AllRows
  BY DEF ImportsOf
<1>4. decided = [r \in more \cup {} |-> IF r \in more THEN "IMPORT" ELSE "EXACT_DUPLICATE"]
  OBVIOUS
<1>5. Leads(c, more, {}, "EXACT_DUPLICATE", decided)
  BY <1>1, <1>2, <1>3, <1>4 DEF Leads, Compatible, Repeated
<1> QED
  BY <1>5, LeadsSound

-----------------------------------------------------------------------------
(* The pilot: the steps of the selection. *)

LEMMA LackingKeeps ==
  ASSUME PilotInv, NEW was, NEW lacks, Lacking(was, lacks)
  PROVE  PilotInv'
BY RefusedKeeps DEF Lacking, Now

LEMMA DamagedKeeps ==
  ASSUME PilotInv, TakeDamaged
  PROVE  PilotInv'
<1> DEFINE all == Damaged \cup Numeric \cup Positions
           decided == [r \in all |->
                         CASE r \in Positions -> "QUANTITY_POSITION_DEFERRED"
                           [] r \in Damaged \ Positions -> "SOURCE_CORRUPTED_REJECTED"
                           [] OTHER -> "QUARANTINE"]
<1>1. \/ step' = "refused" /\ UNCHANGED chosen /\ Untouched
      \/ step = "groups" /\ Adding("groups", "conflicts", decided)
  BY DEF TakeDamaged, Lacking, Now
<1>2. CASE step = "groups" /\ Adding("groups", "conflicts", decided)
  <2>1. /\ DOMAIN decided = all
        /\ \A r \in all : decided[r] \in {"QUANTITY_POSITION_DEFERRED", "SOURCE_CORRUPTED_REJECTED", "QUARANTINE"}
    OBVIOUS
  <2>2. all \in SUBSET AllRows
    BY FirstOf DEF Damaged, Numeric, Positions
  <2>3. PICK e : e = decided
    OBVIOUS
  <2> HIDE DEF decided, all
  <2>4. Sound(chosen) /\ ImportsOf(chosen) = {}
    BY <1>2 DEF PilotInv, Fits
  <2>5. ASSUME Compatible(chosen, e)
        PROVE  Sound(Added(chosen, e)) /\ Fits("conflicts", Added(chosen, e))
    <3>1. Asides(chosen, e)
      BY <2>1, <2>2, <2>3, <2>4, <2>5 DEF Asides, Compatible, Decisions, LinkedDecisions
    <3>2. Sound(Added(chosen, e)) /\ ImportsOf(Added(chosen, e)) = {}
      BY <3>1, <2>4, AsidesSound
    <3> QED
      BY <3>2 DEF Fits, ZeroTaken, Accepted
  <2>6. Adding("groups", "conflicts", e)
    BY <1>2, <2>3
  <2> QED
    BY <2>5, <2>6, AddingKeeps DEF Selecting
<1>3. CASE step' = "refused" /\ UNCHANGED chosen /\ Untouched
  BY <1>3, RefusedKeeps
<1> QED
  BY <1>1, <1>2, <1>3

LEMMA ConflictsKeep ==
  ASSUME PilotInv, TakeConflicts
  PROVE  PilotInv'
<1> DEFINE first == {Min(g) : g \in ChosenConflicts}
           second == {Second(g) : g \in ChosenConflicts}
           decided == [r \in first \cup second |-> IF r \in first THEN "IMPORT" ELSE "CONFLICT_HISTORY_ONLY"]
<1>1. \/ step' = "refused" /\ UNCHANGED chosen /\ Untouched
      \/ step = "conflicts" /\ Adding("conflicts", "exact", decided)
  BY DEF TakeConflicts, Lacking, Now
<1>2. CASE step = "conflicts" /\ Adding("conflicts", "exact", decided)
  <2>1. sheet \in Sheets200 /\ Sound(chosen) /\ ImportsOf(chosen) = {}
    BY <1>2 DEF PilotInv, Fits
  <2>2. ChosenConflicts \in SUBSET ConflictGroups
    BY FirstGroupsOf DEF ChosenConflicts, Specials, Special, FirstGroups
  <2>3. PICK G, lead, other, e :
          /\ G = ChosenConflicts /\ lead = [g \in G |-> Min(g)] /\ other = [g \in G |-> Second(g)]
          /\ e = decided
    OBVIOUS
  <2>4. first = {lead[g] : g \in G} /\ second = {other[g] : g \in G}
    BY <2>3
  <2>5. e = [r \in {lead[g] : g \in G} \cup {other[g] : g \in G} |->
               IF r \in {lead[g] : g \in G} THEN "IMPORT" ELSE "CONFLICT_HISTORY_ONLY"]
    BY <2>3, <2>4
  <2>6. \A g \in G : lead[g] \in g /\ Eligible(Line(lead[g])) /\ other[g] \in g
    <3> SUFFICES ASSUME NEW g \in G PROVE lead[g] \in g /\ Eligible(Line(lead[g])) /\ other[g] \in g
      OBVIOUS
    <3>1. g \in ConflictGroups /\ lead[g] = Min(g) /\ other[g] = Second(g)
      BY <2>2, <2>3
    <3> QED
      BY <3>1, <2>1, LeadOfConflict
  <2> HIDE DEF decided, first, second
  <2>7. G \in SUBSET Several /\ G \in SUBSET ConflictGroups
    BY <2>1, <2>2, <2>3, KindsApart
  <2>8. OfGroups(chosen, G, lead, other, "CONFLICT_HISTORY_ONLY", e)
    BY <2>1, <2>3, <2>5, <2>6, <2>7 DEF OfGroups, Repeated
  <2>9. ASSUME Compatible(chosen, e)
        PROVE  Sound(Added(chosen, e)) /\ Fits("exact", Added(chosen, e))
    <3>1. /\ Sound(Added(chosen, e))
          /\ \A r \in ImportsOf(Added(chosen, e)) : r \in ImportsOf(chosen) \/ GroupOf(r) \in G
      BY <2>1, <2>8, <2>9, GroupsSound
    <3> QED
      BY <3>1, <2>1, <2>7 DEF Fits, ZeroTaken, Accepted
  <2>10. Adding("conflicts", "exact", e)
    BY <1>2, <2>3
  <2> QED
    BY <2>9, <2>10, AddingKeeps DEF Selecting
<1>3. CASE step' = "refused" /\ UNCHANGED chosen /\ Untouched
  BY <1>3, RefusedKeeps
<1> QED
  BY <1>1, <1>2, <1>3

\* The groups whose rows say the same, and those that only tell a history.
LEMMA PairsSound ==
  ASSUME sheet \in Sheets200, NEW c, NEW G \in SUBSET (ExactGroups \cup HistoryGroups),
         NEW word \in Repeated, NEW e, e = Pairs(G, word), Sound(c), Compatible(c, e),
         \A r \in ImportsOf(c) : GroupOf(r) \notin G
  PROVE  /\ Sound(Added(c, e))
         /\ \A r \in ImportsOf(Added(c, e)) : r \in ImportsOf(c) \/ GroupOf(r) \in G
<1>1. PICK lead, other : lead = [g \in G |-> Primary(g)] /\ other = [g \in G |-> Another(g)]
  OBVIOUS
<1>2. /\ {Primary(g) : g \in G} = {lead[g] : g \in G}
      /\ {Another(g) : g \in G} = {other[g] : g \in G}
  BY <1>1
<1>3. e = [r \in {lead[g] : g \in G} \cup {other[g] : g \in G} |->
             IF r \in {lead[g] : g \in G} THEN "IMPORT" ELSE word]
  BY <1>2 DEF Pairs
<1>4. \A g \in G : lead[g] \in g /\ Eligible(Line(lead[g])) /\ other[g] \in g
  BY <1>1, LeadOfOthers
<1>5. G \in SUBSET Several
  BY KindsApart
<1>6. OfGroups(c, G, lead, other, word, e)
  BY <1>1, <1>3, <1>4, <1>5 DEF OfGroups
<1> QED
  BY <1>6, GroupsSound

LEMMA ExactKeep ==
  ASSUME PilotInv, TakeExact
  PROVE  PilotInv'
<1>1. PICK G, e : G = FirstGroups(ExactGroups, Need.exact) /\ e = Pairs(G, "EXACT_DUPLICATE")
  OBVIOUS
<1>2. Adding("exact", "history", e) /\ step = "exact"
  BY <1>1 DEF TakeExact, Adding, Take, Clash, Now
<1>3. /\ sheet \in Sheets200 /\ Sound(chosen)
      /\ \A r \in ImportsOf(chosen) : GroupOf(r) \in ConflictGroups
  BY <1>2 DEF PilotInv, Fits
<1>4. G \in SUBSET ExactGroups
  BY <1>1, FirstGroupsOf
<1>5. \A r \in ImportsOf(chosen) : GroupOf(r) \notin G
  BY <1>3, <1>4, KindsApart
<1>6. ASSUME Compatible(chosen, e)
      PROVE  Sound(Added(chosen, e)) /\ Fits("history", Added(chosen, e))
  <2>1. G \in SUBSET (ExactGroups \cup HistoryGroups) /\ "EXACT_DUPLICATE" \in Repeated
    BY <1>4 DEF Repeated
  <2>2. /\ Sound(Added(chosen, e))
        /\ \A r \in ImportsOf(Added(chosen, e)) : r \in ImportsOf(chosen) \/ GroupOf(r) \in G
    BY <1>1, <1>3, <1>5, <1>6, <2>1, PairsSound
  <2> QED
    BY <2>2, <1>3, <1>4 DEF Fits, ZeroTaken, Accepted
<1> QED
  BY <1>2, <1>6, AddingKeeps DEF Selecting

LEMMA HistoryKeep ==
  ASSUME PilotInv, TakeHistory
  PROVE  PilotInv'
<1>1. PICK G, e : G = FirstGroups(HistoryGroups, Need.history) /\ e = Pairs(G, "CONFLICT_HISTORY_ONLY")
  OBVIOUS
<1>2. Adding("history", "unknown", e) /\ step = "history"
  BY <1>1 DEF TakeHistory, Adding, Take, Clash, Now
<1>3. /\ sheet \in Sheets200 /\ Sound(chosen)
      /\ \A r \in ImportsOf(chosen) : GroupOf(r) \in ConflictGroups \cup ExactGroups
  BY <1>2 DEF PilotInv, Fits
<1>4. G \in SUBSET HistoryGroups
  BY <1>1, FirstGroupsOf
<1>5. \A r \in ImportsOf(chosen) : GroupOf(r) \notin G
  BY <1>3, <1>4, KindsApart
<1>6. ASSUME Compatible(chosen, e)
      PROVE  Sound(Added(chosen, e)) /\ Fits("unknown", Added(chosen, e))
  <2>1. G \in SUBSET (ExactGroups \cup HistoryGroups) /\ "CONFLICT_HISTORY_ONLY" \in Repeated
    BY <1>4 DEF Repeated
  <2>2. Sound(Added(chosen, e))
    BY <1>1, <1>3, <1>5, <1>6, <2>1, PairsSound
  <2> QED
    BY <2>2 DEF Fits, ZeroTaken, Accepted
<1> QED
  BY <1>2, <1>6, AddingKeeps DEF Selecting

LEMMA UnknownKeep ==
  ASSUME PilotInv, TakeUnknown
  PROVE  PilotInv'
<1>1. PICK e : e = [r \in Unknown |-> "MANUAL_REVIEW"]
  OBVIOUS
<1>2. \/ step' = "refused" /\ UNCHANGED chosen /\ Untouched
      \/ Adding("unknown", "vendors", e)
  BY <1>1 DEF TakeUnknown, Lacking, Now
<1>3. CASE Adding("unknown", "vendors", e)
  <2>1. Unknown \in SUBSET AllRows
    BY FirstOf DEF Unknown, Singles, First
  <2>2. ASSUME Compatible(chosen, e)
        PROVE  Sound(Added(chosen, e)) /\ Fits("vendors", Added(chosen, e))
    <3>1. Asides(chosen, e)
      BY <1>1, <2>1, <2>2 DEF PilotInv, Asides, Compatible, Decisions, LinkedDecisions
    <3>2. Sound(Added(chosen, e))
      BY <3>1, AsidesSound
    <3> QED
      BY <3>2 DEF Fits, ZeroTaken, Accepted
  <2> QED
    BY <1>3, <2>2, AddingKeeps DEF Selecting
<1>4. CASE step' = "refused" /\ UNCHANGED chosen /\ Untouched
  BY <1>4, RefusedKeeps
<1> QED
  BY <1>2, <1>3, <1>4

\* A step that takes rows alone in their groups; the leading zero is among the rows taken
\* before, or among these.
LEMMA MoreKeep ==
  ASSUME PilotInv, NEW was \in Selecting, NEW next \in Selecting, NEW more \in SUBSET UniqueEligible,
         step = was, Adding(was, next, [r \in more |-> "IMPORT"]),
         next \notin {"groups", "conflicts", "exact", "history"},
         next \in ZeroTaken => \E r \in Imports \cup more : Line(r).serial \in ZeroFirst
  PROVE  PilotInv'
<1>1. PICK e : e = [r \in more |-> "IMPORT"]
  OBVIOUS
<1>2. sheet \in Sheets200 /\ Sound(chosen)
  BY DEF PilotInv
<1>3. ASSUME Compatible(chosen, e)
      PROVE  Sound(Added(chosen, e)) /\ Fits(next, Added(chosen, e))
  <2>1. /\ Sound(Added(chosen, e))
        /\ ImportsOf(Added(chosen, e)) = ImportsOf(chosen) \cup more
    BY <1>1, <1>2, <1>3, SinglesSound
  <2>2. ImportsOf(chosen) = Imports
    BY DEF ImportsOf, Imports
  <2> QED
    BY <2>1, <2>2 DEF Fits
<1>4. Adding(was, next, e)
  BY <1>1
<1> QED
  BY <1>3, <1>4, AddingKeeps

LEMMA VendorsKeep ==
  ASSUME PilotInv, TakeVendors
  PROVE  PilotInv'
<1> DEFINE named == UNION {BestOf(v) : v \in MissingVendors}
           diverse == First(UNION {BestOf(Vendor(Line(r))) : r \in UniqueEligible}, Need.vendors)
<1>1. PICK more : more = named \cup diverse
  OBVIOUS
<1>2. \/ step' = "refused" /\ UNCHANGED chosen /\ Untouched
      \/ step = "vendors" /\ Adding("vendors", "quota1", [r \in more |-> "IMPORT"])
  BY <1>1 DEF TakeVendors, Lacking, Now
<1>3. \A v : BestOf(v) \in SUBSET UniqueEligible
  BY DEF BestOf, OfVendor, First
<1>4. diverse \in SUBSET UNION {BestOf(Vendor(Line(r))) : r \in UniqueEligible}
  BY FirstOf
<1>5. more \in SUBSET UniqueEligible
  BY <1>1, <1>3, <1>4
<1>6. CASE step = "vendors" /\ Adding("vendors", "quota1", [r \in more |-> "IMPORT"])
  BY <1>5, <1>6, MoreKeep DEF Selecting, ZeroTaken, Accepted
<1>7. CASE step' = "refused" /\ UNCHANGED chosen /\ Untouched
  BY <1>7, RefusedKeeps
<1> QED
  BY <1>2, <1>6, <1>7

LEMMA QuotaKeeps ==
  ASSUME PilotInv, NEW i \in 1 .. 4, Fulfill(i)
  PROVE  PilotInv'
<1> DEFINE was == <<"quota1", "quota2", "quota3", "quota4">>[i]
           next == <<"quota2", "quota3", "quota4", "fill">>[i]
           q == Quotas[i]
           old == {MatchOf(Line(r)) : r \in OfKind(q, Imports)}
           has == Cardinality(old)
           taken == First(OfKind(q, UniqueEligible) \ Imports, Need[q] - has)
<1>1. PICK more : more = taken
  OBVIOUS
<1>2. \/ step' = "refused" /\ UNCHANGED chosen /\ Untouched
      \/ /\ step = was /\ Adding(was, next, [r \in more |-> "IMPORT"])
         /\ ~(has + Cardinality(more) < Need[q])
  BY <1>1 DEF Fulfill, Lacking, Now
<1>3. CASE /\ step = was /\ Adding(was, next, [r \in more |-> "IMPORT"])
           /\ ~(has + Cardinality(more) < Need[q])
  <2>1. more \in SUBSET UniqueEligible
    BY <1>1, FirstOf DEF OfKind
  <2>2. /\ was \in Selecting /\ next \in Selecting
        /\ next \notin {"groups", "conflicts", "exact", "history"} /\ next \in ZeroTaken
        /\ i # 1 => was \in ZeroTaken
    BY DEF Selecting, ZeroTaken
  <2>3. \E r \in Imports \cup more : Line(r).serial \in ZeroFirst
    <3>1. CASE i # 1
      <4>1. \E r \in ImportsOf(chosen) : Line(r).serial \in ZeroFirst
        BY <1>3, <2>2, <3>1 DEF PilotInv, Fits
      <4> QED
        BY <4>1 DEF ImportsOf, Imports
    <3>2. CASE i = 1
      <4>1. q = "zero"
        BY <3>2 DEF Quotas
      <4>2. Need[q] \in Nat \ {0}
        BY <4>1, ZeroIsNeeded
      <4>3. \A S : OfKind(q, S) = {r \in S : Line(r).serial \in ZeroFirst}
        BY <4>1 DEF OfKind
      <4>4. CASE OfKind(q, Imports) = {}
        <5>1. has = 0
          <6>1. old = {}
            BY <4>4
          <6> QED
            BY <6>1, FS_EmptySet
        <5>2. more # {}
          <6> SUFFICES ASSUME more = {} PROVE FALSE
            OBVIOUS
          <6>1. Cardinality(more) = 0
            BY FS_EmptySet
          <6> HIDE DEF has, q
          <6> QED
            BY <1>3, <5>1, <6>1, <4>2
        <5>3. more \in SUBSET OfKind(q, UniqueEligible)
          BY <1>1, FirstOf
        <5> QED
          BY <5>2, <5>3, <4>3
      <4>5. CASE OfKind(q, Imports) # {}
        BY <4>5, <4>3
      <4> QED
        BY <4>4, <4>5
    <3> QED
      BY <3>1, <3>2
  <2>4. PICK a, n : a = was /\ n = next
    OBVIOUS
  <2> HIDE DEF was, next, has, q, taken, old
  <2> QED
    BY <1>3, <2>1, <2>2, <2>3, <2>4, MoreKeep
<1>4. CASE step' = "refused" /\ UNCHANGED chosen /\ Untouched
  BY <1>4, RefusedKeeps
<1> QED
  BY <1>2, <1>3, <1>4

LEMMA FillKeeps ==
  ASSUME PilotInv, Fill
  PROVE  PilotInv'
<1>1. PICK more : more = First(UniqueEligible \ Imports, Need.imports - Cardinality(Imports))
  OBVIOUS
<1>2. step = "fill" /\ Adding("fill", "selected", [r \in more |-> "IMPORT"])
  BY <1>1 DEF Fill, Adding, Take, Clash, Now
<1>3. more \in SUBSET UniqueEligible
  BY <1>1, FirstOf
<1>4. \E r \in ImportsOf(chosen) : Line(r).serial \in ZeroFirst
  BY <1>2 DEF PilotInv, Fits, ZeroTaken
<1>5. \E r \in Imports \cup more : Line(r).serial \in ZeroFirst
  BY <1>4 DEF ImportsOf, Imports
<1> QED
  BY <1>2, <1>3, <1>5, MoreKeep DEF Selecting

-----------------------------------------------------------------------------
(* The pilot: the database of a selection. *)

\* What is said of the rows and of the decisions stays with them.
LEMMA SelectionStays ==
  ASSUME sheet' = sheet, chosen' = chosen
  PROVE  /\ Imports' = Imports /\ Taken' = Taken /\ ToLink' = ToLink /\ ToIsolate' = ToIsolate
         /\ AllRows' = AllRows
         /\ \A d : (Count(d))' = Count(d)
         /\ Distributed' = Distributed
         /\ Sound(chosen) => Sound(chosen)'
<1>1. AllRows' = AllRows /\ \A r : (Line(r))' = Line(r) /\ (Rank(r))' = Rank(r)
  BY DEF AllRows, Line, Rank
<1>2. Imports' = Imports /\ Taken' = Taken
  BY <1>1 DEF Imports, Taken
<1>3. ToLink' = ToLink
  BY <1>2 DEF ToLink
<1>4. ToIsolate' = ToIsolate
  BY <1>2, <1>3 DEF ToIsolate
<1>5. \A d : (Count(d))' = Count(d)
  BY <1>1 DEF Count
<1>6. Distributed' = Distributed
  BY <1>1, <1>2, <1>5 DEF Distributed
<1>7. Sound(chosen) => Sound(chosen)'
  BY SoundStays
<1> QED
  BY <1>1, <1>2, <1>3, <1>4, <1>5, <1>6, <1>7

LEMMA FitsKept ==
  ASSUME sheet' = sheet, chosen' = chosen, Fits(step, chosen), step \in ZeroTaken, step' \in Accepted
  PROVE  Fits(step, chosen)'
<1>1. \E r \in ImportsOf(chosen) : Line(r).serial \in ZeroFirst
  BY DEF Fits
<1>2. (\E r \in ImportsOf(chosen) : Line(r).serial \in ZeroFirst)'
  BY <1>1 DEF ImportsOf, AllRows, Line
<1> QED
  BY <1>2 DEF Fits, Accepted

LEMMA ImportParts ==
  ASSUME PilotInv
  PROVE  /\ sheet \in Sheets200 /\ Imports = ImportsOf(chosen) /\ Imports \in SUBSET AllRows
         /\ \A r \in Imports : Eligible(Line(r)) /\ MatchOf(Line(r)) # Empty
         /\ \A r, s \in Imports : OneKey(r, s) => r = s
         /\ \A r, s \in Imports : Line(r).serial = Line(s).serial => r = s
         /\ \A r \in ToLink : r \in AllRows /\ MatchOf(Line(r)) # Empty /\ \E p \in Imports : OneKey(p, r)
         /\ Taken \in SUBSET AllRows /\ ToLink \in SUBSET Taken /\ Imports \in SUBSET ToLink
         /\ IsFiniteSet(AllRows)
<1>1. sheet \in Sheets200 /\ Sound(chosen)
  BY DEF PilotInv
<1>2. Imports = ImportsOf(chosen) /\ Imports \in SUBSET AllRows
  BY DEF Imports, ImportsOf
<1>3. \A r \in Imports : Eligible(Line(r)) /\ MatchOf(Line(r)) # Empty
  BY <1>1, <1>2 DEF Sound, Eligible, SafeText
<1>4. \A r, s \in Imports : OneKey(r, s) => r = s
  BY <1>1, <1>2 DEF Sound
<1>5. \A r, s \in Imports : Line(r).serial = Line(s).serial => r = s
  BY <1>1, <1>2, <1>3, <1>4, RowsOfSheet DEF OneKey
<1>6. Taken \in SUBSET AllRows /\ ToLink \in SUBSET Taken
  BY DEF Taken, ToLink
<1>7. Imports \in SUBSET ToLink
  BY NoRowIsNone DEF Imports, ToLink, Taken, LinkedDecisions, Decisions
<1>8. ASSUME NEW r \in ToLink
      PROVE  MatchOf(Line(r)) # Empty /\ \E p \in Imports : OneKey(p, r)
  <2>1. r \in AllRows /\ chosen[r] \in LinkedDecisions
    BY <1>6 DEF ToLink
  <2>2. CASE chosen[r] = "IMPORT"
    <3>1. r \in Imports
      BY <2>1, <2>2 DEF Imports
    <3> QED
      BY <3>1, <1>3 DEF OneKey
  <2>3. CASE chosen[r] # "IMPORT"
    BY <2>1, <2>3, <1>1, <1>2 DEF Sound, LinkedDecisions, Repeated
  <2> QED
    BY <2>2, <2>3
<1> QED
  BY <1>1, <1>2, <1>3, <1>4, <1>5, <1>6, <1>7, <1>8, RowsOfSheet

LEMMA AcceptKeeps ==
  ASSUME PilotInv, Accept
  PROVE  PilotInv'
<1>1. /\ sheet' = sheet /\ chosen' = chosen /\ step = "selected" /\ audits' = audits
      /\ step' = IF Distributed THEN "writing" ELSE "refused"
  BY DEF Accept, Untouched
<1>2. CASE ~Distributed
  BY <1>1, <1>2, RefusedKeeps DEF Accept
<1>3. CASE Distributed
  <2>1. step' = "writing"
    BY <1>1, <1>3
  <2>2. Fits(step, chosen)'
    BY <1>1, <2>1, FitsKept DEF PilotInv, ZeroTaken, Accepted
  <2>3. Distributed' /\ Sound(chosen)'
    BY <1>1, <1>3, SelectionStays DEF PilotInv
  <2>4. NoAudits' = NoAudits
    BY DEF NoAudits
  <2>5. BuiltSoFar'
    BY <1>1, <2>1, <2>4 DEF PilotInv, BuiltSoFar, Selecting
  <2> QED
    BY <1>1, <2>1, <2>2, <2>3, <2>5 DEF PilotInv, Accepted
<1> QED
  BY <1>2, <1>3

\* Every row taken for a card can be written after those before it.
LEMMA AllWritable ==
  ASSUME PilotInv, NEW r \in Imports
  PROVE  Writable(r, {s \in Imports : Rank(s) < Rank(r)})
<1>1. r \in AllRows /\ MatchOf(Line(r)) # Empty /\ Eligible(Line(r)) /\ sheet \in Sheets200
  BY ImportParts
<1>2. Line(r).status = "TEXT_EXACT" /\ Line(r).serial # Empty /\ Rank(r) \in Nat
  BY <1>1, RowsOfSheet
<1>3. Line(r).units = 1 /\ Named(Line(r)) /\ Proven(Line(r).date)
  BY <1>1 DEF Eligible, Resolved
<1>4. ASSUME NEW s \in Imports, Rank(s) < Rank(r)
      PROVE  Line(s).serial # Line(r).serial /\ MatchOf(Line(s)) # MatchOf(Line(r))
  <2>1. s # r
    BY <1>2, <1>4
  <2> QED
    BY <2>1, ImportParts DEF OneKey
<1> QED
  BY <1>1, <1>2, <1>3, <1>4 DEF Writable

LEMMA WriteKeeps ==
  ASSUME PilotInv, WriteCards
  PROVE  PilotInv'
<1>1. /\ step = "writing" /\ sheet' = sheet /\ chosen' = chosen
      /\ \A r \in Imports : Writable(r, {s \in Imports : Rank(s) < Rank(r)})
  BY AllWritable DEF WriteCards
<1>2. /\ step' = "linking" /\ stock' = InOrder(Imports)
      /\ audits' = [audits EXCEPT !["IMPORT"] = @ + Len(stock'), !["LINKED"] = @ + Len(stock')]
  BY <1>1 DEF WriteCards
<1>3. Ordering(Imports, InOrder(Imports))
  BY ImportParts, OrderOf
<1>4. Len(stock') = Cardinality(Imports) /\ Cardinality(Imports) \in Nat
  BY <1>2, <1>3 DEF Ordering
<1>5. audits = NoAudits
  BY <1>1 DEF PilotInv, BuiltSoFar
<1>6. audits' = CardAudits
  <2>1. audits = [a \in Decisions \cup {"LINKED"} |-> 0]
    BY <1>5 DEF NoAudits
  <2>2. "IMPORT" \in Decisions /\ 0 + Cardinality(Imports) = Cardinality(Imports)
    BY <1>4 DEF Decisions
  <2> QED
    BY <1>2, <1>4, <2>1, <2>2 DEF CardAudits
<1>7. CardAudits' = CardAudits
  BY <1>1, SelectionStays DEF CardAudits
<1>8. BuiltSoFar'
  <2>1. (Ordering(Imports, stock))'
    BY <1>1, <1>2, <1>3, SelectionStays DEF Ordering
  <2> QED
    BY <1>2, <1>6, <1>7, <2>1 DEF BuiltSoFar, Selecting
<1>9. Fits(step, chosen)'
  BY <1>1, <1>2, FitsKept DEF PilotInv, ZeroTaken, Accepted
<1>10. Distributed' /\ Sound(chosen)'
  BY <1>1, SelectionStays DEF PilotInv, Accepted
<1> QED
  BY <1>1, <1>2, <1>8, <1>9, <1>10 DEF PilotInv, Accepted

-----------------------------------------------------------------------------
(* The pilot: every linked row has one card, that of the import of its identity. *)

LEMMA OneCard ==
  ASSUME PilotInv, Ordering(Imports, stock), NEW r \in ToLink
  PROVE  LET c == Min(CardFor(r))
         IN  /\ CardFor(r) = {c} /\ c \in DOMAIN stock /\ c \in Nat
             /\ stock[c] \in Imports /\ OneKey(stock[c], r)
<1>1. PICK p \in Imports : OneKey(p, r)
  BY ImportParts
<1>2. PICK c \in DOMAIN stock : stock[c] = p
  BY DEF Ordering
<1>3. c \in Nat
  BY <1>2 DEF Ordering
<1>4. ASSUME NEW e \in DOMAIN stock PROVE e \in CardFor(r) <=> e = c
  <2>1. stock[e] \in Imports
    BY DEF Ordering
  <2>2. e \in CardFor(r) <=> OneKey(stock[e], r)
    BY DEF CardFor, OneKey
  <2>3. OneKey(stock[e], r) <=> OneKey(stock[e], p)
    BY <1>1 DEF OneKey
  <2>4. OneKey(stock[e], p) <=> stock[e] = p
    BY <2>1, ImportParts DEF OneKey
  <2>5. stock[e] = p <=> e = c
    BY <1>2 DEF Ordering
  <2> QED
    BY <2>2, <2>3, <2>4, <2>5
<1>5. CardFor(r) = {c}
  BY <1>4, <1>2 DEF CardFor
<1>6. Min({c}) = c
  BY <1>3, LeastOf
<1> QED
  BY <1>1, <1>2, <1>3, <1>5, <1>6

LEMMA ProbesPass ==
  ASSUME PilotInv, step = "linking"
  PROVE  /\ LeadingImport # {}
         /\ \A r \in LeadingImport : Cardinality(Found(Line(r).serial)) = 1
<1>1. Ordering(Imports, stock) /\ Fits(step, chosen)
  BY DEF PilotInv, BuiltSoFar
<1>2. {r \in Imports : Line(r).serial \in ZeroFirst} # {}
  BY <1>1, ImportParts DEF Fits, ZeroTaken, Accepted
<1>3. LeadingImport # {}
  BY <1>2, ImportParts, SomeFirst DEF LeadingImport
<1>4. ASSUME NEW r \in LeadingImport PROVE Cardinality(Found(Line(r).serial)) = 1
  <2>1. r \in Imports
    BY FirstOf DEF LeadingImport
  <2>2. PICK c \in DOMAIN stock : stock[c] = r
    BY <1>1, <2>1 DEF Ordering
  <2>3. \A e \in DOMAIN stock : stock[e] \in Imports /\ (stock[e] = r => e = c)
    BY <1>1, <2>2 DEF Ordering
  <2>4. Found(Line(r).serial) = {c}
    BY <2>1, <2>2, <2>3, ImportParts DEF Found
  <2> QED
    BY <2>4, FS_Singleton
<1> QED
  BY <1>3, <1>4

LEMMA LinkKeeps ==
  ASSUME PilotInv, LinkRows
  PROVE  PilotInv'
<1>1. /\ step = "linking" /\ sheet' = sheet /\ chosen' = chosen /\ stock' = stock
      /\ Ordering(Imports, stock) /\ audits = CardAudits
  BY DEF LinkRows, PilotInv, BuiltSoFar
<1>2. \A r \in ToLink : CardFor(r) # {}
  BY <1>1, OneCard
<1>3. /\ step' = "committed"
      /\ target' = [r \in AllRows |-> IF r \in ToLink THEN Min(CardFor(r)) ELSE NoRow]
      /\ isolated' = ToIsolate
      /\ audits' = [d \in DOMAIN audits |->
           CASE d = "LINKED" -> audits[d] + Cardinality(ToLink \ Imports)
             [] d \in LinkedDecisions \ {"IMPORT"} -> audits[d] + Count(d)
             [] d = "QUARANTINE" -> audits[d] + Cardinality(ToIsolate)
             [] OTHER -> audits[d]]
      /\ stamp' = [taken |-> Cardinality(Taken), cards |-> Count("IMPORT"),
                   isolated |-> Cardinality(ToIsolate),
                   counts |-> [d \in Decisions |-> Count(d)]]
  BY <1>1, <1>2, ProbesPass DEF LinkRows
<1>4. /\ Imports' = Imports /\ Taken' = Taken /\ ToLink' = ToLink /\ ToIsolate' = ToIsolate
      /\ AllRows' = AllRows /\ \A d : (Count(d))' = Count(d)
      /\ Distributed' = Distributed /\ (Sound(chosen) => Sound(chosen)')
  BY <1>1, SelectionStays
<1>5. IsFiniteSet(ToIsolate) /\ \A d : Count(d) \in Nat
  <2>1. IsFiniteSet(ToIsolate)
    BY ImportParts, FS_Subset DEF ToIsolate
  <2>2. ASSUME NEW d PROVE Count(d) \in Nat
    BY ImportParts, FS_Subset, FS_CardinalityType DEF Count
  <2> QED
    BY <2>1, <2>2
<1>6. Cardinality(ToIsolate) \in Nat
  BY <1>5, FS_CardinalityType
<1>7. /\ audits'["IMPORT"] = Cardinality(Imports)
      /\ audits'["LINKED"] = Cardinality(Imports) + Cardinality(ToLink \ Imports)
      /\ \A d \in Repeated : audits'[d] = Count(d)
      /\ audits'["QUARANTINE"] = Cardinality(ToIsolate)
  <2>1. DOMAIN audits = Decisions \cup {"LINKED"}
    BY <1>1 DEF CardAudits
  <2>2. /\ audits["IMPORT"] = Cardinality(Imports) /\ audits["LINKED"] = Cardinality(Imports)
        /\ audits["QUARANTINE"] = 0 /\ \A d \in Repeated : audits[d] = 0
    BY <1>1 DEF CardAudits, Decisions, Repeated
  <2>3. /\ audits'["IMPORT"] = audits["IMPORT"]
        /\ audits'["LINKED"] = audits["LINKED"] + Cardinality(ToLink \ Imports)
        /\ audits'["QUARANTINE"] = audits["QUARANTINE"] + Cardinality(ToIsolate)
        /\ \A d \in Repeated : audits'[d] = audits[d] + Count(d)
    BY <1>3, <2>1 DEF Decisions, LinkedDecisions, Repeated
  <2> QED
    BY <1>5, <1>6, <2>2, <2>3
<1>8. target' = [r \in AllRows' |-> IF r \in ToLink' THEN Min((CardFor(r))') ELSE NoRow]
  <2>1. \A r : (CardFor(r))' = CardFor(r)
    BY <1>1 DEF CardFor, Line
  <2> QED
    BY <1>3, <1>4, <2>1
<1>9. LinkedUp'
  BY <1>3, <1>4, <1>7, <1>8 DEF LinkedUp
<1>10. (Ordering(Imports, stock))'
  BY <1>1, <1>4 DEF Ordering
<1>11. BuiltSoFar'
  BY <1>3, <1>9, <1>10 DEF BuiltSoFar, Selecting
<1>12. Fits(step, chosen)'
  BY <1>1, <1>3, FitsKept DEF PilotInv, ZeroTaken, Accepted
<1>13. Distributed' /\ Sound(chosen)'
  BY <1>1, <1>4 DEF PilotInv, Accepted
<1> QED
  BY <1>1, <1>3, <1>11, <1>12, <1>13 DEF PilotInv, Accepted

-----------------------------------------------------------------------------
(* The pilot: its validation. *)

LEMMA DisjointCount ==
  ASSUME NEW S, NEW T, IsFiniteSet(S), IsFiniteSet(T), S \cap T = {}
  PROVE  Cardinality(S \cup T) = Cardinality(S) + Cardinality(T)
<1>1. Cardinality(S \cup T) = Cardinality(S) + Cardinality(T) - Cardinality(S \cap T)
  BY FS_Union
<1>2. Cardinality(S \cap T) = 0
  BY FS_EmptySet
<1>3. Cardinality(S) \in Nat /\ Cardinality(T) \in Nat
  BY FS_CardinalityType
<1> QED
  BY <1>1, <1>2, <1>3

\* The numbers of the decisions are those of the sets they make.
LEMMA CountsOfSets ==
  ASSUME PilotInv
  PROVE  /\ Count("IMPORT") = Cardinality(Imports)
         /\ Cardinality(ToLink \ Imports) = Count("EXACT_DUPLICATE") + Count("CONFLICT_HISTORY_ONLY")
         /\ Cardinality(Taken) =
              Cardinality(Imports) + Cardinality(ToLink \ Imports) + Cardinality(ToIsolate)
         /\ \A d : Count(d) \in Nat
         /\ {Cardinality(Imports), Cardinality(ToLink \ Imports), Cardinality(ToIsolate),
             Cardinality(Taken)} \in SUBSET Nat
<1> DEFINE of(d) == {r \in AllRows : chosen[r] = d}
           exact == of("EXACT_DUPLICATE")
           history == of("CONFLICT_HISTORY_ONLY")
<1>1. IsFiniteSet(AllRows) /\ Taken \in SUBSET AllRows /\ ToLink \in SUBSET Taken
      /\ Imports \in SUBSET ToLink
  BY ImportParts
<1>2. Count("IMPORT") = Cardinality(Imports)
  BY DEF Count, Imports
<1>3. \A d : Count(d) = Cardinality(of(d)) /\ IsFiniteSet(of(d)) /\ Count(d) \in Nat
  BY <1>1, FS_Subset, FS_CardinalityType DEF Count
<1>4. exact \cap history = {}
  OBVIOUS
<1>5. ToLink \ Imports = exact \cup history
  BY NoRowIsNone DEF ToLink, Taken, Imports, LinkedDecisions, Decisions
<1>6. Cardinality(exact \cup history) = Cardinality(exact) + Cardinality(history)
  BY <1>3, <1>4, DisjointCount
<1>7. Cardinality(ToLink \ Imports) = Count("EXACT_DUPLICATE") + Count("CONFLICT_HISTORY_ONLY")
  BY <1>3, <1>5, <1>6
<1>8. /\ IsFiniteSet(Taken) /\ IsFiniteSet(ToLink) /\ IsFiniteSet(Imports)
      /\ IsFiniteSet(ToLink \ Imports) /\ IsFiniteSet(ToIsolate)
  BY <1>1, FS_Subset DEF ToIsolate
<1>9. /\ ToLink = Imports \cup (ToLink \ Imports) /\ Imports \cap (ToLink \ Imports) = {}
      /\ Taken = ToLink \cup ToIsolate /\ ToLink \cap ToIsolate = {}
  BY <1>1 DEF ToIsolate
<1>10. Cardinality(ToLink) = Cardinality(Imports) + Cardinality(ToLink \ Imports)
  BY <1>8, <1>9, DisjointCount
<1>11. Cardinality(Taken) = Cardinality(ToLink) + Cardinality(ToIsolate)
  BY <1>8, <1>9, DisjointCount
<1>12. {Cardinality(Imports), Cardinality(ToLink \ Imports), Cardinality(ToIsolate),
        Cardinality(Taken)} \in SUBSET Nat
  BY <1>8, FS_CardinalityType
<1> QED
  BY <1>2, <1>3, <1>7, <1>10, <1>11, <1>12

\* A pilot that was written from an accepted selection is valid, and its review starts.
LEMMA LinkedIsValid ==
  ASSUME PilotInv, LinkedUp, Distributed, Ordering(Imports, stock)
  PROVE  PilotValid /\ ReviewStarts
<1>1. /\ Cardinality(Taken) = SizeOfPilot /\ \A d \in Decisions : Count(d) = Expected[d]
  BY DEF Distributed
<1>2. [d \in Decisions |-> Count(d)] = Expected
  <2>1. DOMAIN Expected = Decisions /\ Expected = [d \in Decisions |-> Expected[d]]
    BY DEF Expected
  <2> HIDE DEF Expected
  <2> QED
    BY <1>1, <2>1
<1>3. /\ stamp.taken = Cardinality(Taken) /\ stamp.cards = Count("IMPORT")
      /\ stamp.isolated = Cardinality(ToIsolate) /\ stamp.counts = [d \in Decisions |-> Count(d)]
      /\ isolated = ToIsolate
  BY DEF LinkedUp
<1>4. Len(stock) = Cardinality(Imports)
  BY DEF Ordering
<1>5. {"IMPORT", "EXACT_DUPLICATE", "CONFLICT_HISTORY_ONLY"} \in SUBSET Decisions
  BY DEF Decisions
<1>6. CountsAgree
  BY <1>1, <1>2, <1>3, <1>4, <1>5, CountsOfSets DEF CountsAgree
<1>7. LinksSafe
  <2> SUFFICES ASSUME NEW r \in Taken
               PROVE  (target[r] # NoRow) <=> (chosen[r] \in LinkedDecisions)
    BY DEF LinksSafe
  <2>1. r \in AllRows /\ (r \in ToLink <=> chosen[r] \in LinkedDecisions)
    BY ImportParts DEF ToLink
  <2>2. target[r] = IF r \in ToLink THEN Min(CardFor(r)) ELSE NoRow
    BY <2>1 DEF LinkedUp
  <2>3. r \in ToLink => Min(CardFor(r)) \in Nat
    BY OneCard
  <2> QED
    BY <2>1, <2>2, <2>3, NoRowIsNone
<1>8. MatchesSeparate
  BY ImportParts, RowsOfSheet DEF MatchesSeparate, ToLink
<1>9. AuditsMatch
  <2>1. /\ audits["IMPORT"] = Cardinality(Imports)
        /\ audits["LINKED"] = Cardinality(Imports) + Cardinality(ToLink \ Imports)
        /\ \A d \in Repeated : audits[d] = Count(d)
        /\ audits["QUARANTINE"] = Cardinality(ToIsolate)
    BY DEF LinkedUp
  <2>2. audits["IMPORT"] = Expected["IMPORT"]
    BY <1>1, <1>5, <2>1, CountsOfSets
  <2>3. audits["LINKED"] =
          Expected["IMPORT"] + Expected["EXACT_DUPLICATE"] + Expected["CONFLICT_HISTORY_ONLY"]
    <3>1. /\ Expected["IMPORT"] = Cardinality(Imports)
          /\ Expected["EXACT_DUPLICATE"] = Count("EXACT_DUPLICATE")
          /\ Expected["CONFLICT_HISTORY_ONLY"] = Count("CONFLICT_HISTORY_ONLY")
      BY <1>1, <1>5, CountsOfSets
    <3>2. {Cardinality(Imports), Count("EXACT_DUPLICATE"), Count("CONFLICT_HISTORY_ONLY")} \in SUBSET Nat
      BY CountsOfSets
    <3> QED
      BY <2>1, <3>1, <3>2, CountsOfSets
  <2>4. \A d \in Repeated : audits[d] = Expected[d]
    BY <1>1, <1>5, <2>1 DEF Repeated
  <2>5. audits["QUARANTINE"] = SizeOfPilot - audits["LINKED"]
    BY <1>1, <2>1, CountsOfSets
  <2> QED
    BY <2>2, <2>3, <2>4, <2>5 DEF AuditsMatch, Repeated
<1>10. stamp # NoRow
  <2>1. stamp \in [taken : Nat, cards : Nat, isolated : Nat, counts : [Decisions -> Nat]]
    BY CountsOfSets DEF LinkedUp
  <2> QED
    BY <2>1, NoRowIsNone
<1>11. ReviewStarts
  BY <1>3, <1>4, <1>10, CountsOfSets DEF ReviewStarts
<1> QED
  BY <1>6, <1>7, <1>8, <1>9, <1>11 DEF PilotValid

LEMMA ValidateKeeps ==
  ASSUME PilotInv, Validate
  PROVE  PilotInv'
<1>1. /\ step = "committed" /\ UNCHANGED <<sheet, chosen, target, stock, isolated, audits, stamp>>
      /\ step' = IF PilotValid /\ ReviewStarts THEN "valid" ELSE "unbuildable"
  BY DEF Validate
<1>2. LinkedUp /\ Distributed /\ Ordering(Imports, stock)
  BY <1>1 DEF PilotInv, BuiltSoFar, Accepted
<1>3. step' = "valid"
  BY <1>1, <1>2, LinkedIsValid
<1>4. /\ Imports' = Imports /\ Taken' = Taken /\ ToLink' = ToLink /\ ToIsolate' = ToIsolate
      /\ AllRows' = AllRows /\ \A d : (Count(d))' = Count(d)
      /\ Distributed' = Distributed /\ (Sound(chosen) => Sound(chosen)')
  BY <1>1, SelectionStays
<1>5. \A r : (CardFor(r))' = CardFor(r)
  BY <1>1 DEF CardFor, Line
<1>6. LinkedUp'
  BY <1>1, <1>2, <1>4, <1>5 DEF LinkedUp
<1>7. (Ordering(Imports, stock))'
  BY <1>1, <1>2, <1>4 DEF Ordering
<1>8. BuiltSoFar'
  BY <1>3, <1>6, <1>7 DEF BuiltSoFar, Selecting
<1>9. Fits(step, chosen)'
  BY <1>1, <1>3, FitsKept DEF PilotInv, ZeroTaken, Accepted
<1> QED
  BY <1>1, <1>2, <1>3, <1>4, <1>8, <1>9 DEF PilotInv, Accepted

LEMMA PilotStays ==
  ASSUME PilotInv, UNCHANGED pilotVars
  PROVE  PilotInv'
<1>1. UNCHANGED <<sheet, step, chosen, target, stock, isolated, audits, stamp>>
  BY DEF pilotVars
<1>2. /\ Imports' = Imports /\ Taken' = Taken /\ ToLink' = ToLink /\ ToIsolate' = ToIsolate
      /\ AllRows' = AllRows /\ \A d : (Count(d))' = Count(d)
      /\ Distributed' = Distributed /\ (Sound(chosen) => Sound(chosen)')
  BY <1>1, SelectionStays
<1>3. \A r : (CardFor(r))' = CardFor(r)
  BY <1>1 DEF CardFor, Line
<1>4. LinkedUp' = LinkedUp
  BY <1>1, <1>2, <1>3 DEF LinkedUp
<1>5. (Ordering(Imports, stock))' = Ordering(Imports, stock)
  BY <1>1, <1>2 DEF Ordering
<1>6. CardAudits' = CardAudits /\ NoAudits' = NoAudits
  BY <1>2 DEF CardAudits, NoAudits
<1>7. BuiltSoFar'
  BY <1>1, <1>4, <1>5, <1>6 DEF PilotInv, BuiltSoFar
<1>8. Fits(step, chosen)'
  BY <1>1, FitsStays DEF PilotInv
<1> QED
  BY <1>1, <1>2, <1>7, <1>8 DEF PilotInv

LEMMA PilotStarts ==
  ASSUME InitPilot
  PROVE  PilotInv
<1>1. /\ sheet \in Sheets200 /\ step = "groups" /\ chosen = [r \in AllRows |-> NoRow]
      /\ audits = NoAudits
  BY DEF InitPilot, NoAudits
<1>2. ImportsOf(chosen) = {}
  BY <1>1, NoRowIsNone DEF ImportsOf, Decisions
<1>3. Sound(chosen)
  BY <1>1, <1>2, NoRowIsNone DEF Sound, Repeated, Decisions
<1>4. Fits(step, chosen)
  BY <1>1, <1>2 DEF Fits, ZeroTaken, Accepted
<1> QED
  BY <1>1, <1>3, <1>4 DEF PilotInv, BuiltSoFar, Selecting, Accepted

-----------------------------------------------------------------------------
(* The pilot: what its review shows. *)

LEMMA ShownIsBuilt ==
  ASSUME PilotInv, step = "valid"
  PROVE  PilotIsShown
<1>1. LinkedUp /\ Ordering(Imports, stock) /\ Sound(chosen)
  BY DEF PilotInv, BuiltSoFar
<1>2. ASSUME NEW r \in Taken
      PROVE  /\ r \in AllRows /\ (r \in ToLink <=> chosen[r] \in LinkedDecisions)
             /\ target[r] = (IF r \in ToLink THEN Min(CardFor(r)) ELSE NoRow)
             /\ chosen[r] \in Decisions
  BY <1>1, ImportParts DEF ToLink, LinkedUp, Sound, Taken
<1>3. NoRow \notin Nat /\ NoRow \notin Buckets
  BY NoRowIsNone DEF Decisions, Buckets
<1>4. \A b, c \in Buckets : b # c => list_rows(b) \cap list_rows(c) = {}
  BY <1>3 DEF list_rows
<1>5. list_rows(NoRow) \ UNION {list_rows(b) : b \in Buckets}
        = {r \in Taken : chosen[r] = "QUANTITY_POSITION_DEFERRED" /\ Line(r).status # "SOURCE_CORRUPTED"}
  <2>1. list_rows(NoRow) = Taken
    BY DEF list_rows
  <2>2. \A b \in Buckets : list_rows(b) = {r \in Taken : Bucket(r) = b}
    BY <1>3 DEF list_rows
  <2>3. \A r \in Taken : r \in UNION {list_rows(b) : b \in Buckets} <=> Bucket(r) \in Buckets
    BY <2>2
  <2>4. ASSUME NEW r \in Taken
        PROVE  Bucket(r) \notin Buckets <=>
                 chosen[r] = "QUANTITY_POSITION_DEFERRED" /\ Line(r).status # "SOURCE_CORRUPTED"
    BY <1>2 DEF Bucket, Buckets, Decisions
  <2> QED
    BY <2>1, <2>3, <2>4
<1>6. ASSUME NEW r \in ToLink
      PROVE  /\ target[r] = Min(CardFor(r)) /\ target[r] \in DOMAIN stock /\ target[r] \in Nat
             /\ stock[target[r]] \in Imports /\ OneKey(stock[target[r]], r)
             /\ CardFor(r) = {target[r]}
  <2>1. r \in Taken
    BY ImportParts
  <2>2. target[r] = Min(CardFor(r))
    BY <1>2, <2>1
  <2> QED
    BY <1>1, <2>2, OneCard
<1>7. ASSUME NEW p \in Imports
      PROVE  p \in ToLink /\ p \in Taken /\ stock[target[p]] = p
  <2>1. p \in ToLink /\ p \in Taken
    BY ImportParts
  <2> QED
    BY <2>1, <1>6, ImportParts
<1>8. ASSUME NEW r \in Taken PROVE has_card(r) <=> CardOpens(r)
  <2>1. CASE r \notin ToLink
    BY <2>1, <1>2 DEF has_card, CardOpens
  <2>2. CASE r \in ToLink
    <3>1. has_card(r)
      BY <2>2, <1>3, <1>6 DEF has_card
    <3>2. PICK p : p = stock[target[r]]
      OBVIOUS
    <3>3. p \in Imports /\ OneKey(p, r)
      BY <2>2, <3>2, <1>6
    <3>4. stock[target[p]] = p /\ p \in ToLink
      BY <3>3, <1>7
    <3>5. target[p] = target[r]
      BY <2>2, <3>2, <3>4, <1>1, <1>6 DEF Ordering
    <3>6. chosen[r] \in LinkedDecisions /\ r \in AllRows
      BY <2>2, <1>2
    <3>7. Line(r).serial # Empty
      BY <2>2, ImportParts, RowsOfSheet
    <3>8. CardOpens(r)
      BY <3>1, <3>2, <3>3, <3>5, <3>6, <3>7 DEF CardOpens, OneKey
    <3> QED
      BY <3>1, <3>8
  <2> QED
    BY <2>1, <2>2
<1>9. ASSUME NEW c \in DOMAIN stock
      PROVE  LET linked == {r \in Taken : target[r] = c}
             IN  /\ Cardinality(linked \cap list_rows("IMPORT")) = 1
                 /\ \A r \in linked : linked \subseteq SourceRows(r)
  <2> DEFINE linked == {r \in Taken : target[r] = c}
  <2>1. c \in Nat
    BY <1>1 DEF Ordering
  <2>2. \A r \in linked : r \in ToLink
    BY <2>1, <1>2, <1>3
  <2>3. PICK p : p = stock[c] /\ p \in Imports
    BY <1>1 DEF Ordering
  <2>4. \A r \in linked : OneKey(p, r)
    BY <2>2, <2>3, <1>6
  <2>5. \A r \in Taken : r \in list_rows("IMPORT") <=> r \in Imports
    <3> SUFFICES ASSUME NEW r \in Taken PROVE r \in list_rows("IMPORT") <=> r \in Imports
      OBVIOUS
    <3>1. r \in list_rows("IMPORT") <=> Bucket(r) = "IMPORT"
      BY <1>3 DEF list_rows, Buckets
    <3>2. Bucket(r) = "IMPORT" <=> chosen[r] = "IMPORT"
      BY <1>2 DEF Bucket, Decisions
    <3> QED
      BY <3>1, <3>2, <1>2 DEF Imports
  <2>6. p \in linked
    BY <2>3, <1>1, <1>6, <1>7 DEF Ordering
  <2>7. linked \cap list_rows("IMPORT") = {p}
    <3>1. ASSUME NEW r \in linked \cap list_rows("IMPORT") PROVE r = p
      <4>1. r \in Imports /\ OneKey(p, r)
        BY <2>4, <2>5, <3>1
      <4> QED
        BY <4>1, <2>3, ImportParts
    <3>2. p \in list_rows("IMPORT")
      BY <2>3, <2>5, <2>6
    <3> HIDE DEF linked
    <3> QED
      BY <2>6, <3>1, <3>2
  <2>8. Cardinality(linked \cap list_rows("IMPORT")) = 1
    BY <2>7, FS_Singleton
  <2>9. ASSUME NEW r \in linked PROVE linked \subseteq SourceRows(r)
    BY <2>4, <2>9 DEF SourceRows, OneKey
  <2> QED
    BY <2>8, <2>9
<1> QED
  BY <1>4, <1>5, <1>8, <1>9 DEF PilotIsShown

\* Whatever the rows and the order of their hashes, a selection that is accepted can be
\* built and passes both validations, and its review shows what was built (_select,
\* _create_pilot_file, validate_pilot_database).
THEOREM PilotIsBuilt == InitPilot /\ [][NextPilot]_pilotVars => []SelectedIsBuilt
<1>1. InitPilot => PilotInv
  BY PilotStarts
<1>2. PilotInv /\ [NextPilot]_pilotVars => PilotInv'
  <2> SUFFICES ASSUME PilotInv, [NextPilot]_pilotVars PROVE PilotInv'
    OBVIOUS
  <2>1. CASE TakeDamaged
    BY <2>1, DamagedKeeps
  <2>2. CASE TakeConflicts
    BY <2>2, ConflictsKeep
  <2>3. CASE TakeExact
    BY <2>3, ExactKeep
  <2>4. CASE TakeHistory
    BY <2>4, HistoryKeep
  <2>5. CASE TakeUnknown
    BY <2>5, UnknownKeep
  <2>6. CASE TakeVendors
    BY <2>6, VendorsKeep
  <2>7. ASSUME NEW i \in 1 .. 4, Fulfill(i) PROVE PilotInv'
    BY <2>7, QuotaKeeps
  <2>8. CASE Fill
    BY <2>8, FillKeeps
  <2>9. CASE Accept
    BY <2>9, AcceptKeeps
  <2>10. CASE WriteCards
    BY <2>10, WriteKeeps
  <2>11. CASE LinkRows
    BY <2>11, LinkKeeps
  <2>12. CASE Validate
    BY <2>12, ValidateKeeps
  <2>13. CASE UNCHANGED pilotVars
    BY <2>13, PilotStays
  <2> QED
    BY <2>1, <2>2, <2>3, <2>4, <2>5, <2>6, <2>7, <2>8, <2>9, <2>10, <2>11, <2>12, <2>13 DEF NextPilot
<1>3. PilotInv => SelectedIsBuilt
  BY ShownIsBuilt DEF SelectedIsBuilt, PilotInv, Selecting, Accepted
<1> QED
  BY <1>1, <1>2, <1>3, PTL
=============================================================================
