---------------------------- MODULE GatheredProofs ----------------------------
(***************************************************************************)
(* Proofs about the parsers that gather turns, for files of any length.    *)
(***************************************************************************)
EXTENDS GatheredTurns, TLAPS

(* No chunks yet are a sequence of chunks.                                 *)
LEMMA EmptyIsSequence == ASSUME NEW S PROVE << >> \in Seq(S)
  OBVIOUS

-----------------------------------------------------------------------------
(* The parsers that gather turns.  What Chunks returns is a book: pages    *)
(* that are closed, and the turn that is open.  es are the entries read,   *)
(* f is the format, ch the closed chunks, p the user's entry of the open   *)
(* turn (0 for none), o its texts and c its file operations.               *)

Contains(t, i) == \E m \in 1 .. Len(t) : t[m] = i

Says(es, i) == es[i].kind # "context" /\ ~es[i].blank

OpensIn(es, f, i) == es[i].kind = "user" /\ (es[i].blank => f = "gemini")

(* Entry i answers the user's entry a.                                     *)
AnswersTo(es, f, a, i) ==
    /\ i \in (a + 1) .. Len(es) /\ es[i].kind = "answer" /\ ~es[i].blank
    /\ \A j \in (a + 1) .. i : ~OpensIn(es, f, j)

IsTexts(t) == t \in Seq(Nat)

(* Texts t, dated by entry a, with the changes c, are as they should be:   *)
(* in order, with the changes of exactly these texts, and, for a turn,     *)
(* with all the answers to its user's entry and nothing else.              *)
Made(es, f, t, a, c) ==
    /\ IsTexts(t) /\ IsTexts(c) /\ a \in 1 .. Len(es) /\ Ordered(t)
    /\ \A m \in 1 .. Len(t) : t[m] \in 1 .. Len(es)
    /\ \A m \in 1 .. Len(c) : c[m] \in 1 .. Len(es)
    /\ \A i \in 1 .. Len(es) : es[i].writes => (Contains(c, i) <=> Contains(t, i))
    /\ OpensIn(es, f, a) => \A i \in 1 .. Len(es) : Contains(t, i) <=> i = a \/ AnswersTo(es, f, a, i)

ClosedMade(es, f, ch, p) ==
    \A k \in 1 .. Len(ch) :
        /\ Made(es, f, ch[k].texts, ch[k].at, ch[k].changes)
        /\ OpensIn(es, f, ch[k].at) => ch[k].at < p

OpenMade(es, f, p, o, c) == p # 0 => OpensIn(es, f, p) /\ Made(es, f, o, p, c)

LastOpener(es, f, p) == \A j \in 1 .. Len(es) : OpensIn(es, f, j) => j <= p

Apart(es, ch, p, o) ==
    \A i \in 1 .. Len(es), k \in 1 .. Len(ch) : Contains(ch[k].texts, i) =>
        /\ \A l \in 1 .. Len(ch) : Contains(ch[l].texts, i) => k = l
        /\ p # 0 => ~Contains(o, i)

AllHeld(es, ch, p, o) ==
    \A i \in 1 .. Len(es) : Says(es, i) =>
        (\E k \in 1 .. Len(ch) : Contains(ch[k].texts, i)) \/ (p # 0 /\ Contains(o, i))

Book(es, f, ch, p, o, c) ==
    /\ p \in 0 .. Len(es) /\ ClosedMade(es, f, ch, p) /\ OpenMade(es, f, p, o, c)
    /\ LastOpener(es, f, p) /\ Apart(es, ch, p, o) /\ AllHeld(es, ch, p, o)

-----------------------------------------------------------------------------
(* g is es with one entry more, e.                                         *)
Longer(es, e, f, g) ==
    /\ Len(es) \in Nat /\ Len(g) = Len(es) + 1 /\ g[Len(es) + 1] = e
    /\ \A i \in 1 .. Len(es) : /\ g[i] = es[i]
                               /\ Says(g, i) <=> Says(es, i)
                               /\ OpensIn(g, f, i) <=> OpensIn(es, f, i)

LEMMA LongerFile ==
    ASSUME NEW es \in Seq(GatheredEntry), NEW e \in GatheredEntry, NEW f, NEW g, g = Append(es, e)
    PROVE  Longer(es, e, f, g)
<1>1. /\ Len(es) \in Nat /\ Len(g) = Len(es) + 1 /\ g[Len(es) + 1] = e
      /\ \A i \in 1 .. Len(es) : g[i] = es[i]
  OBVIOUS
<1> QED BY <1>1 DEF Longer, Says, OpensIn

LEMMA SameAnswers ==
    ASSUME NEW es, NEW e, NEW f, NEW g, Longer(es, e, f, g),
           NEW a \in 1 .. Len(es), NEW i \in 1 .. Len(es)
    PROVE  AnswersTo(g, f, a, i) <=> AnswersTo(es, f, a, i)
<1>1. /\ Len(es) \in Nat /\ Len(g) = Len(es) + 1 /\ g[i] = es[i]
      /\ \A j \in 1 .. Len(es) : OpensIn(g, f, j) <=> OpensIn(es, f, j)
  BY DEF Longer
<1>2. \A j \in (a + 1) .. i : OpensIn(g, f, j) <=> OpensIn(es, f, j)
  BY <1>1
<1> QED BY <1>1, <1>2 DEF AnswersTo

LEMMA NotBeyond ==
    ASSUME NEW t, NEW n \in Nat, \A m \in 1 .. Len(t) : t[m] \in 1 .. n
    PROVE  ~Contains(t, n + 1)
BY DEF Contains

(* A chunk stays as it should be while the file grows, unless the next     *)
(* entry answers it.                                                       *)
LEMMA MadeGrows ==
    ASSUME NEW es, NEW e, NEW f, NEW g, Longer(es, e, f, g),
           NEW t, NEW a, NEW c, Made(es, f, t, a, c),
           OpensIn(es, f, a) => ~AnswersTo(g, f, a, Len(es) + 1)
    PROVE  Made(g, f, t, a, c)
<1> DEFINE n == Len(es)
<1>1. /\ n \in Nat /\ Len(g) = n + 1 /\ g[n + 1] = e
      /\ \A i \in 1 .. n : g[i] = es[i] /\ (OpensIn(g, f, i) <=> OpensIn(es, f, i))
  BY DEF Longer
<1>2. /\ IsTexts(t) /\ IsTexts(c) /\ a \in 1 .. n /\ Ordered(t)
      /\ \A m \in 1 .. Len(t) : t[m] \in 1 .. n
      /\ \A m \in 1 .. Len(c) : c[m] \in 1 .. n
      /\ \A i \in 1 .. n : es[i].writes => (Contains(c, i) <=> Contains(t, i))
      /\ OpensIn(es, f, a) => \A i \in 1 .. n : Contains(t, i) <=> i = a \/ AnswersTo(es, f, a, i)
  BY DEF Made
<1>3. ~Contains(t, n + 1) /\ ~Contains(c, n + 1)
  BY <1>1, <1>2, NotBeyond
<1> HIDE DEF n
<1>4. \A i \in 1 .. n : AnswersTo(g, f, a, i) <=> AnswersTo(es, f, a, i)
  BY <1>2, SameAnswers DEF n
<1>5. 1 .. (n + 1) = (1 .. n) \cup {n + 1}
  BY <1>1
<1>6. \A i \in 1 .. (n + 1) : g[i].writes => (Contains(c, i) <=> Contains(t, i))
  BY <1>1, <1>2, <1>3, <1>5
<1>7. OpensIn(g, f, a) => \A i \in 1 .. (n + 1) : Contains(t, i) <=> i = a \/ AnswersTo(g, f, a, i)
  <2> SUFFICES ASSUME OpensIn(g, f, a), NEW i \in 1 .. (n + 1)
               PROVE  Contains(t, i) <=> i = a \/ AnswersTo(g, f, a, i)
    OBVIOUS
  <2>1. CASE i \in 1 .. n
    BY <1>1, <1>2, <1>4, <2>1
  <2>2. CASE i = n + 1
    BY <1>1, <1>2, <1>3, <2>2 DEF n
  <2> QED BY <1>5, <2>1, <2>2
<1>8. /\ a \in 1 .. (n + 1)
      /\ \A m \in 1 .. Len(t) : t[m] \in 1 .. (n + 1)
      /\ \A m \in 1 .. Len(c) : c[m] \in 1 .. (n + 1)
  BY <1>2, <1>5
<1> QED BY <1>1, <1>2, <1>6, <1>7, <1>8 DEF Made

(* u is s with one element more, x.                                        *)
Added(s, x, u) ==
    /\ Len(s) \in Nat /\ Len(u) = Len(s) + 1 /\ u[Len(s) + 1] = x
    /\ \A k \in 1 .. Len(s) : u[k] = s[k] /\ k \in 1 .. Len(u)
    /\ \A k \in 1 .. Len(u) : k \in 1 .. Len(s) \/ k = Len(s) + 1
    /\ Len(s) + 1 \in 1 .. Len(u)

LEMMA AppendAdds ==
    ASSUME NEW S, NEW s \in Seq(S), NEW x \in S
    PROVE  Append(s, x) \in Seq(S) /\ Added(s, x, Append(s, x))
<1> DEFINE u == Append(s, x)
<1>1. /\ u \in Seq(S) /\ Len(s) \in Nat /\ Len(u) = Len(s) + 1 /\ u[Len(s) + 1] = x
      /\ \A k \in 1 .. Len(s) : u[k] = s[k]
  OBVIOUS
<1> HIDE DEF u
<1>2. Added(s, x, u)
  BY <1>1 DEF Added
<1> QED BY <1>1, <1>2 DEF u

LEMMA OneMore ==
    ASSUME NEW t, NEW x, NEW u, Added(t, x, u), NEW i
    PROVE  Contains(u, i) <=> Contains(t, i) \/ i = x
BY DEF Added, Contains

LEMMA OrderedMore ==
    ASSUME NEW t, NEW x, NEW u, Added(t, x, u), Ordered(t), \A m \in 1 .. Len(t) : t[m] < x
    PROVE  Ordered(u)
<1>1. /\ Len(t) \in Nat /\ Len(u) = Len(t) + 1 /\ u[Len(t) + 1] = x
      /\ \A m \in 1 .. Len(t) : u[m] = t[m]
  BY DEF Added
<1>2. SUFFICES ASSUME NEW i \in 1 .. Len(u), NEW j \in 1 .. Len(u), i < j PROVE u[i] < u[j]
  BY DEF Ordered
<1>3. i \in 1 .. Len(t)
  BY <1>1, <1>2
<1>4. CASE j = Len(t) + 1
  BY <1>1, <1>3, <1>4
<1>5. CASE j # Len(t) + 1
  <2>1. j \in 1 .. Len(t)
    BY <1>1, <1>5
  <2> QED BY <1>1, <1>2, <1>3, <2>1 DEF Ordered
<1> QED BY <1>4, <1>5

(* Texts of one entry, and of none.                                        *)
Single(t, x) == IsTexts(t) /\ Len(t) = 1 /\ t[1] = x

Empty(t) == IsTexts(t) /\ Len(t) = 0

LEMMA OneText ==
    ASSUME NEW x \in Nat
    PROVE  <<x>> \in Seq(Nat) /\ Single(<<x>>, x) /\ << >> \in Seq(Nat) /\ Empty(<< >>)
<1>1. <<x>> \in Seq(Nat) /\ Len(<<x>>) = 1 /\ <<x>>[1] = x
  OBVIOUS
<1>2. << >> \in Seq(Nat) /\ Len(<< >>) = 0
  OBVIOUS
<1> QED BY <1>1, <1>2 DEF Single, Empty, IsTexts

LEMMA SingleHolds ==
    ASSUME NEW x, NEW t, Single(t, x)
    PROVE  Ordered(t) /\ \A i : Contains(t, i) <=> i = x
BY DEF Single, Ordered, Contains

LEMMA EmptyHolds ==
    ASSUME NEW t, Empty(t), NEW i
    PROVE  ~Contains(t, i)
BY DEF Empty, Contains

LEMMA WithinMore ==
    ASSUME NEW t, NEW n \in Nat, NEW u, Added(t, n + 1, u), \A m \in 1 .. Len(t) : t[m] \in 1 .. n
    PROVE  \A m \in 1 .. Len(u) : u[m] \in 1 .. (n + 1)
<1> SUFFICES ASSUME NEW m \in 1 .. Len(u) PROVE u[m] \in 1 .. (n + 1)
  OBVIOUS
<1>1. CASE m \in 1 .. Len(t)
  <2>1. u[m] \in 1 .. n
    BY <1>1 DEF Added
  <2> QED BY <2>1
<1>2. CASE m = Len(t) + 1
  BY <1>2 DEF Added
<1> QED BY <1>1, <1>2 DEF Added

(* A chunk of one entry has only that one; nothing comes after the last    *)
(* entry.                                                                  *)
LEMMA AloneOrdered ==
    ASSUME NEW g, NEW f, NEW h \in Nat, h > 0, Len(g) = h,
           NEW t, IsTexts(t), Ordered(t), \A i : Contains(t, i) <=> i = h,
           \A m \in 1 .. Len(t) : t[m] \in 1 .. h,
           NEW c, IsTexts(c), \A m \in 1 .. Len(c) : c[m] \in 1 .. h,
           \A i \in 1 .. h : g[i].writes => (Contains(c, i) <=> Contains(t, i))
    PROVE  Made(g, f, t, h, c)
<1>1. ASSUME NEW i \in 1 .. h PROVE ~AnswersTo(g, f, h, i)
  BY DEF AnswersTo
<1>2. h \in 1 .. h
  OBVIOUS
<1> QED BY <1>1, <1>2 DEF Made

LEMMA MadeAlone ==
    ASSUME NEW es, NEW e, NEW f, NEW g, Longer(es, e, f, g), NEW h, h = Len(es) + 1,
           NEW t, Single(t, h), NEW c, e.writes => Single(c, h), ~e.writes => Empty(c)
    PROVE  Made(g, f, t, h, c)
<1>1. h \in Nat /\ Len(g) = h /\ g[h] = e /\ h > 0
  BY DEF Longer
<1>2. Ordered(t) /\ \A i : Contains(t, i) <=> i = h
  BY SingleHolds
<1>3. IsTexts(t) /\ \A m \in 1 .. Len(t) : t[m] \in 1 .. h
  BY <1>1 DEF Single
<1>4. CASE e.writes
  <2>0. Single(c, h)
    BY <1>4
  <2>1. \A i : Contains(c, i) <=> i = h
    BY <2>0, SingleHolds
  <2>2. IsTexts(c) /\ \A m \in 1 .. Len(c) : c[m] \in 1 .. h
    BY <1>1, <2>0 DEF Single
  <2>3. \A i \in 1 .. h : g[i].writes => (Contains(c, i) <=> Contains(t, i))
    BY <1>2, <2>1
  <2> QED BY <1>1, <1>2, <1>3, <2>2, <2>3, AloneOrdered
<1>5. CASE ~e.writes
  <2>1. \A i : ~Contains(c, i)
    BY <1>5, EmptyHolds
  <2>2. IsTexts(c) /\ \A m \in 1 .. Len(c) : c[m] \in 1 .. h
    BY <1>5 DEF Empty
  <2>3. \A i \in 1 .. h : g[i].writes => (Contains(c, i) <=> Contains(t, i))
    BY <1>1, <1>2, <1>5, <2>1
  <2> QED BY <1>1, <1>2, <1>3, <2>2, <2>3, AloneOrdered
<1> QED BY <1>4, <1>5

(* The open turn with one answer more.                                     *)
LEMMA MadeGathers ==
    ASSUME NEW es, NEW e, NEW f, NEW g, Longer(es, e, f, g), NEW h, h = Len(es) + 1,
           e.kind = "answer", ~e.blank,
           NEW p \in 1 .. Len(es), NEW o, NEW c, Made(es, f, o, p, c), OpensIn(es, f, p),
           LastOpener(es, f, p), NEW t, IsTexts(t), Added(o, h, t),
           NEW d, IsTexts(d), e.writes => Added(c, h, d), ~e.writes => d = c
    PROVE  Made(g, f, t, p, d)
<1> DEFINE n == Len(es)
<1>1. /\ n \in Nat /\ h = n + 1 /\ h \in Nat /\ Len(g) = h /\ g[h] = e
      /\ \A i \in 1 .. n : g[i] = es[i] /\ (OpensIn(g, f, i) <=> OpensIn(es, f, i))
  BY DEF Longer
<1>2. /\ Ordered(o)
      /\ \A m \in 1 .. Len(o) : o[m] \in 1 .. n
      /\ \A m \in 1 .. Len(c) : c[m] \in 1 .. n
      /\ \A i \in 1 .. n : es[i].writes => (Contains(c, i) <=> Contains(o, i))
      /\ \A i \in 1 .. n : Contains(o, i) <=> i = p \/ AnswersTo(es, f, p, i)
  BY DEF Made
<1>3. \A i : Contains(t, i) <=> Contains(o, i) \/ i = h
  BY OneMore
<1>4. \A i : Contains(d, i) <=> Contains(c, i) \/ (e.writes /\ i = h)
  <2>1. CASE ~e.writes
    BY <2>1
  <2>2. CASE e.writes
    BY <2>2, OneMore
  <2> QED BY <2>1, <2>2
<1>5. AnswersTo(g, f, p, h)
  <2>1. \A j \in (p + 1) .. n : ~OpensIn(g, f, j)
    BY <1>1 DEF LastOpener
  <2>2. ~OpensIn(g, f, h)
    BY <1>1 DEF OpensIn
  <2>3. \A j \in (p + 1) .. h : ~OpensIn(g, f, j)
    BY <1>1, <2>1, <2>2
  <2> QED BY <1>1, <2>3 DEF AnswersTo
<1>6. \A i \in 1 .. n : AnswersTo(g, f, p, i) <=> AnswersTo(es, f, p, i)
  BY SameAnswers
<1>7. ~Contains(o, h) /\ ~Contains(c, h)
  BY <1>1, <1>2, NotBeyond
<1> HIDE DEF n
<1>8. Ordered(t) /\ \A m \in 1 .. Len(t) : t[m] \in 1 .. h
  <2>1. \A m \in 1 .. Len(o) : o[m] < h
    BY <1>1, <1>2
  <2> QED BY <1>1, <1>2, <2>1, OrderedMore, WithinMore, Zenon
<1>9. \A m \in 1 .. Len(d) : d[m] \in 1 .. h
  <2>1. CASE ~e.writes
    BY <1>1, <1>2, <2>1
  <2>2. CASE e.writes
    BY <1>1, <1>2, <2>2, WithinMore, Zenon
  <2> QED BY <2>1, <2>2
<1>10. \A i \in 1 .. h : i \in 1 .. n \/ i = h
  BY <1>1
<1>11. ASSUME NEW i \in 1 .. h, g[i].writes PROVE Contains(d, i) <=> Contains(t, i)
  <2>1. CASE i = h
    BY <1>1, <1>3, <1>4, <1>11, <2>1
  <2>2. CASE i # h
    BY <1>1, <1>2, <1>3, <1>4, <1>10, <1>11, <2>2
  <2> QED BY <2>1, <2>2
<1>12. ASSUME NEW i \in 1 .. h PROVE Contains(t, i) <=> i = p \/ AnswersTo(g, f, p, i)
  <2>1. CASE i = h
    BY <1>3, <1>5, <2>1
  <2>2. CASE i # h
    <3>1. i \in 1 .. n
      BY <1>10, <2>2
    <3>2. Contains(o, i) <=> i = p \/ AnswersTo(g, f, p, i)
      BY <1>2, <1>6, <3>1
    <3> QED BY <1>3, <2>2, <3>2
  <2> QED BY <2>1, <2>2
<1>13. p \in 1 .. h
  BY <1>1 DEF n
<1> QED BY <1>1, <1>8, <1>9, <1>11, <1>12, <1>13 DEF Made

LEMMA MadeBeyond ==
    ASSUME NEW es, Len(es) \in Nat, NEW f, NEW t, NEW a, NEW c, Made(es, f, t, a, c)
    PROVE  ~Contains(t, Len(es) + 1)
<1>1. \A m \in 1 .. Len(t) : t[m] \in 1 .. Len(es)
  BY DEF Made
<1> QED BY <1>1, NotBeyond

(* A closed turn has a later one, so that nothing is added to it.          *)
LEMMA ClosedGrows ==
    ASSUME NEW es, NEW e, NEW f, NEW g, Longer(es, e, f, g),
           NEW ch, NEW p \in 0 .. Len(g), ClosedMade(es, f, ch, p), p # 0 => OpensIn(g, f, p)
    PROVE  ClosedMade(g, f, ch, p)
<1>1. /\ Len(es) \in Nat /\ Len(g) = Len(es) + 1
      /\ \A j \in 1 .. Len(es) : OpensIn(g, f, j) <=> OpensIn(es, f, j)
  BY DEF Longer
<1> SUFFICES ASSUME NEW k \in 1 .. Len(ch)
             PROVE  /\ Made(g, f, ch[k].texts, ch[k].at, ch[k].changes)
                    /\ OpensIn(g, f, ch[k].at) => ch[k].at < p
  BY DEF ClosedMade
<1> DEFINE a == ch[k].at
<1>2. /\ Made(es, f, ch[k].texts, a, ch[k].changes)
      /\ OpensIn(es, f, a) => a < p
  BY DEF ClosedMade
<1>3. a \in 1 .. Len(es)
  BY <1>2 DEF Made
<1> HIDE DEF a
<1>4. ASSUME OpensIn(es, f, a) PROVE ~AnswersTo(g, f, a, Len(es) + 1)
  <2>1. a < p /\ OpensIn(g, f, p)
    BY <1>1, <1>2, <1>3, <1>4
  <2>2. p \in (a + 1) .. (Len(es) + 1)
    BY <1>1, <1>3, <2>1
  <2> QED BY <2>1, <2>2 DEF AnswersTo
<1>5. Made(g, f, ch[k].texts, a, ch[k].changes)
  BY <1>2, <1>4, MadeGrows
<1>6. OpensIn(g, f, a) => a < p
  BY <1>1, <1>2, <1>3
<1> QED BY <1>5, <1>6 DEF a

LEMMA OpenGrows ==
    ASSUME NEW es, NEW e, NEW f, NEW g, Longer(es, e, f, g),
           NEW p \in 0 .. Len(es), NEW o, NEW c, OpenMade(es, f, p, o, c),
           p # 0 => e.kind # "answer" \/ e.blank
    PROVE  OpenMade(g, f, p, o, c)
<1>1. /\ Len(es) \in Nat /\ g[Len(es) + 1] = e
      /\ \A j \in 1 .. Len(es) : OpensIn(g, f, j) <=> OpensIn(es, f, j)
  BY DEF Longer
<1> SUFFICES ASSUME p # 0 PROVE OpensIn(g, f, p) /\ Made(g, f, o, p, c)
  BY DEF OpenMade
<1>2. OpensIn(es, f, p) /\ Made(es, f, o, p, c)
  BY DEF OpenMade
<1>3. ~AnswersTo(g, f, p, Len(es) + 1)
  BY <1>1 DEF AnswersTo
<1>4. Made(g, f, o, p, c)
  BY <1>2, <1>3, MadeGrows
<1> QED BY <1>1, <1>2, <1>4

LEMMA ApartGrows ==
    ASSUME NEW es, NEW e, NEW f, NEW g, Longer(es, e, f, g),
           NEW ch, NEW p, NEW q, NEW o, ClosedMade(es, f, ch, q), Apart(es, ch, p, o)
    PROVE  Apart(g, ch, p, o)
<1>1. Len(es) \in Nat /\ Len(g) = Len(es) + 1
  BY DEF Longer
<1>2. ASSUME NEW k \in 1 .. Len(ch) PROVE ~Contains(ch[k].texts, Len(es) + 1)
  BY MadeBeyond DEF ClosedMade
<1>3. \A i \in 1 .. Len(g) : i \in 1 .. Len(es) \/ i = Len(es) + 1
  BY <1>1
<1> QED BY <1>2, <1>3 DEF Apart

LEMMA LastOpenerGrows ==
    ASSUME NEW es, NEW e, NEW f, NEW g, Longer(es, e, f, g),
           NEW p, LastOpener(es, f, p), ~OpensIn(g, f, Len(es) + 1)
    PROVE  LastOpener(g, f, p)
<1>1. /\ Len(es) \in Nat /\ Len(g) = Len(es) + 1
      /\ \A j \in 1 .. Len(es) : OpensIn(g, f, j) <=> OpensIn(es, f, j)
  BY DEF Longer
<1>2. \A i \in 1 .. Len(g) : i \in 1 .. Len(es) \/ i = Len(es) + 1
  BY <1>1
<1> QED BY <1>1, <1>2 DEF LastOpener

LEMMA AllHeldGrows ==
    ASSUME NEW es, NEW e, NEW f, NEW g, Longer(es, e, f, g),
           NEW ch, NEW p, NEW o, AllHeld(es, ch, p, o),
           Says(g, Len(es) + 1) => \/ \E k \in 1 .. Len(ch) : Contains(ch[k].texts, Len(es) + 1)
                                   \/ p # 0 /\ Contains(o, Len(es) + 1)
    PROVE  AllHeld(g, ch, p, o)
<1>1. /\ Len(es) \in Nat /\ Len(g) = Len(es) + 1
      /\ \A j \in 1 .. Len(es) : Says(g, j) <=> Says(es, j)
  BY DEF Longer
<1>2. \A i \in 1 .. Len(g) : i \in 1 .. Len(es) \/ i = Len(es) + 1
  BY <1>1
<1> QED BY <1>1, <1>2 DEF AllHeld

-----------------------------------------------------------------------------
(* The four things an entry does to the book.  It says nothing:            *)
LEMMA BookQuiet ==
    ASSUME NEW es, NEW e, NEW f, NEW g, Longer(es, e, f, g),
           NEW ch, NEW p, NEW o, NEW c, Book(es, f, ch, p, o, c),
           e.kind = "context" \/ e.blank, e.kind = "user" => e.blank /\ f # "gemini"
    PROVE  Book(g, f, ch, p, o, c)
<1>1. /\ p \in 0 .. Len(es) /\ ClosedMade(es, f, ch, p) /\ OpenMade(es, f, p, o, c)
      /\ LastOpener(es, f, p) /\ Apart(es, ch, p, o) /\ AllHeld(es, ch, p, o)
  BY DEF Book
<1>2. /\ Len(es) \in Nat /\ Len(g) = Len(es) + 1 /\ g[Len(es) + 1] = e
      /\ p \in 0 .. Len(g)
  BY <1>1 DEF Longer
<1>3. OpenMade(g, f, p, o, c)
  BY <1>1, OpenGrows
<1>4. ClosedMade(g, f, ch, p)
  <2>1. p # 0 => OpensIn(g, f, p)
    BY <1>3 DEF OpenMade
  <2> QED BY <1>1, <1>2, <2>1, ClosedGrows
<1>5. Apart(g, ch, p, o)
  BY <1>1, ApartGrows
<1>6. ~OpensIn(g, f, Len(es) + 1) /\ ~Says(g, Len(es) + 1)
  BY <1>2 DEF OpensIn, Says
<1>7. LastOpener(g, f, p)
  BY <1>1, <1>6, LastOpenerGrows
<1>8. AllHeld(g, ch, p, o)
  BY <1>1, <1>6, AllHeldGrows
<1> QED BY <1>2, <1>3, <1>4, <1>5, <1>7, <1>8 DEF Book

(* One more page.                                                          *)
LEMMA ClosedAdds ==
    ASSUME NEW ch, NEW x, NEW u, Added(ch, x, u), NEW es, NEW f, NEW p,
           ClosedMade(es, f, ch, p), Made(es, f, x.texts, x.at, x.changes),
           OpensIn(es, f, x.at) => x.at < p
    PROVE  ClosedMade(es, f, u, p)
<1>1. /\ u[Len(ch) + 1] = x
      /\ \A k \in 1 .. Len(ch) : u[k] = ch[k]
      /\ \A k \in 1 .. Len(u) : k \in 1 .. Len(ch) \/ k = Len(ch) + 1
  BY DEF Added
<1> SUFFICES ASSUME NEW k \in 1 .. Len(u)
             PROVE  /\ Made(es, f, u[k].texts, u[k].at, u[k].changes)
                    /\ OpensIn(es, f, u[k].at) => u[k].at < p
  BY DEF ClosedMade
<1>2. CASE k \in 1 .. Len(ch)
  BY <1>1, <1>2 DEF ClosedMade
<1>3. CASE k = Len(ch) + 1
  BY <1>1, <1>3
<1> QED BY <1>1, <1>2, <1>3

LEMMA ApartAdds ==
    ASSUME NEW ch, NEW x, NEW u, Added(ch, x, u), NEW es, NEW p, NEW o,
           Apart(es, ch, p, o),
           \A i \in 1 .. Len(es) : Contains(x.texts, i) =>
               /\ \A k \in 1 .. Len(ch) : ~Contains(ch[k].texts, i)
               /\ p # 0 => ~Contains(o, i)
    PROVE  Apart(es, u, p, o)
<1>1. /\ u[Len(ch) + 1] = x
      /\ \A k \in 1 .. Len(ch) : u[k] = ch[k]
      /\ \A k \in 1 .. Len(u) : k \in 1 .. Len(ch) \/ k = Len(ch) + 1
  BY DEF Added
<1> SUFFICES ASSUME NEW i \in 1 .. Len(es), NEW k \in 1 .. Len(u), Contains(u[k].texts, i)
             PROVE  /\ \A l \in 1 .. Len(u) : Contains(u[l].texts, i) => k = l
                    /\ p # 0 => ~Contains(o, i)
  BY DEF Apart
<1>2. CASE k \in 1 .. Len(ch)
  BY <1>1, <1>2, Zenon DEF Apart
<1>3. CASE k = Len(ch) + 1
  BY <1>1, <1>3
<1> QED BY <1>1, <1>2, <1>3

LEMMA AllHeldAdds ==
    ASSUME NEW ch, NEW x, NEW u, Added(ch, x, u), NEW es, NEW p, NEW o,
           AllHeld(es, ch, p, o)
    PROVE  AllHeld(es, u, p, o)
<1>1. /\ u[Len(ch) + 1] = x /\ Len(ch) + 1 \in 1 .. Len(u)
      /\ \A k \in 1 .. Len(ch) : u[k] = ch[k] /\ k \in 1 .. Len(u)
  BY DEF Added
<1> QED BY <1>1 DEF AllHeld

(* it is a chunk of its own:                                               *)
LEMMA BookAlone ==
    ASSUME NEW es, NEW e, NEW f, NEW g, Longer(es, e, f, g),
           NEW ch, NEW p, NEW o, NEW c, Book(es, f, ch, p, o, c),
           NEW h, h = Len(es) + 1, NEW x, Single(x.texts, h), x.at = h,
           e.writes => Single(x.changes, h), ~e.writes => Empty(x.changes),
           e.kind # "user", p # 0 => e.kind # "answer", NEW u, Added(ch, x, u)
    PROVE  Book(g, f, u, p, o, c)
<1>1. /\ p \in 0 .. Len(es) /\ ClosedMade(es, f, ch, p) /\ OpenMade(es, f, p, o, c)
      /\ LastOpener(es, f, p) /\ Apart(es, ch, p, o) /\ AllHeld(es, ch, p, o)
  BY DEF Book
<1>2. /\ Len(es) \in Nat /\ Len(g) = h /\ g[h] = e /\ p \in 0 .. Len(g) /\ h \in Nat
  BY <1>1 DEF Longer
<1>3. OpenMade(g, f, p, o, c)
  BY <1>1, OpenGrows
<1>4. ~OpensIn(g, f, h)
  BY <1>2 DEF OpensIn
<1>5. LastOpener(g, f, p)
  BY <1>1, <1>4, LastOpenerGrows
<1>6. ClosedMade(g, f, ch, p)
  <2>1. p # 0 => OpensIn(g, f, p)
    BY <1>3 DEF OpenMade
  <2> QED BY <1>1, <1>2, <2>1, ClosedGrows
<1>7. Made(g, f, x.texts, x.at, x.changes)
  BY MadeAlone
<1>8. ClosedMade(g, f, u, p)
  BY <1>4, <1>6, <1>7, ClosedAdds
<1>9. \A i : Contains(x.texts, i) <=> i = h
  BY SingleHolds
<1>10. ASSUME NEW k \in 1 .. Len(ch) PROVE ~Contains(ch[k].texts, h)
  BY <1>1, <1>2, MadeBeyond, Zenon DEF ClosedMade
<1>11. p # 0 => ~Contains(o, h)
  BY <1>1, <1>2, MadeBeyond, Zenon DEF OpenMade
<1>12. Apart(g, u, p, o)
  <2>1. Apart(g, ch, p, o)
    BY <1>1, ApartGrows, Zenon
  <2>2. \A i \in 1 .. Len(g) : Contains(x.texts, i) =>
            /\ \A k \in 1 .. Len(ch) : ~Contains(ch[k].texts, i)
            /\ p # 0 => ~Contains(o, i)
    <3> SUFFICES ASSUME NEW i \in 1 .. Len(g), Contains(x.texts, i)
                 PROVE  (\A k \in 1 .. Len(ch) : ~Contains(ch[k].texts, i)) /\ (p # 0 => ~Contains(o, i))
      OBVIOUS
    <3>1. i = h
      BY <1>9
    <3> QED BY <1>10, <1>11, <3>1
  <2> QED BY <2>1, <2>2, ApartAdds
<1>13. AllHeld(g, u, p, o)
  <2>1. AllHeld(es, u, p, o)
    BY <1>1, AllHeldAdds, Zenon
  <2>2. u[Len(ch) + 1] = x /\ Len(ch) + 1 \in 1 .. Len(u)
    BY DEF Added
  <2>3. \E k \in 1 .. Len(u) : Contains(u[k].texts, h)
    BY <1>2, <1>9, <2>2
  <2> QED BY <2>1, <2>3, AllHeldGrows
<1> QED BY <1>2, <1>3, <1>5, <1>8, <1>12, <1>13 DEF Book

(* it joins the open turn:                                                 *)
LEMMA BookGathers ==
    ASSUME NEW es, NEW e, NEW f, NEW g, Longer(es, e, f, g),
           NEW ch, NEW p, NEW o, NEW c, Book(es, f, ch, p, o, c), p # 0,
           NEW h, h = Len(es) + 1, e.kind = "answer", ~e.blank,
           NEW t, IsTexts(t), Added(o, h, t),
           NEW d, IsTexts(d), e.writes => Added(c, h, d), ~e.writes => d = c
    PROVE  Book(g, f, ch, p, t, d)
<1>1. /\ p \in 1 .. Len(es) /\ ClosedMade(es, f, ch, p) /\ OpensIn(es, f, p) /\ Made(es, f, o, p, c)
      /\ LastOpener(es, f, p) /\ Apart(es, ch, p, o) /\ AllHeld(es, ch, p, o)
  BY DEF Book, OpenMade, Longer
<1>2. /\ Len(es) \in Nat /\ Len(g) = h /\ g[h] = e /\ p \in 0 .. Len(g) /\ h \in Nat
      /\ OpensIn(g, f, p)
  BY <1>1 DEF Longer
<1>3. Made(g, f, t, p, d)
  BY <1>1, MadeGathers
<1>4. ClosedMade(g, f, ch, p)
  BY <1>1, <1>2, ClosedGrows, Zenon
<1>5. LastOpener(g, f, p)
  <2>1. ~OpensIn(g, f, h)
    BY <1>2 DEF OpensIn
  <2> QED BY <1>1, <2>1, LastOpenerGrows
<1>7. \A i : Contains(t, i) <=> Contains(o, i) \/ i = h
  BY OneMore
<1>8. ASSUME NEW k \in 1 .. Len(ch) PROVE ~Contains(ch[k].texts, h)
  BY <1>1, <1>2, MadeBeyond, Zenon DEF ClosedMade
<1>9. Apart(g, ch, p, t)
  <2>1. Apart(g, ch, p, o)
    BY <1>1, ApartGrows
  <2> SUFFICES ASSUME NEW i \in 1 .. Len(g), NEW k \in 1 .. Len(ch), Contains(ch[k].texts, i)
               PROVE  /\ \A l \in 1 .. Len(ch) : Contains(ch[l].texts, i) => k = l
                      /\ p # 0 => ~Contains(t, i)
    BY Zenon DEF Apart
  <2>2. /\ \A l \in 1 .. Len(ch) : Contains(ch[l].texts, i) => k = l
        /\ p # 0 => ~Contains(o, i)
    BY <2>1, Zenon DEF Apart
  <2>3. i # h
    BY <1>8, Zenon
  <2> QED BY <1>7, <2>2, <2>3, Zenon
<1>10. AllHeld(g, ch, p, t)
  <2>1. \A i \in 1 .. Len(es) : Contains(o, i) => Contains(t, i)
    BY <1>7
  <2>2. AllHeld(es, ch, p, t)
    BY <1>1, <2>1 DEF AllHeld
  <2>3. p # 0 /\ Contains(t, h)
    BY <1>2, <1>7
  <2> QED BY <2>2, <2>3, AllHeldGrows
<1> QED BY <1>2, <1>3, <1>4, <1>5, <1>9, <1>10 DEF Book, OpenMade

(* or it is a user's, closes the open turn and opens one.                  *)
Closes(ch, p, o, c, x, v) ==
    /\ x.texts = o /\ x.at = p /\ x.changes = c
    /\ p = 0 => v = ch
    /\ p # 0 => Added(ch, x, v)

LEMMA BookOpens ==
    ASSUME NEW es, NEW e, NEW f, NEW g, Longer(es, e, f, g),
           NEW ch, NEW p, NEW o, NEW c, Book(es, f, ch, p, o, c),
           NEW h, h = Len(es) + 1, e.kind = "user", e.blank => f = "gemini", ~e.writes,
           NEW x, NEW v, Closes(ch, p, o, c, x, v), NEW t, Single(t, h), NEW d, Empty(d)
    PROVE  Book(g, f, v, h, t, d)
<1>0. /\ x.texts = o /\ x.at = p /\ x.changes = c
      /\ p = 0 => v = ch
      /\ p # 0 => Added(ch, x, v)
  BY DEF Closes
<1>1. /\ p \in 0 .. Len(es) /\ ClosedMade(es, f, ch, p) /\ OpenMade(es, f, p, o, c)
      /\ Apart(es, ch, p, o) /\ AllHeld(es, ch, p, o)
  BY DEF Book
<1>2. /\ Len(es) \in Nat /\ Len(g) = h /\ g[h] = e /\ h \in 0 .. Len(g) /\ h \in Nat /\ h # 0
      /\ OpensIn(g, f, h)
  BY <1>1 DEF Longer, OpensIn
<1>3. \A i : Contains(t, i) <=> i = h
  BY SingleHolds
<1>4. Made(g, f, t, h, d)
  BY MadeAlone
<1>5. ClosedMade(es, f, ch, h)
  <2> SUFFICES ASSUME NEW k \in 1 .. Len(ch)
               PROVE  /\ Made(es, f, ch[k].texts, ch[k].at, ch[k].changes)
                      /\ OpensIn(es, f, ch[k].at) => ch[k].at < h
    BY DEF ClosedMade
  <2>1. Made(es, f, ch[k].texts, ch[k].at, ch[k].changes)
    BY <1>1 DEF ClosedMade
  <2>2. ch[k].at \in 1 .. Len(es)
    BY <2>1, Zenon DEF Made
  <2> QED BY <1>2, <2>1, <2>2
<1>6. ClosedMade(es, f, v, h)
  <2>1. CASE p = 0
    BY <1>0, <1>5, <2>1
  <2>2. CASE p # 0
    <3>1. Made(es, f, x.texts, x.at, x.changes) /\ x.at < h
      BY <1>0, <1>1, <1>2, <2>2 DEF OpenMade
    <3> QED BY <1>0, <1>5, <2>2, <3>1, ClosedAdds
  <2> QED BY <2>1, <2>2
<1>7. ClosedMade(g, f, v, h)
  BY <1>2, <1>6, ClosedGrows, Zenon
<1>8. Apart(es, ch, h, t)
  <2>1. \A i \in 1 .. Len(es) : i # h
    BY <1>2
  <2>2. \A i \in 1 .. Len(es) : ~Contains(t, i)
    BY <1>3, <2>1, Zenon
  <2> QED BY <1>1, <2>2, Zenon DEF Apart
<1>9. Apart(es, v, h, t)
  <2>1. CASE p = 0
    BY <1>0, <1>8, <2>1
  <2>2. CASE p # 0
    <3>1. \A i \in 1 .. Len(es) : Contains(x.texts, i) =>
              /\ \A k \in 1 .. Len(ch) : ~Contains(ch[k].texts, i)
              /\ h # 0 => ~Contains(t, i)
      <4>1. \A i \in 1 .. Len(es) : i # h
        BY <1>2
      <4>2. \A i \in 1 .. Len(es) : ~Contains(t, i)
        BY <1>3, <4>1, Zenon
      <4> QED BY <1>0, <1>1, <2>2, <4>2, Zenon DEF Apart
    <3> QED BY <1>0, <1>8, <2>2, <3>1, ApartAdds
  <2> QED BY <2>1, <2>2
<1>10. Apart(g, v, h, t)
  BY <1>6, <1>9, ApartGrows
<1>11. AllHeld(es, v, h, t)
  <2>1. CASE p = 0
    BY <1>0, <1>1, <2>1 DEF AllHeld
  <2>2. CASE p # 0
    <3>1. /\ v[Len(ch) + 1] = x /\ Len(ch) + 1 \in 1 .. Len(v)
          /\ \A k \in 1 .. Len(ch) : v[k] = ch[k] /\ k \in 1 .. Len(v)
      BY <1>0, <2>2, Zenon DEF Added
    <3> QED BY <1>0, <1>1, <3>1, Zenon DEF AllHeld
  <2> QED BY <2>1, <2>2
<1>12. AllHeld(g, v, h, t)
  <2>1. h # 0 /\ Contains(t, h)
    BY <1>2, <1>3
  <2> QED BY <1>11, <2>1, AllHeldGrows
<1>13. LastOpener(g, f, h)
  BY <1>2 DEF LastOpener
<1> QED BY <1>2, <1>4, <1>7, <1>10, <1>12, <1>13, Zenon DEF Book, OpenMade

-----------------------------------------------------------------------------
(* The invariant: the parser's variables are a book of the entries read.   *)
Turn == <<pending>> \o fragments

Page == [texts : Seq(Nat), at : Nat, session : Sessions, project : Projects \cup {"", "/unknown"},
         changes : Seq(Nat)]

GatheredTypeOK ==
    /\ entries \in Seq(GatheredEntry) /\ pending \in Nat
    /\ sessionID \in Sessions /\ sessionCWD \in Projects \cup {""} /\ lastCWD \in Projects \cup {""}
    /\ fragments \in Seq(Nat) /\ ops \in Seq(Nat) /\ chunks \in Seq(Page)

GatheredInv == GatheredTypeOK /\ Book(entries, format, chunks, pending, Turn, ops)

LEMMA ChunkIsPage ==
    ASSUME GatheredTypeOK, NEW t \in Seq(Nat), NEW a \in Nat, NEW c \in Seq(Nat)
    PROVE  /\ Chunk(t, a, c) \in Page
           /\ Chunk(t, a, c).texts = t /\ Chunk(t, a, c).at = a /\ Chunk(t, a, c).changes = c
<1>1. Project \in Projects \cup {"", "/unknown"}
  BY Zenon DEF Project, GatheredTypeOK
<1> QED BY <1>1, Zenon DEF Chunk, Page, GatheredTypeOK

(* A chunk is added to those there are.                                    *)
LEMMA OnePage ==
    ASSUME NEW S, NEW x \in S, NEW s \in Seq(S)
    PROVE  <<x>> \in Seq(S) /\ s \o <<x>> = Append(s, x)
OBVIOUS

LEMMA TurnGrows ==
    ASSUME NEW p \in Nat, NEW t \in Seq(Nat), NEW x \in Nat
    PROVE  /\ <<p>> \o t \in Seq(Nat) /\ <<p>> \o Append(t, x) = Append(<<p>> \o t, x)
           /\ <<p>> \o << >> = <<p>>
OBVIOUS

LEMMA GatheredStarts == GatheredInit => GatheredInv
<1> SUFFICES ASSUME GatheredInit PROVE GatheredInv
  OBVIOUS
<1>1. /\ entries = << >> /\ chunks = << >> /\ pending = 0 /\ fragments = << >> /\ ops = << >>
      /\ sessionID \in Sessions /\ sessionCWD = "" /\ lastCWD = ""
  BY Zenon DEF GatheredInit
<1>2. GatheredTypeOK
  <2>1. /\ << >> \in Seq(GatheredEntry) /\ << >> \in Seq(Nat) /\ << >> \in Seq(Page)
    BY EmptyIsSequence
  <2>2. 0 \in Nat /\ "" \in Projects \cup {""}
    OBVIOUS
  <2> QED BY <1>1, <2>1, <2>2, Zenon DEF GatheredTypeOK
<1>3. Book(entries, format, chunks, pending, Turn, ops)
  <2>1. Len(entries) = 0 /\ Len(chunks) = 0 /\ pending = 0
    BY <1>1, Zenon
  <2>2. 1 .. Len(entries) = {} /\ 1 .. Len(chunks) = {} /\ pending \in 0 .. Len(entries)
    BY <2>1
  <2> QED BY <2>1, <2>2 DEF Book, ClosedMade, OpenMade, LastOpener, Apart, AllHeld
<1> QED BY <1>2, <1>3 DEF GatheredInv

(* What one more entry does to the variables of the book, given what it    *)
(* does to the book.                                                       *)
LEMMA ReadsOne ==
    ASSUME GatheredInv, NEW e \in GatheredEntry, Reads(e)
    PROVE  /\ Longer(entries, e, format, entries') /\ entries' \in Seq(GatheredEntry) /\ format' = format
           /\ Here = Len(entries) + 1 /\ Here \in Nat /\ Turn \in Seq(Nat)
<1>1. entries \in Seq(GatheredEntry) /\ pending \in Nat /\ fragments \in Seq(Nat)
  BY Zenon DEF GatheredInv, GatheredTypeOK
<1>2. Turn \in Seq(Nat)
  BY <1>1, TurnGrows DEF Turn
<1>3. entries' = Append(entries, e) /\ format' = format /\ Here = Len(entries) + 1
  BY DEF Reads, Here
<1>4. Longer(entries, e, format, entries')
  BY <1>1, <1>3, LongerFile, Zenon
<1> QED BY <1>1, <1>2, <1>3, <1>4

LEMMA QuietStep ==
    ASSUME GatheredInv, NEW e \in GatheredEntry, Reads(e),
           e.kind = "context" \/ e.blank, e.kind = "user" => e.blank /\ format # "gemini",
           UNCHANGED <<pending, fragments, ops, chunks>>,
           sessionID' \in Sessions, sessionCWD' \in Projects \cup {""}, lastCWD' \in Projects \cup {""}
    PROVE  GatheredInv'
<1>1. /\ Longer(entries, e, format, entries') /\ entries' \in Seq(GatheredEntry) /\ format' = format
  BY ReadsOne, Zenon
<1>2. entries \in Seq(GatheredEntry) /\ Book(entries, format, chunks, pending, Turn, ops)
  BY Zenon DEF GatheredInv, GatheredTypeOK
<1>3. Book(entries', format, chunks, pending, Turn, ops)
  BY <1>1, <1>2, BookQuiet, Zenon
<1>4. Turn' = Turn
  BY Zenon DEF Turn
<1>5. GatheredTypeOK'
  BY <1>1, Zenon DEF GatheredInv, GatheredTypeOK
<1> QED BY <1>1, <1>3, <1>4, <1>5, Zenon DEF GatheredInv

LEMMA AloneStep ==
    ASSUME GatheredInv, NEW e \in GatheredEntry, Reads(e), chunks' = chunks \o Alone(e),
           e.kind # "user", pending # 0 => e.kind # "answer",
           UNCHANGED <<where, pending, fragments, ops>>
    PROVE  GatheredInv'
<1>1. /\ Longer(entries, e, format, entries') /\ entries' \in Seq(GatheredEntry) /\ format' = format
      /\ Here = Len(entries) + 1 /\ Here \in Nat
  BY ReadsOne
<1>2. /\ GatheredTypeOK /\ entries \in Seq(GatheredEntry) /\ chunks \in Seq(Page)
      /\ Book(entries, format, chunks, pending, Turn, ops)
  BY Zenon DEF GatheredInv, GatheredTypeOK
<1>3. UNCHANGED <<sessionID, sessionCWD, lastCWD, pending, fragments, ops>>
  BY DEF where
<1>4. CASE e.blank
  <2>1. chunks' = chunks
    BY <1>2, <1>4 DEF Alone
  <2> QED BY <1>2, <1>3, <1>4, <2>1, QuietStep, Zenon DEF GatheredTypeOK
<1>5. CASE ~e.blank
  <2> DEFINE c == IF e.writes THEN <<Here>> ELSE << >>
             t == <<Here>>
             x == Chunk(t, Here, c)
  <2>1. /\ t \in Seq(Nat) /\ c \in Seq(Nat) /\ Single(t, Here)
        /\ e.writes => Single(c, Here)
        /\ ~e.writes => Empty(c)
    BY <1>1, OneText
  <2> HIDE DEF c, t
  <2>2. x \in Page /\ x.texts = t /\ x.at = Here /\ x.changes = c
    BY <1>1, <1>2, <2>1, ChunkIsPage
  <2>3. chunks' = chunks \o <<x>>
    BY <1>5 DEF Alone, c, t
  <2> HIDE DEF x
  <2>4. Added(chunks, x, chunks') /\ chunks' \in Seq(Page)
    BY <1>2, <2>2, <2>3, OnePage, AppendAdds, Zenon
  <2>5. Book(entries', format, chunks', pending, Turn, ops)
    BY <1>1, <1>2, <2>1, <2>2, <2>4, BookAlone, Zenon
  <2>6. Turn' = Turn
    BY <1>3 DEF Turn
  <2>7. GatheredTypeOK'
    BY <1>1, <1>2, <1>3, <2>4, Zenon DEF GatheredTypeOK
  <2> QED BY <1>1, <1>3, <2>4, <2>5, <2>6, <2>7 DEF GatheredInv
<1> QED BY <1>4, <1>5

LEMMA AnswerStep ==
    ASSUME GatheredInv, NEW e \in GatheredEntry, Answer(e)
    PROVE  GatheredInv'
<1>1. Reads(e) /\ e.kind = "answer" /\ UNCHANGED <<where, pending>>
  BY DEF Answer
<1>2. /\ Longer(entries, e, format, entries') /\ entries' \in Seq(GatheredEntry) /\ format' = format
      /\ Here = Len(entries) + 1 /\ Here \in Nat
  BY <1>1, ReadsOne
<1>3. /\ GatheredTypeOK /\ entries \in Seq(GatheredEntry) /\ pending \in Nat
      /\ fragments \in Seq(Nat) /\ ops \in Seq(Nat)
      /\ Book(entries, format, chunks, pending, Turn, ops)
  BY Zenon DEF GatheredInv, GatheredTypeOK
<1>4. UNCHANGED <<sessionID, sessionCWD, lastCWD, pending>>
  BY <1>1 DEF where
<1>5. CASE pending = 0
  BY <1>1, <1>5, AloneStep DEF Answer
<1>6. CASE pending # 0 /\ e.blank
  <2>1. ~e.writes /\ UNCHANGED <<fragments, ops, chunks>>
    BY <1>6 DEF Answer, GatheredEntry
  <2> QED BY <1>1, <1>3, <1>4, <1>6, <2>1, QuietStep, Zenon DEF GatheredTypeOK
<1>7. CASE pending # 0 /\ ~e.blank
  <2>1. /\ fragments' = Append(fragments, Here) /\ chunks' = chunks
        /\ ops' = IF e.writes THEN Append(ops, Here) ELSE ops
    BY <1>7 DEF Answer
  <2>2. Turn' = Append(Turn, Here)
    BY <1>2, <1>3, <1>4, <2>1, TurnGrows, Zenon DEF Turn
  <2>3. Turn \in Seq(Nat)
    BY <1>3, TurnGrows DEF Turn
  <2>4. /\ fragments' \in Seq(Nat) /\ ops' \in Seq(Nat) /\ Turn' \in Seq(Nat) /\ Added(Turn, Here, Turn')
        /\ e.writes => Added(ops, Here, ops')
        /\ ~e.writes => ops' = ops
    BY <1>2, <1>3, <2>1, <2>2, <2>3, AppendAdds
  <2>7. IsTexts(Turn') /\ IsTexts(ops')
    BY <2>4 DEF IsTexts
  <2>6. Book(entries', format, chunks, pending, Turn', ops')
    BY <1>1, <1>2, <1>3, <1>7, <2>4, <2>7, BookGathers, Zenon
  <2>5. GatheredTypeOK'
    BY <1>2, <1>3, <1>4, <2>1, <2>4, Zenon DEF GatheredTypeOK
  <2> QED BY <1>2, <1>4, <2>1, <2>5, <2>6 DEF GatheredInv
<1> QED BY <1>5, <1>6, <1>7

LEMMA UserStep ==
    ASSUME GatheredInv, NEW e \in GatheredEntry, UserOpens(e)
    PROVE  GatheredInv'
<1> DEFINE x == Chunk(Turn, pending, ops)
<1>1. /\ Reads(e) /\ e.kind = "user" /\ ~e.writes /\ (e.blank => format = "gemini")
      /\ chunks' = chunks \o Finalized /\ pending' = Here /\ fragments' = << >> /\ ops' = << >>
      /\ UNCHANGED <<sessionID, sessionCWD, lastCWD>>
  BY DEF UserOpens, where
<1>2. /\ Longer(entries, e, format, entries') /\ entries' \in Seq(GatheredEntry) /\ format' = format
      /\ Here = Len(entries) + 1 /\ Here \in Nat /\ Turn \in Seq(Nat)
  BY <1>1, ReadsOne
<1>3. /\ GatheredTypeOK /\ entries \in Seq(GatheredEntry) /\ pending \in Nat
      /\ ops \in Seq(Nat) /\ chunks \in Seq(Page)
      /\ Book(entries, format, chunks, pending, Turn, ops)
  BY Zenon DEF GatheredInv, GatheredTypeOK
<1>4. x \in Page /\ x.texts = Turn /\ x.at = pending /\ x.changes = ops
  BY <1>2, <1>3, ChunkIsPage
<1>5. Finalized = IF pending = 0 THEN << >> ELSE <<x>>
  BY DEF Finalized, Turn
<1> HIDE DEF x
<1>6. /\ chunks' \in Seq(Page)
      /\ pending = 0 => chunks' = chunks
      /\ pending # 0 => Added(chunks, x, chunks')
  <2>1. CASE pending = 0
    BY <1>1, <1>3, <1>5, <2>1
  <2>2. CASE pending # 0
    <3>1. chunks' = Append(chunks, x)
      BY <1>1, <1>3, <1>4, <1>5, <2>2, OnePage
    <3> QED BY <1>3, <1>4, <2>2, <3>1, AppendAdds
  <2> QED BY <2>1, <2>2
<1>7. Turn' = <<Here>>
  BY <1>1, <1>2, TurnGrows DEF Turn
<1>8. Book(entries', format, chunks', Here, <<Here>>, << >>)
  <2>1. Single(<<Here>>, Here) /\ Empty(<< >>)
    BY <1>2, OneText
  <2> DEFINE t == <<Here>>
             d == << >>
  <2>2. Single(t, Here) /\ Empty(d)
    BY <2>1
  <2> HIDE DEF t, d
  <2>3. /\ Longer(entries, e, format, entries') /\ Book(entries, format, chunks, pending, Turn, ops)
        /\ Here = Len(entries) + 1 /\ e.kind = "user" /\ (e.blank => format = "gemini") /\ ~e.writes
    BY <1>1, <1>2, <1>3
  <2>4. Closes(chunks, pending, Turn, ops, x, chunks')
    BY <1>4, <1>6 DEF Closes
  <2>5. Book(entries', format, chunks', Here, t, d)
    BY <2>2, <2>3, <2>4, BookOpens
  <2> QED BY <2>5 DEF t, d
<1>9. << >> \in Seq(Nat)
  BY EmptyIsSequence
<1>10. GatheredTypeOK'
  BY <1>1, <1>2, <1>3, <1>6, <1>9, Zenon DEF GatheredTypeOK
<1> QED BY <1>1, <1>2, <1>7, <1>8, <1>10 DEF GatheredInv

LEMMA GatheredStep == GatheredInv /\ [GatheredNext]_gatheredVars => GatheredInv'
<1> SUFFICES ASSUME GatheredInv, [GatheredNext]_gatheredVars PROVE GatheredInv'
  OBVIOUS
<1>0. /\ sessionID \in Sessions /\ sessionCWD \in Projects \cup {""} /\ lastCWD \in Projects \cup {""}
  BY Zenon DEF GatheredInv, GatheredTypeOK
<1>1. CASE UNCHANGED gatheredVars
  BY <1>1, Zenon DEF gatheredVars, where, GatheredInv, GatheredTypeOK, Turn
<1>2. ASSUME NEW e \in GatheredEntry, NEW id \in Sessions, NEW cwd \in Projects \cup {""},
             SessionMeta(e, id, cwd)
      PROVE  GatheredInv'
  BY <1>0, <1>2, QuietStep, Zenon DEF SessionMeta, Context
<1>3. ASSUME NEW e \in GatheredEntry, NEW cwd \in Projects, TurnContext(e, cwd)
      PROVE  GatheredInv'
  BY <1>0, <1>3, QuietStep, Zenon DEF TurnContext, Context
<1>4. ASSUME NEW e \in GatheredEntry, BlankUser(e) PROVE GatheredInv'
  BY <1>0, <1>4, QuietStep, Zenon DEF BlankUser, where
<1>5. ASSUME NEW e \in GatheredEntry, Other(e) PROVE GatheredInv'
  BY <1>5, AloneStep DEF Other
<1> QED
  BY <1>1, <1>2, <1>3, <1>4, <1>5, UserStep, AnswerStep, Zenon DEF GatheredNext

-----------------------------------------------------------------------------
(* What Chunks returns: the closed chunks and the open turn.               *)
IsOpenTurn(k) == pending # 0 /\ k = Len(chunks) + 1 /\ Reading[k] = Chunk(Turn, pending, ops)

LEMMA Pages ==
    ASSUME GatheredInv
    PROVE  /\ \A k \in 1 .. Len(Reading) : (k \in 1 .. Len(chunks) /\ Reading[k] = chunks[k]) \/ IsOpenTurn(k)
           /\ \A k \in 1 .. Len(chunks) : k \in 1 .. Len(Reading) /\ Reading[k] = chunks[k]
           /\ pending # 0 => Len(chunks) + 1 \in 1 .. Len(Reading) /\ IsOpenTurn(Len(chunks) + 1)
           /\ Reading \in Seq(Page)
<1> DEFINE x == Chunk(Turn, pending, ops)
<1>1. chunks \in Seq(Page) /\ GatheredTypeOK /\ pending \in Nat /\ fragments \in Seq(Nat) /\ ops \in Seq(Nat)
  BY Zenon DEF GatheredInv, GatheredTypeOK
<1>2. Turn \in Seq(Nat)
  BY <1>1, TurnGrows DEF Turn
<1>3. x \in Page
  BY <1>1, <1>2, ChunkIsPage
<1>4. Finalized = IF pending = 0 THEN << >> ELSE <<x>>
  BY DEF Finalized, Turn
<1> HIDE DEF x
<1>5. CASE pending = 0
  <2>1. Reading = chunks
    BY <1>1, <1>4, <1>5 DEF Reading
  <2> QED BY <1>1, <1>5, <2>1
<1>6. CASE pending # 0
  <2>1. Reading = Append(chunks, x)
    BY <1>1, <1>3, <1>4, <1>6, OnePage DEF Reading
  <2>2. /\ Reading \in Seq(Page) /\ Reading[Len(chunks) + 1] = x
        /\ \A k \in 1 .. Len(chunks) : Reading[k] = chunks[k] /\ k \in 1 .. Len(Reading)
        /\ \A k \in 1 .. Len(Reading) : k \in 1 .. Len(chunks) \/ k = Len(chunks) + 1
        /\ Len(chunks) + 1 \in 1 .. Len(Reading)
    BY <1>1, <1>3, <2>1, AppendAdds DEF Added
  <2> QED BY <1>6, <2>2 DEF IsOpenTurn, x
<1> QED BY <1>5, <1>6

LEMMA OpenPage ==
    ASSUME GatheredInv, NEW k, IsOpenTurn(k)
    PROVE  /\ pending # 0 /\ k = Len(chunks) + 1
           /\ Reading[k].texts = Turn /\ Reading[k].at = pending /\ Reading[k].changes = ops
<1>1. GatheredTypeOK /\ pending \in Nat /\ fragments \in Seq(Nat) /\ ops \in Seq(Nat)
  BY Zenon DEF GatheredInv, GatheredTypeOK
<1>2. Turn \in Seq(Nat)
  BY <1>1, TurnGrows DEF Turn
<1>3. pending # 0 /\ k = Len(chunks) + 1 /\ Reading[k] = Chunk(Turn, pending, ops)
  BY Zenon DEF IsOpenTurn
<1>4. /\ Chunk(Turn, pending, ops).texts = Turn /\ Chunk(Turn, pending, ops).at = pending
      /\ Chunk(Turn, pending, ops).changes = ops
  BY <1>1, <1>2, ChunkIsPage
<1> QED BY <1>3, <1>4, Zenon

LEMMA PagesMade ==
    ASSUME GatheredInv, NEW k \in 1 .. Len(Reading)
    PROVE  Made(entries, format, Reading[k].texts, Reading[k].at, Reading[k].changes)
<1>1. /\ ClosedMade(entries, format, chunks, pending) /\ OpenMade(entries, format, pending, Turn, ops)
  BY Zenon DEF GatheredInv, Book
<1>2. CASE k \in 1 .. Len(chunks) /\ Reading[k] = chunks[k]
  BY <1>1, <1>2 DEF ClosedMade
<1>3. CASE IsOpenTurn(k)
  <2>1. /\ pending # 0
        /\ Reading[k].texts = Turn /\ Reading[k].at = pending /\ Reading[k].changes = ops
    BY <1>3, OpenPage, Zenon
  <2> QED BY <1>1, <2>1, Zenon DEF OpenMade
<1> QED BY <1>2, <1>3, Pages

(* An entry is in no two pages, and one that says something is in one.     *)
LEMMA PagesApart ==
    ASSUME GatheredInv, NEW i \in 1 .. Len(entries), NEW k \in 1 .. Len(Reading), NEW l \in 1 .. Len(Reading),
           Contains(Reading[k].texts, i), Contains(Reading[l].texts, i)
    PROVE  k = l
<1>1. Apart(entries, chunks, pending, Turn)
  BY Zenon DEF GatheredInv, Book
<1>3. ASSUME NEW m, IsOpenTurn(m) PROVE pending # 0 /\ Reading[m].texts = Turn
  BY <1>3, OpenPage, Zenon
<1>4. CASE IsOpenTurn(k) /\ IsOpenTurn(l)
  <2>1. k = Len(chunks) + 1 /\ l = Len(chunks) + 1
    BY <1>4, Zenon DEF IsOpenTurn
  <2> QED BY <2>1
<1>5. CASE IsOpenTurn(k) /\ l \in 1 .. Len(chunks) /\ Reading[l] = chunks[l]
  BY <1>1, <1>3, <1>5, Zenon DEF Apart
<1>6. CASE IsOpenTurn(l) /\ k \in 1 .. Len(chunks) /\ Reading[k] = chunks[k]
  BY <1>1, <1>3, <1>6, Zenon DEF Apart
<1>7. CASE /\ k \in 1 .. Len(chunks) /\ Reading[k] = chunks[k]
           /\ l \in 1 .. Len(chunks) /\ Reading[l] = chunks[l]
  BY <1>1, <1>7 DEF Apart
<1> QED BY <1>4, <1>5, <1>6, <1>7, Pages

LEMMA PagesHold ==
    ASSUME GatheredInv, NEW i \in 1 .. Len(entries), Says(entries, i)
    PROVE  \E k \in 1 .. Len(Reading) : Contains(Reading[k].texts, i)
<1>1. AllHeld(entries, chunks, pending, Turn)
  BY Zenon DEF GatheredInv, Book
<1>2. CASE \E k \in 1 .. Len(chunks) : Contains(chunks[k].texts, i)
  BY <1>2, Pages
<1>3. CASE pending # 0 /\ Contains(Turn, i)
  <2>1. Len(chunks) + 1 \in 1 .. Len(Reading) /\ IsOpenTurn(Len(chunks) + 1)
    BY <1>3, Pages, Zenon
  <2>2. Reading[Len(chunks) + 1].texts = Turn
    BY <2>1, OpenPage, Zenon
  <2> QED BY <1>3, <2>1, <2>2, Zenon
<1> QED BY <1>1, <1>2, <1>3 DEF AllHeld

LEMMA ContainsRange ==
    ASSUME NEW S, NEW t \in Seq(S), NEW i
    PROVE  i \in Range(t) <=> Contains(t, i)
<1>1. DOMAIN t = 1 .. Len(t)
  OBVIOUS
<1> QED BY <1>1 DEF Range, Contains

(* Who holds an entry, and that its changes are there, in these terms.     *)
LEMMA HoldersContain ==
    ASSUME GatheredInv, NEW i, NEW k \in 1 .. Len(Reading)
    PROVE  /\ k \in HeldBy(i) <=> Contains(Reading[k].texts, i)
           /\ i \in Range(Reading[k].changes) <=> Contains(Reading[k].changes, i)
<1>1. Reading[k].texts \in Seq(Nat) /\ Reading[k].changes \in Seq(Nat)
  BY PagesMade DEF Made, IsTexts
<1> QED BY <1>1, ContainsRange DEF HeldBy

LEMMA OrderedInjective ==
    ASSUME NEW t \in Seq(Nat), Ordered(t)
    PROVE  IsInjective(t)
<1>1. DOMAIN t = 1 .. Len(t) /\ Len(t) \in Nat /\ \A m \in 1 .. Len(t) : t[m] \in Nat
  OBVIOUS
<1> SUFFICES ASSUME NEW a \in 1 .. Len(t), NEW b \in 1 .. Len(t), t[a] = t[b] PROVE a = b
  BY <1>1 DEF IsInjective
<1> QED BY <1>1 DEF Ordered

(* Every entry that says something is in exactly one chunk, and once, for  *)
(* files of any length, wherever they end (Chunks and finalize of Codex    *)
(* and Gemini).                                                            *)
THEOREM NothingIsSkipped == GatheredSpec => []EverythingOnce
<1>1. GatheredInv => EverythingOnce
  <2> SUFFICES ASSUME GatheredInv, NEW i \in Texts
               PROVE  \E k \in 1 .. Len(Reading) : HeldBy(i) = {k} /\ IsInjective(Reading[k].texts)
    BY DEF EverythingOnce
  <2>1. i \in 1 .. Len(entries) /\ Says(entries, i)
    BY DEF Texts, Says
  <2>2. PICK k \in 1 .. Len(Reading) : Contains(Reading[k].texts, i)
    BY <2>1, PagesHold
  <2>3. HeldBy(i) = {k}
    <3>1. k \in HeldBy(i)
      BY <2>2, HoldersContain
    <3>2. ASSUME NEW l \in HeldBy(i) PROVE l = k
      <4>1. l \in 1 .. Len(Reading)
        BY DEF HeldBy
      <4>2. Contains(Reading[l].texts, i)
        BY <4>1, HoldersContain
      <4> QED BY <2>1, <2>2, <4>1, <4>2, PagesApart
    <3> QED BY <3>1, <3>2, Zenon
  <2>4. Reading[k].texts \in Seq(Nat) /\ Ordered(Reading[k].texts)
    BY PagesMade DEF Made, IsTexts
  <2>5. IsInjective(Reading[k].texts)
    BY <2>4, OrderedInjective
  <2> QED BY <2>3, <2>5
<1> QED BY <1>1, GatheredStarts, GatheredStep, PTL DEF GatheredSpec

(* For files of any length, a turn holds exactly the answers between its   *)
(* user's message and the next one, in their order.                        *)
THEOREM TurnsAreWhole == GatheredSpec => []TurnsWhole
<1>1. GatheredInv => TurnsWhole
  <2> SUFFICES ASSUME GatheredInv, NEW k \in 1 .. Len(Reading), Opens(Reading[k].at)
               PROVE  LET at == Reading[k].at
                          own == {i \in Texts : entries[i].kind = "answer" /\ i > at
                                                /\ \A j \in at + 1 .. i : ~Opens(j)}
                      IN  Ordered(Reading[k].texts) /\ Range(Reading[k].texts) = {at} \cup own
    BY Zenon DEF TurnsWhole
  <2> DEFINE at == Reading[k].at
             t == Reading[k].texts
             own == {i \in Texts : entries[i].kind = "answer" /\ i > at /\ \A j \in at + 1 .. i : ~Opens(j)}
  <2>1. Made(entries, format, t, at, Reading[k].changes)
    BY PagesMade
  <2>2. OpensIn(entries, format, at)
    BY DEF Opens, OpensIn
  <2> HIDE DEF at, t
  <2>3. /\ t \in Seq(Nat) /\ at \in 1 .. Len(entries) /\ Ordered(t)
        /\ \A m \in 1 .. Len(t) : t[m] \in 1 .. Len(entries)
        /\ \A i \in 1 .. Len(entries) : Contains(t, i) <=> i = at \/ AnswersTo(entries, format, at, i)
    BY <2>1, <2>2 DEF Made, IsTexts
  <2>4. Len(entries) \in Nat
    <3>1. entries \in Seq(GatheredEntry)
      BY Zenon DEF GatheredInv, GatheredTypeOK
    <3> QED BY <3>1
  <2>5. \A i \in 1 .. Len(entries) : AnswersTo(entries, format, at, i) <=> i \in own
    BY <2>3, <2>4 DEF AnswersTo, Opens, OpensIn, Texts
  <2>6. own \subseteq 1 .. Len(entries)
    BY DEF Texts
  <2> HIDE DEF own
  <2>7. Range(t) = {i \in 1 .. Len(entries) : Contains(t, i)}
    BY <2>3 DEF Range, Contains
  <2>8. Range(t) = {at} \cup own
    BY <2>3, <2>5, <2>6, <2>7, Zenon
  <2> QED BY <2>3, <2>8 DEF at, t, own
<1> QED BY <1>1, GatheredStarts, GatheredStep, PTL DEF GatheredSpec

(* For files of any length, a file operation is a child of exactly the     *)
(* chunk that holds the text it was found in.                              *)
THEOREM ChangesStayWithText == GatheredSpec => []ChangesWithTheirText
<1>1. GatheredInv => ChangesWithTheirText
  <2> SUFFICES ASSUME GatheredInv, NEW i \in 1 .. Len(entries), entries[i].writes,
                      NEW k \in 1 .. Len(Reading)
               PROVE  i \in Range(Reading[k].changes) <=> k \in HeldBy(i)
    BY DEF ChangesWithTheirText
  <2>1. Contains(Reading[k].changes, i) <=> Contains(Reading[k].texts, i)
    BY PagesMade DEF Made
  <2> QED BY <2>1, HoldersContain
<1> QED BY <1>1, GatheredStarts, GatheredStep, PTL DEF GatheredSpec

-----------------------------------------------------------------------------
(* A longer file, read again.                                              *)
LEMMA JoinedSequence ==
    ASSUME NEW S, NEW s \in Seq(S), NEW t \in Seq(S)
    PROVE  /\ s \o t \in Seq(S) /\ Len(s) <= Len(s \o t)
           /\ \A k \in 1 .. Len(s) : (s \o t)[k] = s[k] /\ k \in 1 .. Len(s \o t)
OBVIOUS

LEMMA PrefixOfMore ==
    ASSUME NEW t \in Seq(Nat), NEW x \in Nat
    PROVE  Continues(t, t) /\ Continues(Append(t, x), t)
<1>1. /\ Len(t) \in Nat /\ Len(Append(t, x)) = Len(t) + 1
      /\ \A m \in 1 .. Len(t) : Append(t, x)[m] = t[m]
  OBVIOUS
<1> QED BY <1>1 DEF Continues

LEMMA ClosedStay ==
    ASSUME GatheredInv, GatheredNext
    PROVE  /\ \A k \in 1 .. Len(chunks) : chunks'[k] = chunks[k] /\ k \in 1 .. Len(chunks')
           /\ chunks' \in Seq(Page)
<1>1. /\ GatheredTypeOK /\ chunks \in Seq(Page) /\ pending \in Nat /\ fragments \in Seq(Nat)
      /\ ops \in Seq(Nat) /\ entries \in Seq(GatheredEntry)
  BY Zenon DEF GatheredInv, GatheredTypeOK
<1>2. Turn \in Seq(Nat) /\ Here \in Nat /\ << >> \in Seq(Nat) /\ <<Here>> \in Seq(Nat)
  <2>1. Turn \in Seq(Nat)
    BY <1>1, TurnGrows DEF Turn
  <2>2. Here \in Nat
    BY <1>1 DEF Here
  <2> QED BY <2>1, <2>2, OneText
<1>3. Finalized \in Seq(Page)
  <2>1. Chunk(Turn, pending, ops) \in Page
    BY <1>1, <1>2, ChunkIsPage
  <2>2. Finalized = << >> \/ Finalized = <<Chunk(Turn, pending, ops)>>
    BY DEF Finalized, Turn
  <2> QED BY <1>1, <2>1, <2>2, OnePage, EmptyIsSequence, Zenon
<1>4. ASSUME NEW e \in GatheredEntry PROVE Alone(e) \in Seq(Page)
  <2>1. Chunk(<<Here>>, Here, << >>) \in Page /\ Chunk(<<Here>>, Here, <<Here>>) \in Page
    BY <1>1, <1>2, ChunkIsPage, Zenon
  <2>2. \/ Alone(e) = << >>
        \/ Alone(e) = <<Chunk(<<Here>>, Here, << >>)>>
        \/ Alone(e) = <<Chunk(<<Here>>, Here, <<Here>>)>>
    BY DEF Alone
  <2> QED BY <1>1, <2>1, <2>2, OnePage, EmptyIsSequence, Zenon
<1>5. \/ chunks' = chunks
      \/ chunks' = chunks \o Finalized
      \/ \E e \in GatheredEntry : chunks' = chunks \o Alone(e)
  BY Zenon DEF GatheredNext, SessionMeta, TurnContext, Context, BlankUser, UserOpens, Answer, Other
<1>6. PICK t \in Seq(Page) : chunks' = chunks \/ chunks' = chunks \o t
  BY <1>1, <1>3, <1>4, <1>5, Zenon
<1>7. CASE chunks' = chunks
  BY <1>1, <1>7
<1>8. CASE chunks' = chunks \o t
  BY <1>1, <1>8, JoinedSequence
<1> QED BY <1>6, <1>7, <1>8

LEMMA OpenTurnStays ==
    ASSUME GatheredInv, GatheredNext, pending # 0
    PROVE  \/ chunks' = Append(chunks, Chunk(Turn, pending, ops))
           \/ pending' = pending /\ Continues(Turn', Turn)
<1>1. /\ chunks \in Seq(Page) /\ pending \in Nat /\ fragments \in Seq(Nat)
      /\ ops \in Seq(Nat) /\ entries \in Seq(GatheredEntry)
  BY Zenon DEF GatheredInv, GatheredTypeOK
<1>2. Turn \in Seq(Nat) /\ Here \in Nat
  <2>1. Turn \in Seq(Nat)
    BY <1>1, TurnGrows DEF Turn
  <2>2. Here \in Nat
    BY <1>1 DEF Here
  <2> QED BY <2>1, <2>2
<1>3. ASSUME NEW e \in GatheredEntry, UserOpens(e)
      PROVE  chunks' = Append(chunks, Chunk(Turn, pending, ops))
  <2>1. chunks' = chunks \o <<Chunk(Turn, pending, ops)>>
    BY <1>3 DEF UserOpens, Finalized, Turn
  <2>2. Chunk(Turn, pending, ops) \in Page
    BY <1>1, <1>2, ChunkIsPage DEF GatheredInv
  <2> QED BY <1>1, <2>1, <2>2, OnePage
<1>4. CASE \/ UNCHANGED <<pending, fragments>>
           \/ UNCHANGED pending /\ fragments' = Append(fragments, Here)
  <2>1. Turn' = Turn \/ Turn' = Append(Turn, Here)
    <3>1. CASE UNCHANGED <<pending, fragments>>
      BY <3>1 DEF Turn
    <3>2. CASE UNCHANGED pending /\ fragments' = Append(fragments, Here)
      <4>1. Turn' = <<pending>> \o Append(fragments, Here)
        BY <3>2 DEF Turn
      <4>2. <<pending>> \o Append(fragments, Here) = Append(<<pending>> \o fragments, Here)
        BY <1>1, <1>2, TurnGrows, Zenon
      <4> QED BY <4>1, <4>2 DEF Turn
    <3> QED BY <1>4, <3>1, <3>2
  <2> QED BY <1>2, <1>4, <2>1, PrefixOfMore, Zenon
<1>5. \/ \E e \in GatheredEntry : UserOpens(e)
      \/ UNCHANGED <<pending, fragments>>
      \/ UNCHANGED pending /\ fragments' = Append(fragments, Here)
  BY Zenon DEF GatheredNext, SessionMeta, TurnContext, Context, BlankUser, Answer, Other
<1> QED BY <1>3, <1>4, <1>5

(* What is returned then is a sequence of pages too.                       *)
ReadsPages == Reading \in Seq(Page)

LEMMA PagesType == GatheredInv => ReadsPages
  BY Pages DEF ReadsPages

LEMMA PagesAgain == GatheredInv /\ GatheredNext => Reading' \in Seq(Page)
<1>1. GatheredInv /\ GatheredNext => GatheredInv'
  BY GatheredStep
<1>2. GatheredInv /\ GatheredNext => ReadsPages'
  BY <1>1, PagesType, PTL
<1> QED BY <1>2 DEF ReadsPages

(* Every page is still there, or is the open turn and has grown.           *)
LEMMA ReadingGrows ==
    ASSUME GatheredInv, GatheredNext, NEW k \in 1 .. Len(Reading)
    PROVE  \/ Reading[k] \in Range(Reading')
           \/ /\ Reading[k].at = pending
              /\ \E n \in 1 .. Len(Reading') :
                    Reading'[n].at = pending /\ Continues(Reading'[n].texts, Reading[k].texts)
<1> DEFINE y == Chunk(Turn, pending, ops)'
           old == Chunk(Turn, pending, ops)
<1>1. /\ \A m \in 1 .. Len(chunks) : chunks'[m] = chunks[m] /\ m \in 1 .. Len(chunks')
      /\ chunks' \in Seq(Page)
  BY ClosedStay
<1>2. y.at = pending' /\ y.texts = Turn' /\ old.at = pending /\ old.texts = Turn
  BY DEF Chunk
<1>3. Finalized' = IF pending' = 0 THEN << >> ELSE <<y>>
  BY DEF Finalized, Turn
<1> HIDE DEF y
<1>4. /\ \A m \in 1 .. Len(chunks') : Reading'[m] = chunks'[m] /\ m \in 1 .. Len(Reading')
      /\ pending' # 0 => Reading'[Len(chunks') + 1] = y /\ Len(chunks') + 1 \in 1 .. Len(Reading')
  <2> DEFINE ch == chunks'
             r == Reading'
  <2>1. ch \in Seq(Page)
    BY <1>1
  <2>2. r = IF pending' = 0 THEN ch \o << >> ELSE ch \o <<y>>
    BY <1>3, Zenon DEF Reading
  <2> HIDE DEF ch, r
  <2>3. CASE pending' = 0
    <3>1. r = ch
      BY <2>1, <2>2, <2>3
    <3> QED BY <2>1, <2>3, <3>1 DEF ch, r
  <2>4. CASE pending' # 0
    <3>1. /\ Len(ch) \in Nat /\ Len(r) = Len(ch) + 1 /\ r[Len(ch) + 1] = y
          /\ \A m \in 1 .. Len(ch) : r[m] = ch[m]
      BY <2>1, <2>2, <2>4
    <3>2. /\ \A m \in 1 .. Len(ch) : r[m] = ch[m] /\ m \in 1 .. Len(r)
          /\ r[Len(ch) + 1] = y /\ Len(ch) + 1 \in 1 .. Len(r)
      BY <3>1
    <3> QED BY <3>2 DEF ch, r
  <2> QED BY <2>3, <2>4
<1>7. ASSUME NEW n \in 1 .. Len(Reading') PROVE Reading'[n] \in Range(Reading')
  <2> DEFINE r == Reading'
  <2>1. r \in Seq(Page)
    BY PagesAgain
  <2> HIDE DEF r
  <2>2. DOMAIN r = 1 .. Len(r)
    BY <2>1
  <2>3. n \in 1 .. Len(r)
    BY DEF r
  <2>4. r[n] \in Range(r)
    BY <2>2, <2>3 DEF Range
  <2> QED BY <2>4 DEF r
<1>5. CASE k \in 1 .. Len(chunks) /\ Reading[k] = chunks[k]
  BY <1>1, <1>4, <1>5, <1>7
<1>6. CASE IsOpenTurn(k)
  <2>1. pending # 0 /\ Reading[k] = old
    BY <1>6 DEF IsOpenTurn
  <2> HIDE DEF old
  <2>2. CASE chunks' = Append(chunks, old)
    <3>1. chunks \in Seq(Page)
      BY Zenon DEF GatheredInv, GatheredTypeOK
    <3>2. chunks'[Len(chunks) + 1] = old /\ Len(chunks) + 1 \in 1 .. Len(chunks')
      BY <2>2, <3>1
    <3> QED BY <1>4, <1>7, <2>1, <3>2
  <2>3. CASE pending' = pending /\ Continues(Turn', Turn)
    BY <1>2, <1>4, <2>1, <2>3, Zenon
  <2> QED BY <2>1, <2>2, <2>3, OpenTurnStays DEF old
<1> QED BY <1>5, <1>6, Pages

(* For files of any length, reading the file again after it has grown      *)
(* returns every chunk but the open turn as it was, and that one with at   *)
(* least the entries it had.                                               *)
THEOREM ReadingAgainKeeps == GatheredSpec => OnlyOpenTurnChanges
<1>1. GatheredInv /\ [GatheredNext]_gatheredVars =>
      [Gathers => \A k \in 1 .. Len(Reading) :
          \/ Reading[k] \in Range(Reading')
          \/ /\ Reading[k].at = pending
             /\ \E n \in 1 .. Len(Reading') :
                   Reading'[n].at = pending /\ Continues(Reading'[n].texts, Reading[k].texts)]_gatheredVars
  BY ReadingGrows
<1> QED BY <1>1, GatheredStarts, GatheredStep, PTL DEF GatheredSpec, OnlyOpenTurnChanges
=============================================================================
