------------------------- MODULE StreamFilterProofs -------------------------
(***************************************************************************)
(* Proofs about StreamFilter, for every delta text, every cutting of it    *)
(* into frames, every set of rules and every maxMatchBytes.                *)
(***************************************************************************)
EXTENDS StreamFilter, FiniteSetTheorems, WellFoundedInduction, TLAPS

USE StreamBounds

-----------------------------------------------------------------------------
\* Least and greatest elements.

\* A nonempty set of naturals has a least element.
LEMMA LeastNat ==
    ASSUME NEW T \in SUBSET Nat, T # {}
    PROVE  \E x \in T : \A y \in T : x <= y
<1>1. \E x \in T : \A y \in T : ~(<<y, x>> \in OpToRel(<, Nat))
  BY NatLessThanWellFounded, WFMin
<1>2. PICK x \in T : \A y \in T : ~(<<y, x>> \in OpToRel(<, Nat))
  BY <1>1
<1>3. \A y \in T : ~(y < x)
  BY <1>2 DEF OpToRel
<1> QED
  BY <1>3

\* FiniteSetsExt's Min and Max, on sets of naturals, are what they say.
LEMMA MinIs ==
    ASSUME NEW T \in SUBSET Nat, T # {}
    PROVE  Min(T) \in T /\ \A y \in T : Min(T) <= y
  BY LeastNat DEF Min

LEMMA MaxIs ==
    ASSUME NEW n \in Nat, NEW T \in SUBSET (0 .. n), T # {}
    PROVE  Max(T) \in T /\ \A y \in T : y <= Max(T)
<1> DEFINE R == {n - y : y \in T}
<1>1. R \in SUBSET Nat /\ R # {}
  <2>1. \A y \in T : n - y \in Nat
    OBVIOUS
  <2>2. \A x \in R : x \in Nat
    BY <2>1
  <2> QED
    BY <2>2
<1>2. PICK m \in R : \A y \in R : m <= y
  <2> HIDE DEF R
  <2> QED
    BY <1>1, LeastNat
<1>3. PICK x \in T : m = n - x
  OBVIOUS
<1>4. \A y \in T : n - y \in R
  OBVIOUS
<1>5. \A y \in T : x >= y
  <2>1. \A y \in T : n - x <= n - y /\ y \in 0 .. n
    BY <1>2, <1>3, <1>4
  <2>2. x \in 0 .. n
    OBVIOUS
  <2> HIDE DEF R
  <2> QED
    BY <2>1, <2>2
<1> QED
  BY <1>5 DEF Max

-----------------------------------------------------------------------------
(***************************************************************************)
(* removeOverlaps.  Whatever was found, there is exactly one set of        *)
(* accepted detections: the order they are sorted in is well founded.      *)
(***************************************************************************)

Accepts(accepted, found) ==
    /\ accepted \subseteq found
    /\ \A h \in found : h \in accepted <=> \A g \in accepted : Before(g, h) => g.end <= h.start

\* The fields of a match are numbers.
LEMMA MatchFields ==
    ASSUME NEW h \in Matches
    PROVE  /\ h.start \in 0 .. TextLength /\ h.end \in 0 .. TextLength /\ h.least \in 0 .. TextLength
           /\ h.needs \in 0 .. TextLength
           /\ h.rule \in Nat /\ h.rule \in Rules
           /\ h.start \in Nat /\ h.end \in Nat /\ h.least \in Nat /\ h.needs \in Nat
<1>1. /\ h.start \in 0 .. TextLength /\ h.end \in 0 .. TextLength /\ h.least \in 0 .. TextLength
      /\ h.needs \in 0 .. TextLength /\ h.rule \in Rules
  BY DEF Matches, Positions
<1>2. \A n \in 0 .. TextLength : n \in Nat
  OBVIOUS
<1> QED
  BY <1>1, <1>2

\* The order removeOverlaps sorts in is a strict partial order ...
LEMMA BeforeOrders ==
    ASSUME NEW x \in Matches, NEW y \in Matches, NEW z \in Matches
    PROVE  /\ ~Before(x, x)
           /\ Before(x, y) /\ Before(y, z) => Before(x, z)
  BY MatchFields DEF Before

\* ... and every nonempty set of matches has a first one.
LEMMA FirstOf ==
    ASSUME NEW found \in SUBSET Matches, found # {}
    PROVE  \E m \in found : \A g \in found : ~Before(g, m)
<1> DEFINE starts == {g.start : g \in found}
<1>1. PICK s \in starts : \A t \in starts : s <= t
  <2>1. starts \in SUBSET Nat /\ starts # {}
    BY MatchFields
  <2> HIDE DEF starts
  <2> QED
    BY <2>1, LeastNat
<1> DEFINE first == {g \in found : g.start = s}
           lacks == {TextLength - g.end : g \in first}
<1>2. PICK l \in lacks : \A t \in lacks : l <= t
  <2>1. first \in SUBSET Matches /\ first # {}
    OBVIOUS
  <2>2. lacks \in SUBSET Nat /\ lacks # {}
    <3> HIDE DEF first
    <3> QED
      BY <2>1, MatchFields
  <2> HIDE DEF lacks
  <2> QED
    BY <2>2, LeastNat
<1> DEFINE longest == {g \in first : TextLength - g.end = l}
           names == {g.rule : g \in longest}
<1>3. PICK r \in names : \A t \in names : r <= t
  <2>1. longest \in SUBSET Matches /\ longest # {}
    OBVIOUS
  <2>2. names \in SUBSET Nat /\ names # {}
    <3> HIDE DEF longest
    <3> QED
      BY <2>1, MatchFields
  <2> HIDE DEF names
  <2> QED
    BY <2>2, LeastNat
<1>4. PICK m \in longest : m.rule = r
  OBVIOUS
<1>5. ASSUME NEW g \in found, Before(g, m) PROVE FALSE
  <2>1. /\ g \in Matches /\ m \in Matches /\ m \in found
        /\ m.start = s /\ TextLength - m.end = l
    OBVIOUS
  <2>2. g.start \in starts /\ s <= g.start
    BY <1>1
  <2>3. g.start = s
    BY <1>5, <2>1, <2>2, MatchFields DEF Before
  <2>4. g \in first /\ TextLength - g.end \in lacks /\ l <= TextLength - g.end
    BY <1>2, <2>3
  <2>5. TextLength - g.end = l
    <3> HIDE DEF starts, first, lacks, longest, names
    <3> QED
      BY <1>5, <2>1, <2>3, <2>4, MatchFields DEF Before
  <2>6. g \in longest /\ g.rule \in names /\ r <= g.rule
    BY <1>3, <2>4, <2>5
  <2> HIDE DEF starts, first, lacks, longest, names
  <2> QED
    BY <1>4, <1>5, <2>1, <2>3, <2>5, <2>6, MatchFields DEF Before
<1> QED
  BY <1>5

\* There is at most one way to accept.
LEMMA OnlyOne ==
    ASSUME NEW found \in SUBSET Matches, NEW A, NEW B, Accepts(A, found), Accepts(B, found)
    PROVE  A = B
<1> DEFINE differ == {h \in found : h \in A <=> h \notin B}
<1>1. SUFFICES ASSUME differ # {} PROVE FALSE
  BY DEF Accepts
<1>2. PICK m \in differ : \A g \in differ : ~Before(g, m)
  <2>1. differ \in SUBSET Matches
    OBVIOUS
  <2> HIDE DEF differ
  <2> QED
    BY <1>1, <2>1, FirstOf
<1>3. \A g \in found : Before(g, m) => (g \in A <=> g \in B)
  BY <1>2
<1>4. m \in A <=> m \in B
  BY <1>3 DEF Accepts
<1> QED
  BY <1>4

Below(found, h) == {g \in found : Before(g, h)}

\* What is accepted before h is what the matches before h alone would give.
LEMMA AcceptsBelow ==
    ASSUME NEW found \in SUBSET Matches, NEW A, Accepts(A, found), NEW h \in found
    PROVE  Accepts(A \cap Below(found, h), Below(found, h))
  BY BeforeOrders DEF Accepts, Below

\* If everything in front of each detection can be decided, so can the whole.
LEMMA AcceptAll ==
    ASSUME NEW found \in SUBSET Matches,
           \A h \in found : Accepts(RemoveOverlaps(Below(found, h)), Below(found, h))
    PROVE  Accepts(RemoveOverlaps(found), found)
<1> DEFINE A == {h \in found : \A g \in RemoveOverlaps(Below(found, h)) : g.end <= h.start}
<1>1. ASSUME NEW h \in found PROVE A \cap Below(found, h) = RemoveOverlaps(Below(found, h))
  <2> DEFINE B == RemoveOverlaps(Below(found, h))
  <2>1. Below(found, h) \in SUBSET Matches /\ B \subseteq Below(found, h) /\ Accepts(B, Below(found, h))
    BY DEF Below, Accepts
  <2>2. ASSUME NEW g \in Below(found, h) PROVE g \in A <=> g \in B
    <3>1. g \in found /\ Before(g, h)
      BY DEF Below
    <3>2. Below(Below(found, h), g) = Below(found, g)
      BY <3>1, BeforeOrders DEF Below
    <3>3. Accepts(B \cap Below(found, g), Below(found, g))
      BY <2>1, <3>2, AcceptsBelow
    <3>4. Accepts(RemoveOverlaps(Below(found, g)), Below(found, g)) /\ Below(found, g) \in SUBSET Matches
      BY <3>1 DEF Below
    <3>5. B \cap Below(found, g) = RemoveOverlaps(Below(found, g))
      <4> HIDE DEF B
      <4> QED
        BY <3>3, <3>4, OnlyOne
    <3>6. g \in B <=> \A x \in B : Before(x, g) => x.end <= g.start
      BY <2>1 DEF Accepts
    <3>7. \A x \in B : Before(x, g) <=> x \in B \cap Below(found, g)
      BY <2>1 DEF Below
    <3>8. g \in A <=> \A x \in RemoveOverlaps(Below(found, g)) : x.end <= g.start
      BY <3>1
    <3> HIDE DEF A, B
    <3> QED
      BY <3>5, <3>6, <3>7, <3>8
  <2> QED
    BY <2>1, <2>2
<1>2. ASSUME NEW h \in found PROVE h \in A <=> \A g \in A : Before(g, h) => g.end <= h.start
  <2>1. h \in A <=> \A g \in RemoveOverlaps(Below(found, h)) : g.end <= h.start
    OBVIOUS
  <2>2. h \in A <=> \A g \in A \cap Below(found, h) : g.end <= h.start
    BY <1>1, <2>1
  <2>3. \A g \in A : Before(g, h) <=> g \in A \cap Below(found, h)
    BY DEF Below
  <2> HIDE DEF A
  <2> QED
    BY <2>2, <2>3
<1>3. A \in SUBSET found
  OBVIOUS
<1> HIDE DEF A
<1>4. /\ RemoveOverlaps(found) \in SUBSET found
      /\ \A h \in found : h \in RemoveOverlaps(found) <=>
             \A g \in RemoveOverlaps(found) : Before(g, h) => g.end <= h.start
  BY <1>2, <1>3 DEF RemoveOverlaps
<1> QED
  BY <1>4 DEF Accepts

\* removeOverlaps is well defined on whatever the rules found, infinite sets
\* included: what it returns is accepted, that is, a detection is dropped iff
\* one that was accepted before it reaches into it.
THEOREM RemoveOverlapsAccepts ==
    ASSUME NEW found \in SUBSET Matches
    PROVE  Accepts(RemoveOverlaps(found), found)
<1> DEFINE open == {h \in found : ~Accepts(RemoveOverlaps(Below(found, h)), Below(found, h))}
<1>1. open = {}
  <2> SUFFICES ASSUME open # {} PROVE FALSE
    OBVIOUS
  <2>1. PICK m \in open : \A g \in open : ~Before(g, m)
    <3>1. open \in SUBSET Matches
      OBVIOUS
    <3> HIDE DEF open
    <3> QED
      BY <3>1, FirstOf
  <2>2. m \in found /\ Below(found, m) \in SUBSET Matches
    BY DEF Below
  <2>3. ASSUME NEW g \in Below(found, m)
        PROVE  Accepts(RemoveOverlaps(Below(Below(found, m), g)), Below(Below(found, m), g))
    <3>1. Below(Below(found, m), g) = Below(found, g)
      BY <2>2, BeforeOrders DEF Below
    <3>2. g \in found /\ g \notin open
      BY <2>1 DEF Below
    <3> QED
      BY <3>1, <3>2
  <2>4. Accepts(RemoveOverlaps(Below(found, m)), Below(found, m))
    BY <2>2, <2>3, AcceptAll
  <2> QED
    BY <2>1, <2>4
<1> QED
  BY <1>1, AcceptAll

\* What satisfies the greedy rule is what removeOverlaps returns.
LEMMA RemoveOverlapsIs ==
    ASSUME NEW found \in SUBSET Matches, NEW A, Accepts(A, found)
    PROVE  RemoveOverlaps(found) = A
  BY RemoveOverlapsAccepts, OnlyOne

-----------------------------------------------------------------------------
(***************************************************************************)
(* filterEngine.detect on a part of the text.  The text from a up to b may *)
(* be cut at c if no accepted detection straddles c, every match that      *)
(* begins before c is known by b, and c severs no match from its context:  *)
(* then, whatever arrives later, detecting the parts gives what detecting  *)
(* the whole gives.                                                        *)
(***************************************************************************)

\* The match h as far as the text up to b shows it.
Seen(h, b) == [h EXCEPT !.end = IF @ <= b THEN @ ELSE b]

\* NFKC displaces the text from a up to b.
Displaced(a, b) == \E f \in folds : a <= f /\ f < b

\* The detection that the match h gives there.
View(h, a, b) == IF Displaced(a, b) THEN [Seen(h, b) EXCEPT !.start = a, !.end = b] ELSE Seen(h, b)

HitsKnown == \E t \in Texts : hits = t.hits /\ folds = t.folds

\* What TextsAssumption says of one match of the text.
LEMMA HitFields ==
    ASSUME HitsKnown, NEW h \in hits
    PROVE  /\ h \in Matches /\ h.needs <= h.start /\ h.start < h.least /\ h.least <= h.end
           /\ h.least <= h.start + MaxMatchBytes
           /\ \A g \in hits : g.rule = h.rule => g = h
<1>1. /\ h \in Matches /\ h.needs <= h.start /\ h.start < h.least /\ h.least <= h.end
      /\ h.least - h.start <= MaxMatchBytes
      /\ \A g \in hits : g.rule = h.rule => g = h
  BY TextsAssumption DEF HitsKnown
<1> QED
  BY <1>1, MatchFields

\* A match cut off at b keeps all but its end.
LEMMA SeenFields ==
    ASSUME NEW h \in Matches, NEW b \in Nat
    PROVE  /\ Seen(h, b) \in Matches
           /\ Seen(h, b).rule = h.rule /\ Seen(h, b).start = h.start /\ Seen(h, b).least = h.least
           /\ Seen(h, b).action = h.action /\ Seen(h, b).type = h.type
           /\ Seen(h, b).end = IF h.end <= b THEN h.end ELSE b
           /\ h.end <= b => Seen(h, b) = h
  BY MatchFields DEF Seen, Matches, Positions

\* Where a match that is found lies.
LEMMA FoundBounds ==
    ASSUME HitsKnown, NEW h \in hits, NEW a \in Nat, NEW b \in Nat, FoundIn(h, a, b)
    PROVE  a <= h.start /\ h.start < b /\ h.least <= b
<1>1. /\ h.needs \in Nat /\ h.start \in Nat /\ h.least \in Nat
      /\ h.needs <= h.start /\ h.start < h.least
  BY HitFields, MatchFields
<1>2. (a = h.start \/ a <= h.needs) /\ h.least <= b
  BY DEF FoundIn
<1> QED
  BY <1>1, <1>2

\* Found, match by match.
LEMMA FoundIs ==
    ASSUME HitsKnown, NEW a \in Nat, NEW b \in Nat
    PROVE  /\ Found(a, b) \in SUBSET Matches
           /\ \A d : d \in Found(a, b) <=> \E h \in hits : FoundIn(h, a, b) /\ d = Seen(h, b)
<1>1. \A d : d \in Found(a, b) <=> \E h \in hits : FoundIn(h, a, b) /\ d = Seen(h, b)
  BY DEF Found, Seen
<1>2. \A d \in Found(a, b) : d \in Matches
  BY <1>1, HitFields, SeenFields
<1> QED
  BY <1>1, <1>2

\* Every detection is that of a match which is found, and lies in the text that
\* was scanned.
LEMMA DetectFields ==
    ASSUME HitsKnown, NEW a \in Nat, NEW b \in 0 .. TextLength, NEW d \in Detect(a, b)
    PROVE  /\ d \in Matches /\ d.start \in Nat /\ d.end \in Nat
           /\ a <= d.start /\ d.start < b /\ d.end <= b
           /\ \E h \in hits : FoundIn(h, a, b) /\ d.rule = h.rule /\ d = View(h, a, b)
<1>0. b \in Nat /\ b \in Positions
  BY DEF Positions
<1>1. CASE Displaced(a, b)
  <2>1. Detect(a, b) = WholeLeaf(Found(a, b), a, b)
    BY <1>1 DEF Detect, Displaced
  <2>2. PICK g \in Found(a, b) : d = [g EXCEPT !.start = a, !.end = b]
    BY <2>1 DEF WholeLeaf
  <2>3. PICK h \in hits : FoundIn(h, a, b) /\ g = Seen(h, b)
    BY <1>0, <2>2, FoundIs
  <2>4. h \in Matches /\ g \in Matches /\ g.rule = h.rule
    BY <1>0, <2>3, HitFields, SeenFields
  <2>5. a < b
    BY <1>0, <2>3, <2>4, FoundBounds, MatchFields
  <2>6. a \in Positions
    BY <1>0, <2>5 DEF Positions
  <2>7. d \in Matches /\ d.rule = g.rule /\ d.start = a /\ d.end = b
    BY <1>0, <2>2, <2>4, <2>6 DEF Matches
  <2>8. d = View(h, a, b)
    BY <1>1, <2>2, <2>3 DEF View
  <2> QED
    BY <1>0, <2>3, <2>4, <2>5, <2>7, <2>8
<1>2. CASE ~Displaced(a, b)
  <2>1. Detect(a, b) = RemoveOverlaps(Found(a, b))
    BY <1>2 DEF Detect, Displaced
  <2>2. d \in Found(a, b)
    BY <1>0, <2>1, FoundIs, RemoveOverlapsAccepts DEF Accepts
  <2>3. PICK h \in hits : FoundIn(h, a, b) /\ d = Seen(h, b)
    BY <1>0, <2>2, FoundIs
  <2>4. /\ h \in Matches /\ d \in Matches /\ d.rule = h.rule /\ d.start = h.start
        /\ d.end = IF h.end <= b THEN h.end ELSE b
    BY <1>0, <2>3, HitFields, SeenFields
  <2>5. a <= h.start /\ h.start < b
    BY <1>0, <2>3, FoundBounds
  <2>6. d.start \in Nat /\ d.end \in Nat /\ h.end \in Nat
    BY <2>4, MatchFields
  <2>7. d = View(h, a, b)
    BY <1>2, <2>3 DEF View
  <2> QED
    BY <1>0, <2>3, <2>4, <2>5, <2>6, <2>7
<1> QED
  BY <1>1, <1>2

\* Where nothing is displaced, what detect returns is accepted.
LEMMA DetectAccepts ==
    ASSUME HitsKnown, folds = {}, NEW a \in Nat, NEW b \in Nat
    PROVE  /\ Accepts(Detect(a, b), Found(a, b))
           /\ \A d \in Detect(a, b) : d \in Found(a, b) /\ d \in Matches /\ a <= d.start /\ d.end <= b
<1>1. Accepts(Detect(a, b), Found(a, b))
  BY FoundIs, RemoveOverlapsAccepts DEF Detect
<1>2. \A d \in Detect(a, b) : d \in Found(a, b) /\ d \in Matches
  BY <1>1, FoundIs DEF Accepts
<1>3. ASSUME NEW d \in Found(a, b) PROVE a <= d.start /\ d.end <= b
  <2>1. PICK h \in hits : FoundIn(h, a, b) /\ d = Seen(h, b)
    BY <1>3, FoundIs
  <2>2. h \in Matches /\ a <= h.start
    BY <2>1, HitFields, FoundBounds
  <2>3. d.start = h.start /\ d.end = IF h.end <= b THEN h.end ELSE b
    BY <2>1, <2>2, SeenFields
  <2>4. h.end \in Nat
    BY <2>2, MatchFields
  <2> QED
    BY <2>1, <2>2, <2>3, <2>4
<1> QED
  BY <1>1, <1>2, <1>3

\* What is accepted is what detect returns.
LEMMA DetectIs ==
    ASSUME HitsKnown, folds = {}, NEW a \in Nat, NEW b \in Nat, NEW A, Accepts(A, Found(a, b))
    PROVE  Detect(a, b) = A
<1>1. Detect(a, b) = RemoveOverlaps(Found(a, b))
  BY DEF Detect
<1> QED
  BY <1>1, FoundIs, RemoveOverlapsIs

\* detect depends on the text alone.
LEMMA SameDetect ==
    ASSUME hits' = hits, folds' = folds, NEW a, NEW b
    PROVE  Detect(a, b)' = Detect(a, b)
<1>1. Found(a, b)' = Found(a, b)
  BY DEF Found
<1> QED
  BY <1>1 DEF Detect

\* The text from a, known up to b, may be cut at c.
Cuttable(a, b, c) ==
    /\ a <= c /\ c < b
    /\ \A d \in Detect(a, b) : d.start < c => d.end <= c
    /\ \A h \in hits : h.start < c => h.least <= b
    /\ ~Severs(c)

Ahead(a, b, c) == {d \in Detect(a, b) : d.start < c}

\* A match that is found in the whole is found in the part it begins in, and
\* the other way round.
LEMMA FoundApart ==
    ASSUME HitsKnown, NEW a \in Nat, NEW b \in Nat, NEW c \in Nat, Cuttable(a, b, c), NEW h \in hits
    PROVE  /\ folds = {}
           /\ \A e \in Nat : c <= h.start => (FoundIn(h, a, e) <=> FoundIn(h, c, e))
           /\ \A e \in Nat : h.start < c /\ (e = c \/ b <= e) /\ FoundIn(h, a, e) => FoundIn(h, a, b)
<1>1. /\ h.needs \in Nat /\ h.start \in Nat /\ h.least \in Nat /\ h.end \in Nat
      /\ h.needs <= h.start /\ h.start < h.least
  BY HitFields, MatchFields
<1>2. /\ a <= c /\ c < b /\ folds = {}
      /\ ~(h.left = "free" /\ h.needs < c /\ c <= h.start)
      /\ ~(h.left = "edge" /\ h.start = c)
      /\ ~(h.right = "edge" /\ h.least <= c /\ c <= h.end)
      /\ h.start < c => h.least <= b
  BY DEF Cuttable, Severs
<1>3. h.left \in {"free", "edge"} /\ h.right \in {"free", "edge"}
  BY HitFields DEF Matches
<1>4. ASSUME NEW e \in Nat, c <= h.start PROVE FoundIn(h, a, e) <=> FoundIn(h, c, e)
  BY <1>1, <1>2, <1>3, <1>4 DEF FoundIn
<1>5. ASSUME NEW e \in Nat, h.start < c, e = c \/ b <= e, FoundIn(h, a, e) PROVE FoundIn(h, a, b)
  BY <1>1, <1>2, <1>3, <1>5 DEF FoundIn
<1> QED
  BY <1>2, <1>4, <1>5

\* What is accepted before the cut is final, and seen alike at every later time.
LEMMA AheadIsFinal ==
    ASSUME HitsKnown, NEW a \in Nat, NEW b \in Nat, NEW c \in Nat, Cuttable(a, b, c), NEW d \in Ahead(a, b, c)
    PROVE  /\ d \in hits /\ d \in Matches /\ a <= d.start /\ d.start < c /\ d.end <= c /\ d.least <= c
           /\ \A e \in Nat : c <= e => d = Seen(d, e) /\ FoundIn(d, a, e)
<1>1. d \in Detect(a, b) /\ d.start < c /\ d.end <= c /\ folds = {}
  BY DEF Ahead, Cuttable, Severs
<1>2. d \in Found(a, b) /\ d \in Matches /\ a <= d.start
  BY <1>1, DetectAccepts
<1>3. PICK h \in hits : FoundIn(h, a, b) /\ d = Seen(h, b)
  BY <1>2, FoundIs
<1>4. h \in Matches /\ h.least <= h.end
  BY HitFields
<1>5. c < b
  BY DEF Cuttable
<1>6. d.end = IF h.end <= b THEN h.end ELSE b
  BY <1>3, <1>4, SeenFields
<1>7. h.end <= b
  BY <1>1, <1>4, <1>5, <1>6, MatchFields
<1>8. d = h
  BY <1>3, <1>4, <1>7, SeenFields
<1>9. d.end \in Nat /\ d.least \in Nat
  BY <1>2, MatchFields
<1>10. d.least <= c
  BY <1>1, <1>4, <1>8, <1>9
<1>11. ASSUME NEW e \in Nat, c <= e PROVE d = Seen(d, e) /\ FoundIn(d, a, e)
  <2>1. d.end <= e /\ d.least <= e /\ ~(b <= d.end)
    BY <1>1, <1>5, <1>9, <1>10, <1>11
  <2>2. FoundIn(d, a, e)
    BY <1>3, <1>8, <2>1 DEF FoundIn
  <2> QED
    BY <1>2, <2>1, <2>2, SeenFields
<1> QED
  BY <1>1, <1>2, <1>8, <1>10, <1>11

\* A match that begins before the cut is accepted by the same rule, at
\* whatever end e of the text.
LEMMA AheadDecides ==
    ASSUME HitsKnown, NEW a \in Nat, NEW b \in Nat, NEW c \in Nat, Cuttable(a, b, c),
           NEW e \in Nat, e = c \/ b <= e, NEW h \in hits, FoundIn(h, a, e), h.start < c
    PROVE  Seen(h, e) \in Ahead(a, b, c) <=>
               \A x \in Ahead(a, b, c) : Before(x, Seen(h, e)) => x.end <= h.start
<1> DEFINE f == Seen(h, e)
           g == Seen(h, b)
<1>1. /\ h \in Matches /\ f \in Matches /\ g \in Matches
      /\ f.start = h.start /\ g.start = h.start /\ f.rule = h.rule /\ g.rule = h.rule
      /\ f.end = IF h.end <= e THEN h.end ELSE e
      /\ g.end = IF h.end <= b THEN h.end ELSE b
      /\ h.end <= e => f = h
      /\ h.end <= b => g = h
  <2>1. h \in Matches
    BY HitFields
  <2> QED
    BY <2>1, SeenFields
<1>2. c < b /\ h.least <= b /\ folds = {} /\ c <= e
  BY DEF Cuttable, Severs
<1>3. g \in Found(a, b)
  <2>1. FoundIn(h, a, b)
    BY FoundApart
  <2> QED
    BY <2>1, FoundIs
<1>4. g.end <= c => f = g
  BY <1>1, <1>2, MatchFields
<1> HIDE DEF f, g
<1>5. ASSUME f \in Ahead(a, b, c), NEW x \in Ahead(a, b, c), Before(x, f) PROVE x.end <= h.start
  <2>1. f \in Detect(a, b) /\ x \in Detect(a, b)
    BY <1>5 DEF Ahead
  <2>2. f \in Found(a, b)
    BY <1>2, <2>1, DetectAccepts
  <2> QED
    BY <1>1, <1>2, <1>5, <2>1, <2>2, DetectAccepts DEF Accepts
<1>6. ASSUME f \notin Ahead(a, b, c) PROVE \E x \in Ahead(a, b, c) : Before(x, f) /\ ~(x.end <= h.start)
  <2>1. g \notin Detect(a, b)
    <3> SUFFICES ASSUME g \in Detect(a, b) PROVE FALSE
      OBVIOUS
    <3>1. g \in Ahead(a, b, c) /\ g.end <= c
      BY <1>1 DEF Ahead, Cuttable
    <3> QED
      BY <1>4, <1>6, <3>1
  <2>2. PICK x \in Detect(a, b) : Before(x, g) /\ ~(x.end <= g.start)
    BY <1>2, <1>3, <2>1, DetectAccepts DEF Accepts
  <2>3. x \in Matches
    BY <1>2, DetectAccepts
  <2>4. x.start <= h.start /\ x.start < c
    BY <1>1, <2>2, <2>3, MatchFields DEF Before
  <2>5. x \in Ahead(a, b, c) /\ x.end <= c
    BY <2>4 DEF Ahead, Cuttable
  <2>6. CASE x.start < h.start
    BY <1>1, <2>2, <2>5, <2>6 DEF Before
  <2>7. CASE x.start = h.start
    <3>1. g.end <= x.end
      BY <1>1, <2>2, <2>3, <2>7, MatchFields DEF Before
    <3>2. g.end <= c
      BY <1>1, <2>3, <2>5, <3>1, MatchFields
    <3> QED
      BY <1>1, <1>4, <2>2, <2>5, <3>2
  <2> QED
    BY <1>1, <2>3, <2>4, <2>6, <2>7, MatchFields
<1> QED
  BY <1>5, <1>6 DEF f

\* The head that is cut off is detected as it was in the longer text.
LEMMA HeadDetected ==
    ASSUME HitsKnown, NEW a \in Nat, NEW b \in Nat, NEW c \in Nat, Cuttable(a, b, c)
    PROVE  Detect(a, c) = Ahead(a, b, c)
<1> DEFINE K == Ahead(a, b, c)
<1>0. folds = {}
  BY DEF Cuttable, Severs
<1>1. ASSUME NEW d \in K PROVE d \in Found(a, c)
  <2>1. d \in hits /\ FoundIn(d, a, c) /\ d = Seen(d, c)
    BY <1>1, AheadIsFinal
  <2> QED
    BY <2>1, FoundIs
<1>2. ASSUME NEW f \in Found(a, c) PROVE f \in K <=> \A x \in K : Before(x, f) => x.end <= f.start
  <2>1. PICK h \in hits : FoundIn(h, a, c) /\ f = Seen(h, c)
    BY <1>2, FoundIs
  <2>2. h \in Matches /\ h.start < c /\ f.start = h.start
    BY <2>1, HitFields, FoundBounds, SeenFields
  <2> HIDE DEF K
  <2>3. Seen(h, c) \in K <=> \A x \in K : Before(x, Seen(h, c)) => x.end <= h.start
    BY <2>1, <2>2, AheadDecides DEF K
  <2> QED
    BY <2>1, <2>2, <2>3
<1>3. Accepts(K, Found(a, c))
  BY <1>1, <1>2 DEF Accepts
<1> HIDE DEF K
<1>4. Detect(a, c) = K
  BY <1>0, <1>3, DetectIs
<1> QED
  BY <1>4 DEF K

\* Whatever arrives after a cut that severs no match from its context, detecting
\* in the head and in the rest apart gives what detecting in the whole does: the
\* cut of push neither makes nor loses a detection.
THEOREM WholeDetected ==
    ASSUME HitsKnown, NEW a \in Nat, NEW b \in Nat, NEW c \in Nat, Cuttable(a, b, c),
           NEW e \in Nat, b <= e
    PROVE  Detect(a, e) = Detect(a, c) \cup Detect(c, e)
<1> DEFINE K == Ahead(a, b, c)
           W == K \cup Detect(c, e)
<1>0. a <= c /\ c < b /\ c <= e /\ folds = {}
  BY DEF Cuttable, Severs
<1>1. ASSUME NEW d \in W PROVE d \in Found(a, e)
  <2>1. CASE d \in K
    <3>1. d \in hits /\ FoundIn(d, a, e) /\ d = Seen(d, e)
      BY <1>0, <2>1, AheadIsFinal
    <3> QED
      BY <3>1, FoundIs
  <2>2. CASE d \in Detect(c, e)
    <3>1. PICK h \in hits : FoundIn(h, c, e) /\ d = Seen(h, e)
      BY <1>0, <2>2, DetectAccepts, FoundIs
    <3>2. FoundIn(h, a, e)
      BY <3>1, FoundApart, FoundBounds
    <3> QED
      BY <3>1, <3>2, FoundIs
  <2> QED
    BY <1>1, <2>1, <2>2
<1>2. \A x \in K : x.start < c /\ x.end <= c /\ x \in Matches
  BY AheadIsFinal
<1>3. \A x \in Detect(c, e) : c <= x.start /\ x \in Matches
  BY <1>0, DetectAccepts
<1>4. ASSUME NEW f \in Found(a, e) PROVE f \in W <=> \A x \in W : Before(x, f) => x.end <= f.start
  <2>1. PICK h \in hits : FoundIn(h, a, e) /\ f = Seen(h, e)
    BY <1>4, FoundIs
  <2>2. h \in Matches /\ f \in Matches /\ f.start = h.start
    BY <2>1, HitFields, SeenFields
  <2>3. CASE h.start < c
    <3> HIDE DEF K
    <3>1. f \in K <=> \A x \in K : Before(x, f) => x.end <= f.start
      BY <1>0, <2>1, <2>2, <2>3, AheadDecides DEF K
    <3>2. f \notin Detect(c, e)
      BY <1>3, <2>2, <2>3, MatchFields
    <3>3. \A x \in Detect(c, e) : ~Before(x, f)
      BY <1>3, <2>2, <2>3, MatchFields DEF Before
    <3> QED
      BY <3>1, <3>2, <3>3
  <2>4. CASE c <= h.start
    <3> HIDE DEF K
    <3>1. f \in Found(c, e)
      BY <2>1, <2>4, FoundApart, FoundIs
    <3>2. f \in Detect(c, e) <=> \A x \in Detect(c, e) : Before(x, f) => x.end <= f.start
      BY <1>0, <3>1, DetectAccepts DEF Accepts
    <3>3. f \notin K
      BY <1>2, <2>2, <2>4, MatchFields
    <3>4. \A x \in K : x.end <= f.start
      BY <1>2, <2>2, <2>4, MatchFields
    <3> QED
      BY <3>2, <3>3, <3>4
  <2> QED
    BY <2>2, <2>3, <2>4, MatchFields
<1>5. Accepts(W, Found(a, e))
  BY <1>1, <1>4 DEF Accepts
<1>6. Detect(a, e) = W
  <2> HIDE DEF W
  <2> QED
    BY <1>0, <1>5, DetectIs
<1> QED
  BY <1>6, HeadDetected

-----------------------------------------------------------------------------
(***************************************************************************)
(* The invariant.  As long as no head severed a context, the text since    *)
(* the last flush may be cut where `pending' begins: whatever is still to  *)
(* come, protecting it in one piece is protecting what was emitted and,    *)
(* apart from it, the rest.                                                *)
(***************************************************************************)

LastCut == Max(cuts)

\* What is detected, in one piece, in the part of the text since the last
\* flush that has been emitted.
Kept == {d \in Detect(LastCut, received) : d.start < base}

\* It is the same for every continuation of the text.
BaseSplits ==
    /\ \A e \in received .. TextLength : Detect(LastCut, e) = Kept \cup Detect(base, e)
    /\ \A d \in Kept : d.end <= base

\* Every flush was at or before `base'.
CutsBehind == 0 \in cuts /\ \A c \in cuts : c <= base

\* What is pending has not been written; unless a match was blocked,
\* everything before it has.
PendingIsHeld == \A i \in DOMAIN shown : base <= i => shown[i] = "held"
WrittenUpToBase == status # "blocked" => \A i \in DOMAIN shown : i < base => shown[i] # "held"

\* Where handleFrame is, and what it has in hand there.
FrameInHand ==
    /\ framePc \in {"flush", "extras", "push"} =>
           /\ frame \in [kind : {"json"}, terminates : BOOLEAN, extras : Verdicts, delta : 0 .. MaxDelta]
           /\ received + frame.delta <= TextLength
    /\ framePc = "text" => frame \in [kind : {"text"}, verdict : Verdicts]
    /\ framePc \notin {"next", "end"} => status = "open"
    /\ framePc = "end" \/ status = "done" => base = received

\* Where NFKC displaces the text, a head is not cut off unless it severs.
FoldsWait == folds # {} => base = LastCut

StreamInv ==
    /\ StreamTypeOK /\ HitsKnown /\ CutsBehind /\ FrameInHand
    /\ Unsevered => BaseSplits /\ FoldsWait
    /\ PendingIsHeld /\ WrittenUpToBase
    /\ SameAsOneShot /\ BlockedNeverShown /\ EachCountedOnce /\ TailBeforeTerminator

\* What the invariant says of the text whatever is in it ...
BaseInv == StreamTypeOK /\ HitsKnown /\ CutsBehind /\ PendingIsHeld

\* ... and of its detections and their counts, as long as nothing is severed.
TextInv ==
    /\ BaseInv /\ Unsevered /\ BaseSplits /\ FoldsWait
    /\ SameAsOneShot /\ BlockedNeverShown /\ EachCountedOnce

\* The order of the positions: the last flush, base, what has been received.
LEMMA TextNumbers ==
    ASSUME StreamTypeOK, CutsBehind
    PROVE  /\ received \in Nat /\ base \in Nat /\ base <= received /\ received <= TextLength
           /\ cuts \in SUBSET (0 .. received)
           /\ LastCut \in cuts /\ LastCut \in Nat /\ LastCut <= base
           /\ \A c \in cuts : c \in Nat /\ c <= LastCut
<1>1. /\ received \in 0 .. TextLength /\ base \in 0 .. received /\ cuts \in SUBSET (0 .. received)
      /\ cuts # {}
  BY DEF StreamTypeOK, CutsBehind
<1>2. received \in Nat /\ base \in Nat /\ base <= received /\ received <= TextLength
  BY <1>1
<1>3. LastCut \in cuts /\ \A c \in cuts : c <= LastCut
  BY <1>1, <1>2, MaxIs DEF LastCut
<1>4. \A c \in cuts : c \in Nat
  BY <1>1, <1>2
<1> QED
  BY <1>1, <1>2, <1>3, <1>4 DEF CutsBehind

\* Detecting in a part of no length finds nothing.
LEMMA NothingInNothing ==
    ASSUME HitsKnown, NEW a \in 0 .. TextLength
    PROVE  Detect(a, a) = {}
<1>1. ASSUME NEW d \in Detect(a, a) PROVE FALSE
  <2>1. a \in Nat
    OBVIOUS
  <2>2. d.start \in Nat /\ a <= d.start /\ d.start < a
    BY <1>1, <2>1, DetectFields
  <2> QED
    BY <2>1, <2>2
<1> QED
  BY <1>1

\* A detection is known by its rule.
LEMMA KnownByRule ==
    ASSUME HitsKnown, NEW a \in Nat, NEW b \in 0 .. TextLength, NEW d \in Detect(a, b)
    PROVE  /\ d.rule \in Rules
           /\ \A h \in hits : h.rule = d.rule =>
                  /\ d = View(h, a, b) /\ a <= h.start /\ h.start < b
                  /\ folds = {} => d.start = h.start
<1>1. PICK g \in hits : FoundIn(g, a, b) /\ d.rule = g.rule /\ d = View(g, a, b)
  BY DetectFields
<1>2. b \in Nat /\ g \in Matches /\ \A h \in hits : h.rule = g.rule => h = g
  BY HitFields
<1>3. a <= g.start /\ g.start < b
  BY <1>1, <1>2, FoundBounds
<1>4. folds = {} => d.start = g.start
  BY <1>1, <1>2, SeenFields DEF View, Displaced
<1>5. d.rule \in Rules
  BY <1>1, <1>2, MatchFields
<1> QED
  BY <1>1, <1>2, <1>3, <1>4, <1>5

\* Where push may cut, given what is detected: at the window or at the start of
\* a detection that reaches beyond it, whichever comes first.
LEMMA CommitIsLeast ==
    ASSUME HitsKnown, base \in Nat, NEW b \in 0 .. TextLength, NEW c, c = CommitPoint(b), ~(c <= base)
    PROVE  /\ c \in Nat /\ base < c /\ c + MaxMatchBytes <= b
           /\ \E window \in Nat :
                  /\ c <= window
                  /\ c = window \/ \E g \in Detect(base, b) : g.end > window /\ c = g.start
                  /\ \A g \in Detect(base, b) : g.end > window => c <= g.start
<1> DEFINE low == IF b < MaxMatchBytes THEN 0 ELSE b - MaxMatchBytes
           window == Max({base, low})
           straddle == {g \in Detect(base, b) : g.end > window}
           points == {window} \cup {h.start : h \in straddle}
<1>1. low \in Nat /\ (low > 0 => low + MaxMatchBytes = b)
  OBVIOUS
<1> HIDE DEF low
<1>2. window \in {base, low} /\ base <= window /\ low <= window
  <2>1. PICK n \in Nat : base <= n /\ low <= n
    BY <1>1
  <2>2. {base, low} \in SUBSET (0 .. n) /\ {base, low} # {}
    BY <1>1, <2>1
  <2>3. \A T \in SUBSET (0 .. n) : T # {} => Max(T) \in T /\ \A y \in T : y <= Max(T)
    BY MaxIs
  <2> QED
    BY <2>2, <2>3
<1>3. c = Min(points)
  BY DEF CommitPoint, low
<1> HIDE DEF window
<1>4. points \in SUBSET Nat /\ points # {}
  <2>1. \A d \in Detect(base, b) : d.start \in Nat
    BY DetectFields
  <2> QED
    BY <1>1, <1>2, <2>1
<1>5. c \in points /\ \A y \in points : c <= y
  <2> HIDE DEF points
  <2> QED
    BY <1>3, <1>4, MinIs
<1>6. c \in Nat /\ c <= window /\ window \in Nat
  BY <1>1, <1>2, <1>4, <1>5
<1>7. window = low /\ c + MaxMatchBytes <= b /\ base < c
  BY <1>1, <1>2, <1>6
<1>8. c = window \/ \E g \in Detect(base, b) : g.end > window /\ c = g.start
  BY <1>5
<1>9. \A g \in Detect(base, b) : g.end > window => c <= g.start
  BY <1>5
<1> QED
  BY <1>6, <1>7, <1>8, <1>9

\* Where push cuts the head off, the text may be cut.
LEMMA CommitIsCuttable ==
    ASSUME HitsKnown, base \in Nat, NEW b \in 0 .. TextLength, NEW c, c = CommitPoint(b), ~(c <= base),
           ~Severs(c)
    PROVE  c \in Nat /\ Cuttable(base, b, c)
<1>0. b \in Nat /\ folds = {}
  BY DEF Severs
<1>1. c \in Nat /\ base < c /\ c + MaxMatchBytes <= b
  BY CommitIsLeast
<1>2. PICK window \in Nat :
          /\ c <= window
          /\ c = window \/ \E g \in Detect(base, b) : g.end > window /\ c = g.start
          /\ \A g \in Detect(base, b) : g.end > window => c <= g.start
  BY CommitIsLeast
<1>8. ASSUME NEW d \in Detect(base, b), d.start < c PROVE d.end <= c
  <2>1. d \in Matches /\ d.start \in Nat /\ d.end \in Nat
    BY DetectFields
  <2>2. d.end <= window
    <3> SUFFICES ASSUME d.end > window PROVE FALSE
      BY <2>1
    <3>1. c <= d.start
      BY <1>2
    <3> QED
      BY <1>1, <1>8, <2>1, <3>1
  <2>3. CASE c = window
    BY <2>2, <2>3
  <2>4. CASE c # window
    <3>1. PICK g \in Detect(base, b) : c = g.start
      BY <1>2, <2>4
    <3>2. g \in Found(base, b) /\ Before(d, g)
      BY <1>0, <1>8, <3>1, DetectAccepts DEF Before
    <3> QED
      BY <1>0, <3>1, <3>2, DetectAccepts DEF Accepts
  <2> QED
    BY <2>3, <2>4
<1>9. ASSUME NEW h \in hits, h.start < c PROVE h.least <= b
  <2>1. h \in Matches /\ h.least <= h.start + MaxMatchBytes
    BY HitFields
  <2>2. h.start \in Nat /\ h.least \in Nat
    BY <2>1, MatchFields
  <2> QED
    BY <1>0, <1>1, <1>9, <2>1, <2>2
<1>10. base <= c /\ c < b
  BY <1>0, <1>1
<1> QED
  BY <1>1, <1>8, <1>9, <1>10 DEF Cuttable

-----------------------------------------------------------------------------
\* Protecting in one piece, before and after a step.

\* The least element is Min.
LEMMA MinUnique ==
    ASSUME NEW T \in SUBSET Nat, NEW x \in T, \A y \in T : x <= y
    PROVE  Min(T) = x
<1>1. Min(T) \in T /\ \A y \in T : Min(T) <= y
  BY MinIs
<1>2. Min(T) <= x /\ x <= Min(T) /\ Min(T) \in Nat /\ x \in Nat
  BY <1>1
<1> QED
  BY <1>2

\* Since the last flush the piece is open: it ends where the text received does.
LEMMA OneShotOpen ==
    ASSUME StreamTypeOK, CutsBehind, NEW i \in Nat, LastCut <= i, i < received
    PROVE  OneShot(i) = Detect(LastCut, received)
<1>1. {c \in cuts : c <= i} = cuts /\ {c \in cuts : c > i} = {}
  BY TextNumbers
<1>2. Min({received}) = received
  BY TextNumbers, MinUnique
<1>3. {c \in cuts : c > i} \cup {received} = {received}
  BY <1>1
<1> QED
  BY <1>1, <1>2, <1>3 DEF OneShot, LastCut

\* More text arrives, or the tail is flushed.
Proceeds ==
    /\ hits' = hits /\ folds' = folds
    /\ received' \in Nat /\ received <= received'
    /\ \/ cuts' = cuts
       \/ cuts' = cuts \cup {received} /\ received' = received

\* A piece between two flushes no longer changes.
LEMMA OneShotClosed ==
    ASSUME StreamTypeOK, CutsBehind, Proceeds, NEW i \in Nat, i < LastCut
    PROVE  OneShot(i)' = OneShot(i)
<1> DEFINE after == {c \in cuts : c > i}
           S == after \cup {received}
           T == {c \in cuts' : c > i} \cup {received'}
<1>1. {c \in cuts' : c <= i} = {c \in cuts : c <= i}
  BY TextNumbers DEF Proceeds
<1>2. after \in SUBSET Nat /\ after # {} /\ \A c \in after : c <= received
  BY TextNumbers
<1>3. /\ T \in SUBSET Nat /\ after \subseteq T
      /\ \A c \in T : c \in after \/ c >= received
  BY <1>2, TextNumbers DEF Proceeds
<1>4. Min(after) \in after /\ \A y \in after : Min(after) <= y
  <2> HIDE DEF after
  <2> QED
    BY <1>2, MinIs
<1>5. S \in SUBSET Nat /\ Min(after) \in S /\ \A y \in S : Min(after) <= y
  <2> HIDE DEF after
  <2> QED
    BY <1>2, <1>4, TextNumbers
<1>6. Min(after) \in T /\ \A y \in T : Min(after) <= y
  <2> HIDE DEF after, T
  <2>1. Min(after) \in Nat /\ Min(after) <= received /\ received \in Nat
    BY <1>2, <1>4, TextNumbers
  <2>2. \A y \in T : y \in Nat
    BY <1>3
  <2> QED
    BY <1>3, <1>4, <2>1, <2>2
<1>7. Min(S) = Min(after) /\ Min(T) = Min(after)
  <2> HIDE DEF after, S, T
  <2> QED
    BY <1>3, <1>5, <1>6, MinUnique
<1>8. OneShot(i) = Detect(Max({c \in cuts : c <= i}), Min(S))
  BY DEF OneShot
<1>9. OneShot(i)' = Detect(Max({c \in cuts' : c <= i}), Min(T))
  BY SameDetect DEF OneShot, Detect, Found, Proceeds
<1> HIDE DEF S, T
<1> QED
  BY <1>1, <1>7, <1>8, <1>9

\* The open piece grows with the text, or is closed by a flush where it ends.
LEMMA OneShotNow ==
    ASSUME StreamTypeOK, CutsBehind, Proceeds, NEW i \in Nat, LastCut <= i, i < received'
    PROVE  OneShot(i)' = Detect(LastCut, received')
<1> DEFINE T == {c \in cuts' : c > i} \cup {received'}
<1>1. {c \in cuts' : c <= i} = cuts /\ T = {received'}
  BY TextNumbers DEF Proceeds
<1>2. Min({received'}) = received'
  <2>1. received' \in Nat
    BY DEF Proceeds
  <2> QED
    BY <2>1, MinUnique
<1>3. OneShot(i)' = Detect(Max({c \in cuts' : c <= i}), Min(T))
  BY SameDetect DEF OneShot, Detect, Found, Proceeds
<1> HIDE DEF T
<1> QED
  BY <1>1, <1>2, <1>3 DEF LastCut

-----------------------------------------------------------------------------
(***************************************************************************)
(* Every step that emits is transformSegment on the text from base up to   *)
(* some point `to', with e characters received; a push that commits        *)
(* nothing is one with to = base.                                          *)
(***************************************************************************)

Writes(to, e) ==
    /\ to \in Nat /\ e \in Nat /\ base <= to /\ to <= e /\ e <= TextLength
    /\ hits' = hits /\ folds' = folds /\ enforced' = enforced /\ received' = e
    /\ TransformSegment(to)

\* ... and one of which the rest of the text is independent.
Emits(to, e) ==
    /\ Writes(to, e)
    /\ Detect(LastCut, e) = Kept \cup Detect(base, to) \cup Detect(to, e)
    /\ \A i \in Nat : i < LastCut => OneShot(i)' = OneShot(i)
    /\ \A i \in Nat : LastCut <= i /\ i < e => OneShot(i)' = Detect(LastCut, e)

\* What is kept lies between the last flush and base.
LEMMA KeptFields ==
    ASSUME TextInv, NEW d \in Kept
    PROVE  /\ d \in Detect(LastCut, received) /\ d \in Matches /\ folds = {}
           /\ d.start \in Nat /\ d.end \in Nat
           /\ LastCut <= d.start /\ d.start < base /\ d.end <= base
<1>1. d \in Detect(LastCut, received) /\ d.start < base /\ d.end <= base
  BY DEF Kept, TextInv, BaseSplits
<1>2. LastCut \in Nat /\ received \in 0 .. TextLength /\ HitsKnown
  BY TextNumbers DEF TextInv, BaseInv, StreamTypeOK
<1>3. d \in Matches /\ LastCut <= d.start /\ d.start \in Nat /\ d.end \in Nat
  BY <1>1, <1>2, DetectFields
<1>4. folds = {}
  BY <1>1, <1>2, <1>3 DEF TextInv, FoldsWait
<1> QED
  BY <1>1, <1>3, <1>4

\* What was detected before the step where the text was emitted is what is
\* detected there after it; and at the positions that are emitted now it is
\* what the segment's own detection finds.
LEMMA CoversAfter ==
    ASSUME TextInv, NEW to, NEW e, Emits(to, e), NEW i \in Nat, NEW d
    PROVE  /\ i < base => (d \in OneShot(i)' /\ Covers(d, i) <=> d \in OneShot(i) /\ Covers(d, i))
           /\ base <= i /\ i < to =>
                  (d \in OneShot(i)' /\ Covers(d, i) <=> d \in Detect(base, to) /\ Covers(d, i))
<1>1. /\ StreamTypeOK /\ CutsBehind /\ HitsKnown
      /\ to \in Nat /\ e \in Nat /\ base <= to /\ to <= e /\ e <= TextLength /\ received' = e
  BY DEF TextInv, BaseInv, Emits, Writes
<1>2. received \in Nat /\ base \in Nat /\ base <= received /\ LastCut \in Nat /\ LastCut <= base
  BY <1>1, TextNumbers
<1>3. Detect(LastCut, e) = Kept \cup Detect(base, to) \cup Detect(to, e)
  BY DEF Emits
<1>4. Detect(LastCut, received) = Kept \cup Detect(base, received)
  <2>1. received \in received .. TextLength
    BY <1>1, TextNumbers
  <2> QED
    BY <2>1 DEF TextInv, BaseSplits
<1>5. /\ d \in Detect(base, to) => d \in Matches /\ d.start \in Nat /\ base <= d.start
      /\ d \in Detect(to, e) => d \in Matches /\ d.start \in Nat /\ to <= d.start
      /\ d \in Detect(base, received) => d \in Matches /\ d.start \in Nat /\ base <= d.start
  <2>1. to \in 0 .. TextLength /\ e \in 0 .. TextLength /\ received \in 0 .. TextLength
    BY <1>1, StreamBounds DEF StreamTypeOK
  <2> QED
    BY <1>1, <1>2, <2>1, DetectFields
<1>6. d \in Kept => d.start \in Nat /\ d.end \in Nat /\ d.end <= base
  BY KeptFields
<1>7. CASE i < LastCut
  <2>1. OneShot(i)' = OneShot(i) /\ i < base
    BY <1>2, <1>7 DEF Emits
  <2> QED
    BY <1>2, <2>1
<1>8. CASE LastCut <= i /\ i < base
  <2>1. OneShot(i)' = Detect(LastCut, e)
    BY <1>1, <1>2, <1>8 DEF Emits
  <2>2. OneShot(i) = Detect(LastCut, received)
    BY <1>1, <1>2, <1>8, OneShotOpen
  <2>3. d \in Detect(LastCut, e) /\ Covers(d, i) <=> d \in Kept /\ Covers(d, i)
    BY <1>1, <1>2, <1>3, <1>5, <1>8 DEF Covers
  <2>4. d \in Detect(LastCut, received) /\ Covers(d, i) <=> d \in Kept /\ Covers(d, i)
    BY <1>1, <1>2, <1>4, <1>5, <1>8 DEF Covers
  <2> QED
    BY <1>2, <1>8, <2>1, <2>2, <2>3, <2>4
<1>9. CASE base <= i /\ i < to
  <2>1. OneShot(i)' = Detect(LastCut, e)
    BY <1>1, <1>2, <1>9 DEF Emits
  <2>2. d \in Detect(LastCut, e) /\ Covers(d, i) <=> d \in Detect(base, to) /\ Covers(d, i)
    BY <1>1, <1>2, <1>3, <1>5, <1>6, <1>9 DEF Covers
  <2> QED
    BY <1>2, <1>9, <2>1, <2>2
<1> QED
  BY <1>1, <1>2, <1>7, <1>8, <1>9

\* A step that emits shows what protecting in one piece shows.
LEMMA EmitShows ==
    ASSUME TextInv, NEW to, NEW e, Emits(to, e)
    PROVE  SameAsOneShot' /\ BlockedNeverShown'
<1> DEFINE found == Detect(base, to)
<1>1. /\ to \in Nat /\ base <= to /\ base \in Nat /\ enforced' = enforced
      /\ base' = to /\ DOMAIN shown = 0 .. TextLength - 1
      /\ \/ Blocks(found) /\ shown' = shown
         \/ /\ ~Blocks(found)
            /\ shown' = [i \in DOMAIN shown |->
                   IF base <= i /\ i < to THEN Transformed(found, i) ELSE shown[i]]
  BY TextNumbers DEF TextInv, BaseInv, StreamTypeOK, Emits, Writes, TransformSegment
<1> HIDE DEF found
<1>2. DOMAIN shown' = DOMAIN shown /\ \A i \in DOMAIN shown : i \in Nat
  BY <1>1
<1>3. \A i \in DOMAIN shown : base <= i => shown[i] = "held"
  BY DEF TextInv, BaseInv, PendingIsHeld
<1>4. \A i \in DOMAIN shown :
          /\ i < base => shown'[i] = shown[i]
          /\ to <= i => shown'[i] = "held"
          /\ base <= i /\ i < to /\ shown'[i] # "held" => ~Blocks(found) /\ shown'[i] = Transformed(found, i)
  BY <1>1, <1>2, <1>3
<1>5. ASSUME NEW i \in DOMAIN shown, shown'[i] # "held"
      PROVE  /\ shown'[i] = Transformed(OneShot(i), i)'
             /\ enforced' => \A h \in OneShot(i)' : Covers(h, i) => h.action # "block"
  <2>1. CASE i < base
    <3>1. \A d : d \in OneShot(i)' /\ Covers(d, i) <=> d \in OneShot(i) /\ Covers(d, i)
      BY <1>2, <2>1, CoversAfter
    <3>2. shown[i] = Transformed(OneShot(i), i) /\ shown'[i] = shown[i]
      BY <1>4, <1>5, <2>1 DEF TextInv, SameAsOneShot
    <3>3. Transformed(OneShot(i), i)' = Transformed(OneShot(i), i)
      BY <1>1, <3>1 DEF Transformed, Covers
    <3>4. enforced => \A h \in OneShot(i) : Covers(h, i) => h.action # "block"
      BY <1>5, <3>2 DEF TextInv, BlockedNeverShown
    <3> QED
      BY <1>1, <3>1, <3>2, <3>3, <3>4
  <2>2. CASE base <= i /\ i < to
    <3>1. \A d : d \in OneShot(i)' /\ Covers(d, i) <=> d \in found /\ Covers(d, i)
      BY <1>2, <2>2, CoversAfter DEF found
    <3>2. ~Blocks(found) /\ shown'[i] = Transformed(found, i)
      BY <1>4, <1>5, <2>2
    <3>3. Transformed(OneShot(i), i)' = Transformed(found, i)
      BY <1>1, <3>1 DEF Transformed, Covers
    <3> QED
      BY <1>1, <3>1, <3>2, <3>3 DEF Blocks
  <2> QED
    BY <1>1, <1>2, <1>4, <1>5, <2>1, <2>2
<1>7. SameAsOneShot'
  BY <1>2, <1>5 DEF SameAsOneShot
<1>8. BlockedNeverShown'
  BY <1>2, <1>5 DEF BlockedNeverShown, Covers
<1> QED
  BY <1>7, <1>8

\* The counts of a segment: one for each rule with a detection in it.
LEMMA SegmentCounts ==
    ASSUME HitsKnown, NEW a \in Nat, NEW b \in 0 .. TextLength, NEW r
    PROVE  Cardinality({d \in Detect(a, b) : d.rule = r}) = IF \E d \in Detect(a, b) : d.rule = r THEN 1 ELSE 0
<1> DEFINE S == {d \in Detect(a, b) : d.rule = r}
<1>1. CASE S = {}
  BY <1>1, FS_EmptySet
<1>2. CASE S # {}
  <2>1. PICK d \in S : TRUE
    BY <1>2
  <2>2. \A x \in S : x = d
    <3> SUFFICES ASSUME NEW x \in S PROVE x = d
      OBVIOUS
    <3>1. PICK h \in hits : d.rule = h.rule /\ d = View(h, a, b)
      BY <2>1, DetectFields
    <3>2. x = View(h, a, b)
      BY <2>1, <3>1, KnownByRule
    <3> QED
      BY <3>1, <3>2
  <2>3. S = {d}
    BY <2>1, <2>2
  <2>4. Cardinality({d}) = 1
    BY FS_Singleton
  <2> QED
    BY <2>1, <2>3, <2>4
<1> QED
  BY <1>1, <1>2

\* Whether a rule's match that begins at or before `base' was detected does not
\* change, and one that begins in the segment is detected iff it is there.
LEMMA RuleAfter ==
    ASSUME TextInv, NEW to, NEW e, Emits(to, e), NEW h \in hits
    PROVE  /\ h.start < base =>
                  /\ ~\E d \in Detect(base, to) : d.rule = h.rule
                  /\ (\E d \in OneShot(h.start)' : d.rule = h.rule) <=>
                     (\E d \in OneShot(h.start) : d.rule = h.rule)
           /\ base <= h.start /\ h.start < to =>
                  ((\E d \in OneShot(h.start)' : d.rule = h.rule) <=>
                   (\E d \in Detect(base, to) : d.rule = h.rule))
           /\ to <= h.start => ~\E d \in Detect(base, to) : d.rule = h.rule
<1>1. /\ StreamTypeOK /\ CutsBehind /\ HitsKnown
      /\ to \in Nat /\ e \in Nat /\ base <= to /\ to <= e /\ e <= TextLength /\ received' = e
  BY DEF TextInv, BaseInv, Emits, Writes
<1>2. received \in Nat /\ base \in Nat /\ base <= received /\ LastCut \in Nat /\ LastCut <= base
  BY <1>1, TextNumbers
<1>3. PICK i \in Nat : i = h.start
  BY <1>1, HitFields, MatchFields
<1>4. Detect(LastCut, e) = Kept \cup Detect(base, to) \cup Detect(to, e)
  BY DEF Emits
<1>5. Detect(LastCut, received) = Kept \cup Detect(base, received)
  <2>1. received \in received .. TextLength
    BY <1>1, TextNumbers
  <2> QED
    BY <2>1 DEF TextInv, BaseSplits
<1>6. /\ \A d \in Detect(base, to) : d.rule = h.rule => base <= i /\ i < to
      /\ \A d \in Detect(to, e) : d.rule = h.rule => to <= i
      /\ \A d \in Detect(base, received) : d.rule = h.rule => base <= i
      /\ \A d \in Detect(LastCut, received) : d.rule = h.rule /\ folds = {} => d.start = i
  <2>1. to \in 0 .. TextLength /\ e \in 0 .. TextLength /\ received \in 0 .. TextLength
    BY <1>1, StreamBounds DEF StreamTypeOK
  <2> QED
    BY <1>1, <1>2, <1>3, <2>1, KnownByRule
<1>7. \A d \in Kept : d.rule = h.rule => i < base
  BY <1>3, <1>6, KeptFields
<1>8. i < base => ~\E d \in Detect(base, to) : d.rule = h.rule
  BY <1>2, <1>3, <1>6
<1>9. to <= i => ~\E d \in Detect(base, to) : d.rule = h.rule
  BY <1>1, <1>3, <1>6
<1>10. CASE i < LastCut
  BY <1>1, <1>2, <1>3, <1>8, <1>9, <1>10 DEF Emits
<1>11. CASE LastCut <= i /\ i < base
  <2>1. OneShot(i)' = Detect(LastCut, e) /\ OneShot(i) = Detect(LastCut, received)
    BY <1>1, <1>2, <1>3, <1>11, OneShotOpen DEF Emits
  <2>2. (\E d \in Detect(LastCut, e) : d.rule = h.rule) <=> (\E d \in Kept : d.rule = h.rule)
    BY <1>1, <1>2, <1>3, <1>4, <1>6, <1>11
  <2>3. (\E d \in Detect(LastCut, received) : d.rule = h.rule) <=> (\E d \in Kept : d.rule = h.rule)
    BY <1>2, <1>3, <1>5, <1>6, <1>11
  <2> QED
    BY <1>1, <1>2, <1>3, <1>8, <1>9, <1>11, <2>1, <2>2, <2>3
<1>12. CASE base <= i /\ i < to
  <2>1. OneShot(i)' = Detect(LastCut, e)
    BY <1>1, <1>2, <1>3, <1>12 DEF Emits
  <2>2. (\E d \in Detect(LastCut, e) : d.rule = h.rule) <=> (\E d \in Detect(base, to) : d.rule = h.rule)
    BY <1>1, <1>2, <1>3, <1>4, <1>6, <1>7, <1>12
  <2> QED
    BY <1>1, <1>2, <1>3, <1>8, <1>9, <1>12, <2>1, <2>2
<1> QED
  BY <1>1, <1>2, <1>3, <1>8, <1>9, <1>10, <1>11, <1>12

\* Writing a segment adds one for each rule with a detection in it.
LEMMA WriteCounts ==
    ASSUME BaseInv, NEW to, NEW e, Writes(to, e)
    PROVE  /\ tally \in [Rules -> Nat] /\ tally' \in [Rules -> Nat]
           /\ \A r \in Rules :
                  tally'[r] = tally[r] + (IF \E d \in Detect(base, to) : d.rule = r THEN 1 ELSE 0)
<1>1. /\ to \in Nat /\ base <= to /\ base \in Nat /\ HitsKnown /\ tally \in [Rules -> Nat]
      /\ to \in 0 .. TextLength
      /\ tally' = [r \in Rules |-> tally[r] + Cardinality({d \in Detect(base, to) : d.rule = r})]
  BY TextNumbers, StreamBounds DEF BaseInv, StreamTypeOK, Writes, TransformSegment
<1> DEFINE count(r) == Cardinality({d \in Detect(base, to) : d.rule = r})
<1>2. \A r \in Rules :
          tally'[r] = tally[r] + (IF \E d \in Detect(base, to) : d.rule = r THEN 1 ELSE 0)
  <2>1. \A r : count(r) = IF \E d \in Detect(base, to) : d.rule = r THEN 1 ELSE 0
    BY <1>1, SegmentCounts
  <2>2. tally' = [r \in Rules |-> tally[r] + count(r)]
    BY <1>1
  <2> HIDE DEF count
  <2> QED
    BY <2>1, <2>2
<1> HIDE DEF count
<1>3. tally' \in [Rules -> Nat]
  <2>1. \A r \in Rules : tally'[r] \in Nat
    BY <1>1, <1>2
  <2> QED
    BY <1>1, <2>1
<1> QED
  BY <1>1, <1>2, <1>3

\* A step that emits counts each detection of its segment once.
LEMMA EmitCounts ==
    ASSUME TextInv, NEW to, NEW e, Emits(to, e)
    PROVE  EachCountedOnce'
<1>1. /\ to \in Nat /\ base <= to /\ base \in Nat /\ HitsKnown
      /\ hits' = hits /\ base' = to
  BY TextNumbers DEF TextInv, BaseInv, Emits, Writes, TransformSegment
<1>2. /\ tally \in [Rules -> Nat]
      /\ \A r \in Rules :
             tally'[r] = tally[r] + (IF \E d \in Detect(base, to) : d.rule = r THEN 1 ELSE 0)
  BY WriteCounts DEF TextInv, Emits
<1>4. ASSUME NEW h \in hits
      PROVE  tally'[h.rule] = IF h.start < to /\ \E d \in OneShot(h.start)' : d.rule = h.rule THEN 1 ELSE 0
  <2>1. h.rule \in Rules /\ h.start \in Nat
    BY <1>1, HitFields, MatchFields
  <2>2. tally[h.rule] = IF h.start < base /\ \E d \in OneShot(h.start) : d.rule = h.rule THEN 1 ELSE 0
    BY DEF TextInv, EachCountedOnce
  <2>3. tally'[h.rule] = tally[h.rule] + (IF \E d \in Detect(base, to) : d.rule = h.rule THEN 1 ELSE 0)
    BY <1>2, <2>1
  <2>4. CASE h.start < base
    BY <1>1, <2>1, <2>2, <2>3, <2>4, RuleAfter
  <2>5. CASE base <= h.start /\ h.start < to
    BY <1>1, <2>1, <2>2, <2>3, <2>5, RuleAfter
  <2>6. CASE to <= h.start
    BY <1>1, <2>1, <2>2, <2>3, <2>6, RuleAfter
  <2> QED
    BY <1>1, <2>1, <2>4, <2>5, <2>6
<1> QED
  BY <1>1, <1>4 DEF EachCountedOnce

\* A step that emits keeps the types, and writes all up to base unless it blocks.
LEMMA WriteTypes ==
    ASSUME BaseInv, NEW to, NEW e, Writes(to, e)
    PROVE  /\ received' \in 0 .. TextLength /\ base' = to /\ base' \in 0 .. received'
           /\ shown' \in [0 .. TextLength - 1 -> {"held", "raw", "replaced"}]
           /\ status' \in {status, "blocked"}
           /\ tally' \in [Rules -> Nat]
           /\ HitsKnown' /\ PendingIsHeld' /\ (WrittenUpToBase => WrittenUpToBase')
<1>1. /\ to \in Nat /\ e \in Nat /\ to <= e /\ e <= TextLength /\ received' = e /\ base' = to /\ base \in Nat
      /\ shown \in [0 .. TextLength - 1 -> {"held", "raw", "replaced"}]
  BY TextNumbers DEF BaseInv, StreamTypeOK, Writes, TransformSegment
<1> DEFINE found == Detect(base, to)
<1>2. \/ status' = "blocked" /\ shown' = shown
      \/ /\ status' = status
         /\ shown' = [i \in DOMAIN shown |->
                IF base <= i /\ i < to THEN Transformed(found, i) ELSE shown[i]]
  BY DEF Writes, TransformSegment
<1>3. \A i : Transformed(found, i) \in {"raw", "replaced"}
  BY DEF Transformed
<1> HIDE DEF found
<1>4. shown' \in [0 .. TextLength - 1 -> {"held", "raw", "replaced"}]
  BY <1>1, <1>2, <1>3
<1>5. ASSUME WrittenUpToBase, status' # "blocked", NEW i \in DOMAIN shown', i < to PROVE shown'[i] # "held"
  <2>1. status' = status /\ i \in DOMAIN shown /\ i \in Nat
    BY <1>1, <1>2, <1>5
  <2>2. shown'[i] = IF base <= i /\ i < to THEN Transformed(found, i) ELSE shown[i]
    BY <1>2, <1>5, <2>1
  <2>3. CASE base <= i
    BY <1>3, <1>5, <2>2, <2>3
  <2>4. CASE i < base
    BY <1>1, <1>5, <2>1, <2>2, <2>4 DEF WrittenUpToBase
  <2> QED
    BY <1>1, <2>1, <2>3, <2>4
<1>6. WrittenUpToBase => WrittenUpToBase'
  BY <1>1, <1>5 DEF WrittenUpToBase
<1>7. PendingIsHeld'
  <2>1. DOMAIN shown' = DOMAIN shown /\ \A i \in DOMAIN shown : i \in Nat
    BY <1>1, <1>2
  <2>2. base <= to
    BY DEF Writes
  <2>3. \A i \in DOMAIN shown : to <= i => shown[i] = "held" /\ base <= i
    BY <1>1, <2>1, <2>2 DEF BaseInv, PendingIsHeld
  <2>4. \A i \in DOMAIN shown : to <= i => shown'[i] = shown[i]
    BY <1>1, <1>2, <2>1
  <2> QED
    BY <1>1, <2>1, <2>3, <2>4 DEF PendingIsHeld
<1>8. HitsKnown'
  BY DEF BaseInv, Writes, HitsKnown
<1> QED
  BY <1>1, <1>2, <1>4, <1>6, <1>7, <1>8, WriteCounts

\* Doing nothing is transforming a segment of no length.
LEMMA EmptySegment ==
    ASSUME BaseInv, UNCHANGED <<base, shown, tally, status>>
    PROVE  TransformSegment(base)
<1>1. base \in Nat /\ Detect(base, base) = {}
  <2>1. base \in 0 .. TextLength /\ base \in Nat
    BY TextNumbers, StreamBounds DEF BaseInv
  <2> QED
    BY <2>1, NothingInNothing DEF BaseInv
<1>2. tally \in [Rules -> Nat] /\ shown \in [0 .. TextLength - 1 -> {"held", "raw", "replaced"}]
  BY DEF BaseInv, StreamTypeOK
<1>3. \A r \in Rules : Cardinality({h \in Detect(base, base) : h.rule = r}) = 0
  <2>1. \A r \in Rules : {h \in Detect(base, base) : h.rule = r} = {}
    BY <1>1
  <2> QED
    BY <2>1, FS_EmptySet
<1>4. tally' = [r \in Rules |-> tally[r] + Cardinality({h \in Detect(base, base) : h.rule = r})]
  BY <1>2, <1>3
<1>5. ~Blocks(Detect(base, base))
  BY <1>1 DEF Blocks
<1>6. shown' = [i \in DOMAIN shown |->
                   IF base <= i /\ i < base THEN Transformed(Detect(base, base), i) ELSE shown[i]]
  BY <1>1, <1>2
<1> QED
  BY <1>4, <1>5, <1>6 DEF TransformSegment

\* push writes up to the point it commits.
LEMMA PushWrites ==
    ASSUME BaseInv, NEW n \in Nat, received + n <= TextLength, Push(n), UNCHANGED text
    PROVE  \E to \in Nat :
               /\ Writes(to, received + n)
               /\ \/ to = base /\ heads' = heads
                  \/ to = CommitPoint(received + n) /\ base < to /\ heads' = heads \cup {to}
<1> DEFINE e == received + n
           commit == CommitPoint(e)
<1>1. /\ HitsKnown /\ received \in Nat /\ base \in Nat /\ base <= received
      /\ hits' = hits /\ folds' = folds /\ enforced' = enforced
  BY TextNumbers DEF BaseInv, text
<1>2. e \in Nat /\ received <= e /\ received' = e /\ e \in 0 .. TextLength /\ e <= TextLength
  BY <1>1, StreamBounds DEF Push
<1>3. CASE commit <= base
  <2>1. TransformSegment(base) /\ heads' = heads
    BY <1>3, EmptySegment DEF Push
  <2> HIDE DEF e, commit
  <2> QED
    BY <1>1, <1>2, <2>1 DEF Writes, e
<1>4. CASE ~(commit <= base)
  <2>1. TransformSegment(commit) /\ heads' = heads \cup {commit}
    BY <1>4 DEF Push
  <2> HIDE DEF e
  <2>2. commit \in Nat /\ base < commit /\ commit + MaxMatchBytes <= e
    BY <1>1, <1>2, <1>4, CommitIsLeast
  <2> HIDE DEF commit
  <2>3. commit <= e /\ base <= commit
    BY <1>1, <1>2, <2>2, StreamBounds
  <2>4. Writes(commit, e)
    BY <1>1, <1>2, <2>1, <2>2, <2>3 DEF Writes
  <2> QED
    BY <2>1, <2>2, <2>4 DEF e, commit
<1> QED
  BY <1>3, <1>4

\* If it severs no match from its context, no continuation of the text moves
\* that point.
LEMMA PushEmits ==
    ASSUME TextInv, NEW n \in Nat, received + n <= TextLength, cuts' = cuts, Unsevered',
           NEW to \in Nat, Writes(to, received + n),
           \/ to = base /\ heads' = heads
           \/ to = CommitPoint(received + n) /\ base < to /\ heads' = heads \cup {to}
    PROVE  /\ Emits(to, received + n)
           /\ folds # {} => to = base
           /\ \A x \in received + n .. TextLength :
                  Detect(LastCut, x) = Kept \cup Detect(base, to) \cup Detect(to, x)
<1> DEFINE e == received + n
<1>1. /\ HitsKnown /\ StreamTypeOK /\ CutsBehind
      /\ received \in Nat /\ base \in Nat /\ base <= received /\ LastCut \in Nat
  BY TextNumbers DEF TextInv, BaseInv
<1>2. /\ e \in Nat /\ received <= e /\ received' = e /\ e \in 0 .. TextLength
      /\ hits' = hits /\ folds' = folds
  BY <1>1, StreamBounds DEF Writes
<1>3. Proceeds
  BY <1>2 DEF Proceeds
<1> HIDE DEF e
<1>4. /\ \A i \in Nat : i < LastCut => OneShot(i)' = OneShot(i)
      /\ \A i \in Nat : LastCut <= i /\ i < e => OneShot(i)' = Detect(LastCut, e)
  BY <1>1, <1>2, <1>3, OneShotClosed, OneShotNow
<1>5. \A x \in e .. TextLength : x \in Nat /\ e <= x /\ Detect(LastCut, x) = Kept \cup Detect(base, x)
  <2>1. \A x \in e .. TextLength : x \in Nat /\ e <= x /\ x \in received .. TextLength
    BY <1>1, <1>2
  <2> QED
    BY <2>1 DEF TextInv, BaseSplits
<1>6. e \in e .. TextLength
  BY <1>2
<1>7. CASE to = base
  <2>1. base \in 0 .. TextLength
    BY <1>1, StreamBounds DEF StreamTypeOK
  <2>2. Detect(base, base) = {}
    BY <1>1, <2>1, NothingInNothing
  <2>3. \A x \in e .. TextLength : Detect(LastCut, x) = Kept \cup Detect(base, base) \cup Detect(base, x)
    BY <1>5, <2>2
  <2>4. Emits(base, e)
    BY <1>4, <1>6, <1>7, <2>3 DEF Emits, e
  <2> QED
    BY <1>7, <2>3, <2>4 DEF e
<1>8. CASE to = CommitPoint(e) /\ base < to /\ heads' = heads \cup {to}
  <2>1. ~Severs(to)
    <3>1. ~Severs(to)'
      BY <1>8 DEF Unsevered
    <3> QED
      BY <1>2, <3>1 DEF Severs
  <2>2. ~(to <= base)
    BY <1>1, <1>8
  <2>3. Cuttable(base, e, to) /\ folds = {}
    BY <1>1, <1>2, <1>8, <2>1, <2>2, CommitIsCuttable DEF Severs
  <2>4. \A x \in e .. TextLength : Detect(base, x) = Detect(base, to) \cup Detect(to, x)
    BY <1>1, <1>2, <1>5, <2>3, WholeDetected
  <2>5. \A x \in e .. TextLength : Detect(LastCut, x) = Kept \cup Detect(base, to) \cup Detect(to, x)
    BY <1>5, <2>4
  <2>6. Emits(to, e)
    BY <1>4, <1>6, <2>5 DEF Emits, e
  <2> QED
    BY <2>3, <2>5, <2>6 DEF e
<1> QED
  BY <1>7, <1>8 DEF e

\* flush writes all that is pending.
LEMMA FlushWrites ==
    ASSUME BaseInv, Flush, UNCHANGED text, received' = received
    PROVE  Writes(received, received)
<1>1. received \in Nat /\ base \in Nat /\ base <= received /\ received <= TextLength
  BY TextNumbers DEF BaseInv
<1>2. TransformSegment(received)
  BY EmptySegment DEF Flush
<1> QED
  BY <1>1, <1>2 DEF Writes, text

LEMMA FlushEmits ==
    ASSUME TextInv, Flush, Writes(received, received)
    PROVE  Emits(received, received)
<1>1. /\ HitsKnown /\ StreamTypeOK /\ CutsBehind
      /\ received \in Nat /\ base \in Nat /\ base <= received /\ LastCut \in Nat /\ received <= TextLength
      /\ received \in 0 .. TextLength
  BY TextNumbers DEF TextInv, BaseInv, StreamTypeOK
<1>2. Proceeds
  BY <1>1 DEF Proceeds, Flush, Writes
<1>3. /\ \A i \in Nat : i < LastCut => OneShot(i)' = OneShot(i)
      /\ \A i \in Nat : LastCut <= i /\ i < received => OneShot(i)' = Detect(LastCut, received)
  <2>1. received' = received
    BY DEF Writes
  <2> QED
    BY <1>1, <1>2, <2>1, OneShotClosed, OneShotNow
<1>5. Detect(received, received) = {}
  BY <1>1, NothingInNothing
<1>6. received \in received .. TextLength
  BY <1>1
<1>7. Detect(LastCut, received) = Kept \cup Detect(base, received) \cup Detect(received, received)
  BY <1>5, <1>6 DEF TextInv, BaseSplits
<1> QED
  BY <1>3, <1>7 DEF Emits

-----------------------------------------------------------------------------
\* Emitting keeps the invariant

\* After a push `base' splits the text where the head was cut off.
LEMMA PushSplits ==
    ASSUME TextInv, NEW to \in Nat, NEW e \in Nat, Emits(to, e), cuts' = cuts,
           \A x \in e .. TextLength :
               Detect(LastCut, x) = Kept \cup Detect(base, to) \cup Detect(to, x)
    PROVE  BaseSplits'
<1>1. /\ received' = e /\ base' = to /\ hits' = hits /\ folds' = folds
      /\ HitsKnown /\ base \in Nat /\ LastCut \in Nat
      /\ base <= to /\ to <= e /\ e <= TextLength /\ e \in e .. TextLength
      /\ to \in 0 .. TextLength /\ e \in 0 .. TextLength
  BY TextNumbers, StreamBounds DEF TextInv, BaseInv, Emits, Writes, TransformSegment
<1>2. LastCut' = LastCut
  BY DEF LastCut
<1> DEFINE now == Kept \cup Detect(base, to)
<1>4. \A d \in now : d.start \in Nat /\ d.start < to /\ d.end <= to
  <2>1. \A d \in Kept : d.start \in Nat /\ d.end \in Nat /\ d.start < base /\ d.end <= base
    BY KeptFields
  <2>3. \A d \in Detect(base, to) : d.start \in Nat /\ d.start < to /\ d.end <= to
    BY <1>1, DetectFields
  <2>4. ASSUME NEW d \in Kept PROVE d.start \in Nat /\ d.start < to /\ d.end <= to
    BY <1>1, <2>1
  <2> QED
    BY <2>3, <2>4
<1>5. \A d \in Detect(to, e) : ~(d.start < to)
  <2>1. \A d \in Detect(to, e) : d.start \in Nat /\ to <= d.start
    BY <1>1, DetectFields
  <2> QED
    BY <2>1
<1>6. Detect(LastCut, e) = now \cup Detect(to, e)
  BY <1>1
<1>7. Kept' = {d \in Detect(LastCut, e) : d.start < to}
  BY <1>1, <1>2, SameDetect DEF Kept, Detect, Found
<1>8. \A x \in e .. TextLength : Detect(LastCut, x) = now \cup Detect(to, x)
  OBVIOUS
<1> HIDE DEF now
<1>9. Kept' = now
  BY <1>4, <1>5, <1>6, <1>7
<1>10. ASSUME NEW x \in e .. TextLength
       PROVE  Detect(LastCut, x)' = Kept' \cup Detect(base, x)'
  <2>1. Detect(LastCut, x)' = Detect(LastCut, x)
    BY <1>1, <1>2, SameDetect DEF Detect, Found
  <2>2. Detect(base, x)' = Detect(to, x)
    BY <1>1, SameDetect DEF Detect, Found
  <2> QED
    BY <1>8, <1>9, <2>1, <2>2
<1> QED
  BY <1>1, <1>4, <1>9, <1>10 DEF BaseSplits

\* After a flush nothing of the text since the last flush is emitted: that
\* text is empty.
LEMMA FlushSplits ==
    ASSUME BaseInv, Flush, Writes(received, received)
    PROVE  BaseSplits' /\ CutsBehind' /\ FoldsWait'
<1>1. /\ HitsKnown /\ received \in Nat /\ cuts \in SUBSET (0 .. received) /\ 0 \in cuts
      /\ received <= TextLength /\ base <= received /\ base \in Nat
      /\ \A c \in cuts : c \in Nat /\ c <= base
      /\ cuts' = cuts \cup {received} /\ received \in 0 .. TextLength
      /\ hits' = hits /\ folds' = folds /\ received' = received /\ base' = received
  BY TextNumbers DEF BaseInv, StreamTypeOK, CutsBehind, Flush, Writes, TransformSegment
<1>2. CutsBehind'
  BY <1>1 DEF CutsBehind
<1>3. LastCut' = received
  <2>1. cuts' \in SUBSET (0 .. received) /\ cuts' # {} /\ received \in cuts'
    BY <1>1
  <2>2. Max(cuts') \in cuts' /\ \A y \in cuts' : y <= Max(cuts')
    BY <1>1, <2>1, MaxIs
  <2>3. Max(cuts') \in 0 .. received /\ received <= Max(cuts')
    BY <2>1, <2>2
  <2>4. Max(cuts') = received
    BY <1>1, <2>3
  <2> QED
    BY <2>4 DEF LastCut
<1>4. Kept' = {}
  <2>1. \A d \in Detect(received, received) : FALSE
    BY <1>1, NothingInNothing
  <2>2. Kept' = {d \in Detect(received, received) : d.start < received}
    BY <1>1, <1>3, SameDetect DEF Kept, Detect, Found
  <2> QED
    BY <2>1, <2>2
<1>5. (\A x \in received .. TextLength : Detect(LastCut, x) = Kept \cup Detect(base, x))'
  BY <1>1, <1>3, <1>4, SameDetect DEF Detect, Found
<1> QED
  BY <1>1, <1>2, <1>3, <1>4, <1>5 DEF BaseSplits, FoldsWait

\* A cut that did not sever does not come to do so.
LEMMA UnseveredBefore ==
    ASSUME heads \subseteq heads', hits' = hits, folds' = folds, Unsevered'
    PROVE  Unsevered
  BY DEF Unsevered, Severs

\* All that the invariant says of the text and its detections.
StreamParts ==
    /\ HitsKnown /\ CutsBehind /\ PendingIsHeld /\ WrittenUpToBase
    /\ Unsevered => BaseSplits /\ FoldsWait
    /\ SameAsOneShot /\ BlockedNeverShown /\ EachCountedOnce

\* What a push and a flush keep.
LEMMA TextAfterPush ==
    ASSUME StreamInv, NEW n \in Nat, received + n <= TextLength, Push(n),
           UNCHANGED text, cuts' = cuts
    PROVE  /\ received' = received + n /\ received' \in 0 .. TextLength /\ base' \in 0 .. received'
           /\ shown' \in [0 .. TextLength - 1 -> {"held", "raw", "replaced"}]
           /\ tally' \in [Rules -> Nat] /\ cuts' \subseteq 0 .. received' /\ heads' \subseteq 0 .. received'
           /\ status' \in {status, "blocked"}
           /\ StreamParts'
<1>0. BaseInv /\ WrittenUpToBase
  BY DEF StreamInv, BaseInv
<1>1. PICK to \in Nat :
          /\ Writes(to, received + n)
          /\ \/ to = base /\ heads' = heads
             \/ to = CommitPoint(received + n) /\ base < to /\ heads' = heads \cup {to}
  BY <1>0, PushWrites
<1>2. /\ received + n \in Nat /\ received' = received + n /\ base' = to /\ to <= received'
      /\ base <= to /\ base \in Nat /\ received \in Nat /\ received <= received'
      /\ hits' = hits /\ folds' = folds
  BY <1>0, <1>1, TextNumbers DEF BaseInv, Writes, TransformSegment
<1>3. /\ received' \in 0 .. TextLength /\ base' \in 0 .. received'
      /\ shown' \in [0 .. TextLength - 1 -> {"held", "raw", "replaced"}]
      /\ tally' \in [Rules -> Nat] /\ status' \in {status, "blocked"}
      /\ HitsKnown' /\ PendingIsHeld' /\ WrittenUpToBase'
  BY <1>0, <1>1, WriteTypes
<1>4. cuts' \subseteq 0 .. received' /\ CutsBehind'
  BY <1>0, <1>2, TextNumbers DEF BaseInv, CutsBehind
<1>5. heads' \subseteq 0 .. received'
  <2>1. heads \subseteq 0 .. received
    BY DEF StreamInv, StreamTypeOK
  <2>2. to \in 0 .. received'
    BY <1>2
  <2>3. heads \subseteq 0 .. received'
    BY <1>2, <2>1
  <2> QED
    BY <1>1, <2>2, <2>3
<1>6. CASE ~Unsevered'
  BY <1>2, <1>3, <1>4, <1>5, <1>6 DEF StreamParts, SameAsOneShot, BlockedNeverShown, EachCountedOnce
<1>7. CASE Unsevered'
  <2>1. TextInv
    <3>1. Unsevered
      BY <1>1, <1>2, <1>7, UnseveredBefore
    <3> QED
      BY <1>0, <3>1 DEF StreamInv, TextInv
  <2>2. /\ Emits(to, received + n)
        /\ folds # {} => to = base
        /\ \A x \in received + n .. TextLength :
               Detect(LastCut, x) = Kept \cup Detect(base, to) \cup Detect(to, x)
    BY <1>1, <1>7, <2>1, PushEmits
  <2>3. BaseSplits'
    BY <1>2, <2>1, <2>2, PushSplits
  <2>4. FoldsWait'
    BY <1>2, <2>1, <2>2 DEF TextInv, FoldsWait, LastCut
  <2>5. SameAsOneShot' /\ BlockedNeverShown' /\ EachCountedOnce'
    BY <2>1, <2>2, EmitShows, EmitCounts
  <2> QED
    BY <1>2, <1>3, <1>4, <1>5, <2>3, <2>4, <2>5 DEF StreamParts
<1> QED
  BY <1>6, <1>7

LEMMA TextAfterFlush ==
    ASSUME StreamInv, Flush, UNCHANGED text, received' = received, heads' = heads
    PROVE  /\ base' = received /\ received' \in 0 .. TextLength /\ base' \in 0 .. received'
           /\ shown' \in [0 .. TextLength - 1 -> {"held", "raw", "replaced"}]
           /\ tally' \in [Rules -> Nat] /\ cuts' \subseteq 0 .. received' /\ heads' \subseteq 0 .. received'
           /\ status' \in {status, "blocked"}
           /\ StreamParts'
<1>0. BaseInv /\ WrittenUpToBase
  BY DEF StreamInv, BaseInv
<1>1. Writes(received, received)
  BY <1>0, FlushWrites
<1>2. base' = received /\ hits' = hits /\ folds' = folds
  BY <1>1 DEF Writes, TransformSegment
<1>3. /\ received' \in 0 .. TextLength /\ base' \in 0 .. received'
      /\ shown' \in [0 .. TextLength - 1 -> {"held", "raw", "replaced"}]
      /\ tally' \in [Rules -> Nat] /\ status' \in {status, "blocked"}
      /\ HitsKnown' /\ PendingIsHeld' /\ WrittenUpToBase'
  BY <1>0, <1>1, WriteTypes
<1>4. cuts' \subseteq 0 .. received' /\ heads' \subseteq 0 .. received'
  BY <1>0, TextNumbers DEF BaseInv, StreamTypeOK, Flush
<1>5. BaseSplits' /\ CutsBehind' /\ FoldsWait'
  BY <1>0, <1>1, FlushSplits
<1>6. CASE ~Unsevered'
  BY <1>2, <1>3, <1>4, <1>5, <1>6 DEF StreamParts, SameAsOneShot, BlockedNeverShown, EachCountedOnce
<1>7. CASE Unsevered'
  <2>1. TextInv
    <3>1. Unsevered
      BY <1>2, <1>7, UnseveredBefore
    <3> QED
      BY <1>0, <3>1 DEF StreamInv, TextInv
  <2>2. SameAsOneShot' /\ BlockedNeverShown' /\ EachCountedOnce'
    BY <1>1, <2>1, FlushEmits, EmitShows, EmitCounts
  <2> QED
    BY <1>2, <1>3, <1>4, <1>5, <2>2 DEF StreamParts
<1> QED
  BY <1>6, <1>7

-----------------------------------------------------------------------------
\* Steps that leave the text alone

TextRests == UNCHANGED <<text, received, base, shown, tally, cuts, heads>>

\* They keep all that the invariant says of it.
LEMMA RestKeepsParts ==
    ASSUME StreamInv, TextRests, status = "blocked" => status' = "blocked"
    PROVE  StreamParts'
<1>0. /\ hits' = hits /\ folds' = folds /\ enforced' = enforced /\ received' = received /\ base' = base
      /\ shown' = shown /\ tally' = tally /\ cuts' = cuts /\ heads' = heads
  BY DEF TextRests, text
<1>1. HitsKnown' /\ CutsBehind' /\ PendingIsHeld' /\ WrittenUpToBase'
  BY <1>0 DEF StreamInv, HitsKnown, CutsBehind, PendingIsHeld, WrittenUpToBase
<1>2. Unsevered' <=> Unsevered
  BY <1>0 DEF Unsevered, Severs
<1>3. LastCut' = LastCut
  BY <1>0 DEF LastCut
<1>4. Unsevered' => BaseSplits' /\ FoldsWait'
  <2>1. Kept' = Kept
    BY <1>0, <1>3, SameDetect DEF Kept, Detect, Found
  <2>2. \A e : Detect(LastCut, e)' = Detect(LastCut, e) /\ Detect(base, e)' = Detect(base, e)
    BY <1>0, <1>3, SameDetect DEF Detect, Found
  <2>3. Unsevered => BaseSplits /\ FoldsWait
    BY DEF StreamInv
  <2> QED
    BY <1>0, <1>2, <1>3, <2>1, <2>2, <2>3 DEF BaseSplits, FoldsWait
<1>5. \A i : OneShot(i)' = OneShot(i)
  BY <1>0, SameDetect DEF OneShot, Detect, Found
<1>6. SameAsOneShot'
  <2>1. \A i : Transformed(OneShot(i), i)' = Transformed(OneShot(i), i)
    BY <1>0, <1>5 DEF Transformed
  <2> QED
    BY <1>0, <1>2, <2>1 DEF StreamInv, SameAsOneShot
<1>7. BlockedNeverShown'
  BY <1>0, <1>2, <1>5 DEF StreamInv, BlockedNeverShown
<1>8. EachCountedOnce'
  <2>1. SUFFICES ASSUME Unsevered', NEW h \in hits
                 PROVE  tally'[h.rule] = IF h.start < base' /\ \E d \in OneShot(h.start)' : d.rule = h.rule
                                         THEN 1 ELSE 0
    BY <1>0 DEF EachCountedOnce
  <2>2. tally[h.rule] = IF h.start < base /\ \E d \in OneShot(h.start) : d.rule = h.rule
                        THEN 1 ELSE 0
    BY <1>2, <2>1 DEF StreamInv, EachCountedOnce
  <2> QED
    BY <1>0, <1>5, <2>2
<1> QED
  BY <1>1, <1>4, <1>6, <1>7, <1>8 DEF StreamParts

-----------------------------------------------------------------------------
\* The invariant of the stream

JsonFrames == [kind : {"json"}, terminates : BOOLEAN, extras : Verdicts, delta : 0 .. MaxDelta]

\* Where handleFrame is after a step, put together from its parts.
TerminatorInHand ==
    frame \in [kind : {"json"}, terminates : {TRUE}, extras : Verdicts, delta : 0 .. MaxDelta]
        /\ framePc \in {"extras", "push"} => base = received

\* The tail is written before the terminator, from where handleFrame is.
LEMMA TailFromParts ==
    ASSUME StreamTypeOK', FrameInHand', WrittenUpToBase', TerminatorInHand'
    PROVE  TailBeforeTerminator'
<1>1. ASSUME status' = "done", NEW i \in 0 .. received' - 1 PROVE shown'[i] # "held"
  <2>1. base' = received' /\ received' \in 0 .. TextLength
    BY <1>1 DEF StreamTypeOK, FrameInHand
  <2>2. i \in DOMAIN shown' /\ i < base'
    <3>1. DOMAIN shown' = 0 .. TextLength - 1
      BY DEF StreamTypeOK
    <3>2. \A m \in Nat : \A k : k \in 0 .. m - 1 => k \in Nat /\ k < m
      OBVIOUS
    <3>3. received' \in Nat /\ received' <= TextLength
      BY <2>1, StreamBounds
    <3>4. i \in Nat /\ i < received'
      BY <1>1, <3>2, <3>3, Zenon
    <3> QED
      BY <2>1, <3>1, <3>3, <3>4, StreamBounds
  <2> QED
    BY <1>1, <2>2 DEF WrittenUpToBase
<1> QED
  BY <1>1 DEF TailBeforeTerminator, TerminatorInHand

\* The invariant holds at first.
LEMMA StreamInvInit ==
    ASSUME StreamInit
    PROVE  StreamInv
<1>1. /\ HitsKnown /\ received = 0 /\ base = 0 /\ cuts = {0} /\ heads = {} /\ framePc = "next" /\ status = "open"
      /\ shown = [i \in 0 .. TextLength - 1 |-> "held"] /\ frame = NoFrame
      /\ tally = [r \in Rules |-> 0] /\ others = 0 /\ enforced \in BOOLEAN
  BY DEF StreamInit, StreamStart, HitsKnown
<1>2. HitsKnown /\ hits \subseteq Matches /\ folds \subseteq Positions
  BY <1>1, TextsAssumption DEF HitsKnown
<1>3. StreamTypeOK
  BY <1>1, <1>2, StreamBounds DEF StreamTypeOK
<1>4. CutsBehind /\ PendingIsHeld /\ WrittenUpToBase /\ FrameInHand
  BY <1>1 DEF CutsBehind, PendingIsHeld, WrittenUpToBase, FrameInHand
<1>5. SameAsOneShot /\ BlockedNeverShown
  BY <1>1 DEF SameAsOneShot, BlockedNeverShown
<1>6. EachCountedOnce
  <2>1. ASSUME NEW h \in hits PROVE tally[h.rule] = 0 /\ ~(h.start < base)
    <3>1. h.rule \in Rules /\ h.start \in Nat
      BY <1>2, HitFields, MatchFields
    <3> QED
      BY <1>1, <3>1
  <2> QED
    BY <2>1 DEF EachCountedOnce
<1>7. TailBeforeTerminator
  BY <1>1 DEF TailBeforeTerminator
<1>8. BaseSplits /\ FoldsWait
  <2>1. LastCut \in cuts
    BY <1>3, <1>4, TextNumbers
  <2>2. LastCut = 0
    BY <1>1, <2>1
  <2>3. Kept = {}
    BY <1>1, <1>2, <2>2, NothingInNothing, StreamBounds DEF Kept
  <2> QED
    BY <1>1, <2>2, <2>3 DEF BaseSplits, FoldsWait
<1> QED
  BY <1>2, <1>3, <1>4, <1>5, <1>6, <1>7, <1>8 DEF StreamInv

\* A step keeps the invariant if it keeps what it says of the text and leaves
\* handleFrame in one of its places.
LEMMA FrameTypes ==
    /\ Frames = [kind : {"control"}] \cup [kind : {"text"}, verdict : Verdicts] \cup JsonFrames
    /\ \A f \in Frames : f.kind = "json" => f \in JsonFrames
    /\ \A f \in Frames : f.kind = "text" => f \in [kind : {"text"}, verdict : Verdicts]
    /\ \A f \in Frames : f.kind \in {"control", "text", "json"}
BY DEF Frames, JsonFrames

\* One lemma for each action.
LEMMA ReadKeeps ==
    ASSUME StreamInv, NEW f \in Frames, Read(f)
    PROVE  StreamInv'
<1>1. StreamParts'
  BY RestKeepsParts DEF Read, TextRests
<1>2. StreamTypeOK'
  <2>1. others' \in 0 .. MaxOthers
    BY StreamBounds DEF Read, StreamInv, StreamTypeOK
  <2>2. framePc' \in {"next", "control", "text", "flush", "extras", "push", "end"}
    BY FrameTypes DEF Read
  <2> QED
    BY <2>1, <2>2 DEF Read, StreamInv, StreamTypeOK, text
<1>3. FrameInHand'
  <2>1. framePc' \in {"flush", "extras", "push"} => f \in JsonFrames /\ received + f.delta <= TextLength
    BY FrameTypes DEF Read
  <2>2. framePc' = "text" => f \in [kind : {"text"}, verdict : Verdicts]
    BY FrameTypes DEF Read
  <2>3. framePc' # "end" /\ status' = "open"
    BY FrameTypes DEF Read
  <2> QED
    BY <2>1, <2>2, <2>3 DEF Read, FrameInHand, JsonFrames
<1>4. TerminatorInHand'
  BY FrameTypes DEF Read, TerminatorInHand
<1> QED
  BY <1>1, <1>2, <1>3, <1>4, TailFromParts DEF StreamInv, StreamParts

LEMMA PassControlKeeps ==
    ASSUME StreamInv, PassControl
    PROVE  StreamInv'
<1>1. StreamParts'
  BY RestKeepsParts DEF PassControl, TextRests
<1>2. StreamTypeOK' /\ FrameInHand' /\ TerminatorInHand'
  BY DEF PassControl, NextFrame, StreamInv, StreamTypeOK, FrameInHand, TerminatorInHand, text
<1> QED
  BY <1>1, <1>2, TailFromParts DEF StreamInv, StreamParts

LEMMA ProtectTextKeeps ==
    ASSUME StreamInv, ProtectText
    PROVE  StreamInv'
<1>1. status = "open" /\ status' \in {"open", "blocked"}
  BY DEF ProtectText, StreamInv, FrameInHand
<1>2. StreamParts'
  BY <1>1, RestKeepsParts DEF ProtectText, TextRests
<1>3. StreamTypeOK' /\ FrameInHand' /\ TerminatorInHand'
  BY <1>1 DEF ProtectText, NextFrame, StreamInv, StreamTypeOK, FrameInHand, TerminatorInHand, text
<1> QED
  BY <1>2, <1>3, TailFromParts DEF StreamInv, StreamParts

LEMMA ProtectFrameExtrasKeeps ==
    ASSUME StreamInv, ProtectFrameExtras
    PROVE  StreamInv'
<1>1. status = "open" /\ status' \in {"open", "blocked"}
  BY DEF ProtectFrameExtras, StreamInv, FrameInHand
<1>2. StreamParts'
  BY <1>1, RestKeepsParts DEF ProtectFrameExtras, TextRests
<1>3. StreamTypeOK'
  BY <1>1 DEF ProtectFrameExtras, NextFrame, StreamInv, StreamTypeOK, text
<1>4. FrameInHand'
  BY <1>1 DEF ProtectFrameExtras, NextFrame, StreamInv, FrameInHand
<1>5. TerminatorInHand'
  <2>1. TerminatorInHand
    BY DEF StreamInv, TailBeforeTerminator, TerminatorInHand
  <2> QED
    BY <2>1 DEF ProtectFrameExtras, NextFrame, TerminatorInHand
<1> QED
  BY <1>2, <1>3, <1>4, <1>5, TailFromParts DEF StreamInv, StreamParts

LEMMA FinishKeeps ==
    ASSUME StreamInv, FinishStream
    PROVE  StreamInv'
<1>1. StreamParts'
  BY RestKeepsParts DEF FinishStream, TextRests
<1>2. StreamTypeOK' /\ FrameInHand' /\ TerminatorInHand'
  BY DEF FinishStream, StreamInv, StreamTypeOK, FrameInHand, TerminatorInHand, text
<1> QED
  BY <1>1, <1>2, TailFromParts DEF StreamInv, StreamParts

LEMMA ThrowsKeeps ==
    ASSUME StreamInv, Throws
    PROVE  StreamInv'
<1>1. StreamParts'
  BY RestKeepsParts DEF Throws, TextRests
<1>2. StreamTypeOK' /\ FrameInHand' /\ TerminatorInHand'
  BY DEF Throws, NextFrame, StreamInv, StreamTypeOK, FrameInHand, TerminatorInHand, text
<1> QED
  BY <1>1, <1>2, TailFromParts DEF StreamInv, StreamParts

LEMMA FlushHeldTailKeeps ==
    ASSUME StreamInv, FlushHeldTail
    PROVE  StreamInv'
<1>1. status = "open" /\ received \in Nat
  BY DEF StreamInv, FlushHeldTail, FrameInHand, StreamTypeOK
<1>2. /\ Flush /\ UNCHANGED text /\ received' = received /\ heads' = heads /\ others' = others
      /\ hits' = hits /\ folds' = folds /\ enforced' = enforced
  BY DEF FlushHeldTail, text
<1>3. /\ base' = received /\ received' \in 0 .. TextLength /\ base' \in 0 .. received'
      /\ shown' \in [0 .. TextLength - 1 -> {"held", "raw", "replaced"}]
      /\ tally' \in [Rules -> Nat] /\ cuts' \subseteq 0 .. received' /\ heads' \subseteq 0 .. received'
      /\ status' \in {status, "blocked"}
      /\ StreamParts'
  BY <1>2, TextAfterFlush
<1>4. StreamTypeOK'
  BY <1>1, <1>2, <1>3 DEF FlushHeldTail, NextFrame, StreamInv, StreamTypeOK
<1>5. FrameInHand'
  BY <1>1, <1>2, <1>3 DEF FlushHeldTail, NextFrame, StreamInv, FrameInHand
<1>6. TerminatorInHand'
  BY <1>2, <1>3 DEF TerminatorInHand
<1> QED
  BY <1>3, <1>4, <1>5, <1>6, TailFromParts DEF StreamInv, StreamParts

LEMMA EndOfStreamKeeps ==
    ASSUME StreamInv, EndOfStream
    PROVE  StreamInv'
<1>1. status = "open" /\ received \in Nat
  BY DEF StreamInv, EndOfStream, StreamTypeOK
<1>2. /\ Flush /\ UNCHANGED text /\ received' = received /\ heads' = heads /\ others' = others
      /\ hits' = hits /\ folds' = folds /\ enforced' = enforced
  BY DEF EndOfStream, text
<1>3. /\ base' = received /\ received' \in 0 .. TextLength /\ base' \in 0 .. received'
      /\ shown' \in [0 .. TextLength - 1 -> {"held", "raw", "replaced"}]
      /\ tally' \in [Rules -> Nat] /\ cuts' \subseteq 0 .. received' /\ heads' \subseteq 0 .. received'
      /\ status' \in {status, "blocked"}
      /\ StreamParts'
  BY <1>2, TextAfterFlush
<1>4. StreamTypeOK'
  BY <1>1, <1>2, <1>3 DEF EndOfStream, StreamInv, StreamTypeOK
<1>5. FrameInHand'
  BY <1>1, <1>2, <1>3 DEF EndOfStream, FrameInHand
<1>6. TerminatorInHand'
  BY <1>2, <1>3 DEF TerminatorInHand
<1> QED
  BY <1>3, <1>4, <1>5, <1>6, TailFromParts DEF StreamInv, StreamParts

LEMMA PushDeltaKeeps ==
    ASSUME StreamInv, PushDelta
    PROVE  StreamInv'
<1>1. status = "open"
  BY DEF StreamInv, PushDelta, FrameInHand
<1>2. PICK n \in Nat : n = frame.delta /\ received + n <= TextLength
  <2>1. frame \in JsonFrames /\ received + frame.delta <= TextLength
    BY DEF PushDelta, StreamInv, FrameInHand, JsonFrames
  <2>2. frame.delta \in Nat
    BY <2>1, StreamBounds DEF JsonFrames
  <2> QED
    BY <2>1, <2>2
<1>3. /\ Push(n) /\ UNCHANGED text /\ cuts' = cuts /\ others' = others
      /\ frame' = NoFrame /\ framePc' = "next"
      /\ hits' = hits /\ folds' = folds /\ enforced' = enforced
  BY <1>2 DEF PushDelta, NextFrame, text
<1>4. /\ received' \in 0 .. TextLength /\ base' \in 0 .. received'
      /\ shown' \in [0 .. TextLength - 1 -> {"held", "raw", "replaced"}]
      /\ tally' \in [Rules -> Nat] /\ cuts' \subseteq 0 .. received' /\ heads' \subseteq 0 .. received'
      /\ status' \in {status, "blocked"}
      /\ StreamParts'
  BY <1>2, <1>3, TextAfterPush
<1>5. StreamTypeOK' /\ FrameInHand' /\ TerminatorInHand'
  BY <1>1, <1>3, <1>4 DEF StreamInv, StreamTypeOK, FrameInHand, TerminatorInHand
<1> QED
  BY <1>4, <1>5, TailFromParts DEF StreamInv, StreamParts

\* Every step keeps the invariant.
LEMMA StreamStep ==
    ASSUME StreamInv, [StreamNext]_streamVars
    PROVE  StreamInv'
<1>1. CASE UNCHANGED streamVars
  <2>1. StreamParts'
    BY <1>1, RestKeepsParts DEF streamVars, TextRests
  <2>2. StreamTypeOK' /\ FrameInHand' /\ TailBeforeTerminator'
    BY <1>1 DEF streamVars, StreamInv, StreamTypeOK, FrameInHand, TailBeforeTerminator, text
  <2> QED
    BY <2>1, <2>2 DEF StreamInv, StreamParts
<1> QED
  BY <1>1, ReadKeeps, PassControlKeeps, ProtectTextKeeps, FlushHeldTailKeeps,
     ProtectFrameExtrasKeeps, PushDeltaKeeps, EndOfStreamKeeps, FinishKeeps, ThrowsKeeps DEF StreamNext

\* The invariant holds of every stream.
LEMMA StreamInvHolds == StreamSpec => []StreamInv
<1>1. StreamInit => StreamInv
  BY StreamInvInit
<1>2. StreamInv /\ [StreamNext]_streamVars => StreamInv'
  BY StreamStep
<1> QED
  BY <1>1, <1>2, PTL DEF StreamSpec

\* Type correctness of the stream, for every text, every way to cut it into
\* frames and every set of rules.
THEOREM StreamTyped == StreamSpec => []StreamTypeOK
<1>1. StreamInv => StreamTypeOK
  BY DEF StreamInv
<1> QED
  BY <1>1, StreamInvHolds, PTL

\* The only way in which framing changes the output is a head of pending cut off
\* in the context of a match.  Whatever the length of the text, the window
\* (maxMatchBytes), the rules, where their matches begin, fit, grow and end and
\* what around them they are found by, and however the text is cut into frames
\* and flushed: as long as push has severed no context (Unsevered), each
\* character that reaches the client is the one that protecting the text between
\* two flushes in one piece would have given.
THEOREM WindowIsSound == StreamSpec => []SameAsOneShot
<1>1. StreamInv => SameAsOneShot
  BY DEF StreamInv
<1> QED
  BY <1>1, StreamInvHolds, PTL

\* In an enforcing mode, as long as push has severed no context, no character of
\* a match that is to be blocked is written, not even the part that arrived in
\* an earlier frame.
THEOREM BlockedStaysHeld == StreamSpec => []BlockedNeverShown
<1>1. StreamInv => BlockedNeverShown
  BY DEF StreamInv
<1> QED
  BY <1>1, StreamInvHolds, PTL

\* The held tail is written before a terminating frame and before the end of
\* the stream (flushHeldTail, the last flush).
THEOREM TailComesFirst == StreamSpec => []TailBeforeTerminator
<1>1. StreamInv => TailBeforeTerminator
  BY DEF StreamInv
<1> QED
  BY <1>1, StreamInvHolds, PTL

\* As long as push has severed no context, the summary of the stream counts each
\* detection of the emitted text once, whatever push saw of it while it was held.
THEOREM CountedOnce == StreamSpec => []EachCountedOnce
<1>1. StreamInv => EachCountedOnce
  BY DEF StreamInv
<1> QED
  BY <1>1, StreamInvHolds, PTL
=============================================================================
