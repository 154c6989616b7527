--------------------------- MODULE ConfigLoadProofs ---------------------------
(***************************************************************************)
(* Proofs about ConfigLoad for any files, environment and durations.  The  *)
(* invariant follows a file through its load: the configuration in force   *)
(* is what its file loads to, and what is being built has passed the       *)
(* comparison with what the process was started with.                      *)
(*                                                                         *)
(* Texts are sequences of any length, so most of the work is about the     *)
(* operators of ConfigText and MuxPatterns.  Where an operator is          *)
(* recursive, a claim about all positions of a text is proved at the last  *)
(* position where it fails.                                                *)
(***************************************************************************)
EXTENDS ConfigLoad, SequenceTheorems, WellFoundedInduction, TLAPS

(* What a file comes to, once expanded and normalised. *)
Loaded(f) == Normalized(ExpandConfigEnv(f))

Checked == {"normalized", "valid", "building", "panicked", "refused"}
LoadInv ==
  /\ stage = "read" => cfg = file
  /\ stage = "expanded" => cfg = ExpandConfigEnv(file)
  /\ stage \in Checked => cfg = Loaded(file)
  /\ Running => current = Loaded(source)

FixedInv ==
  /\ FixedUntilRestart
  /\ stage = "building" /\ Running => FixedFields(cfg) = started
  /\ SameFileReloads

(* What is built was validated, and the mux has the patterns of the system *)
(* routes and of the routes registered so far.                             *)
RegisteredPatterns(c, n) ==
  SystemPatterns \cup UNION {RoutePatterns(c.routes[k].prefix) : k \in 1 .. n}

BuildInv ==
  /\ file \in Configs
  /\ stage \in {"valid", "building", "panicked"} => Valid(cfg)
  /\ stage = "building" =>
       built \in 0 .. Len(cfg.routes) /\ patterns = RegisteredPatterns(cfg, built)
  /\ PanicsExplained

IInv == LoadInv /\ FixedInv /\ BuildInv
-----------------------------------------------------------------------------
(* Induction as the search for a least or a greatest counterexample. *)
LEMMA LeastOf ==
  ASSUME NEW T \in SUBSET Nat, T # {}
  PROVE  \E x \in T : \A y \in T : x <= y
<1>1. PICK x \in T : \A y \in T : ~(<<y, x>> \in OpToRel(<, Nat))
  BY WFMin, NatLessThanWellFounded
<1>2. \A y \in Nat : y < x => <<y, x>> \in OpToRel(<, Nat)
  BY Zenon DEF OpToRel
<1>3. \A y \in T : ~(y < x)
  BY <1>1, <1>2
<1>4. QED
  BY <1>3

LEMMA GreatestOf ==
  ASSUME NEW n \in Nat, NEW T \in SUBSET (0 .. n), T # {}
  PROVE  \E x \in T : \A y \in T : x >= y
<1> DEFINE U == {m \in Nat : n - m \in T}
<1>1. U # {}
  <2>1. PICK y \in T : TRUE
    OBVIOUS
  <2>2. n - y \in U
    BY <2>1
  <2>3. QED
    BY <2>2
<1>2. PICK m \in U : \A k \in U : m <= k
  BY <1>1, LeastOf
<1>3. \A y \in T : n - m >= y
  <2> TAKE y \in T
  <2>1. n - y \in U
    OBVIOUS
  <2>2. QED
    BY <1>2, <2>1
<1>4. QED
  BY <1>2, <1>3
-----------------------------------------------------------------------------
(* Texts *)

LEMMA TrimRightText ==
  ASSUME NEW text \in Strings, NEW cutset
  PROVE  LET t == TrimRight(text, cutset)
         IN  /\ t \in Strings
             /\ t # Empty => t[Len(t)] \notin cutset
<1> DEFINE I == {i \in 1 .. Len(text) : text[i] \notin cutset}
           n == SelectLastInSeq(text, LAMBDA c : c \notin cutset)
<1>1. n = IF I # {} THEN Max(I) ELSE 0
  BY DEF SelectLastInSeq
<1>2. n = 0 \/ n \in I
  <2>1. CASE I = {}
    BY <1>1, <2>1
  <2>2. CASE I # {}
    <3>1. Len(text) \in Nat /\ I \in SUBSET (0 .. Len(text))
      BY DEF Strings
    <3>2. \E x \in I : \A y \in I : x >= y
      BY <2>2, <3>1, GreatestOf
    <3>3. QED
      BY <1>1, <2>2, <3>2 DEF Max
  <2>3. QED
    BY <2>1, <2>2
<1> HIDE DEF n
<1>3. TrimRight(text, cutset) = SubSeq(text, 1, n)
  BY DEF TrimRight, n
<1>4. QED
  BY <1>2, <1>3 DEF Strings, Empty

(* What is left from the first token outside of cutset on. *)
DropLeft(t, cutset) == SubSeq(t, SelectInSeq(t, LAMBDA c : c \notin cutset), Len(t))

LEMMA DropLeftText ==
  ASSUME NEW t \in Strings, NEW cutset, t # Empty, t[Len(t)] \notin cutset
  PROVE  DropLeft(t, cutset) \in Strings
<1> DEFINE I == {i \in 1 .. Len(t) : t[i] \notin cutset}
           n == SelectInSeq(t, LAMBDA c : c \notin cutset)
<1>1. n = IF I # {} THEN Min(I) ELSE 0
  BY DEF SelectInSeq
<1>2. Len(t) \in I /\ I \in SUBSET Nat
  BY DEF Strings, Empty
<1>3. \E x \in I : \A y \in I : x <= y
  BY <1>2, LeastOf
<1>4. n \in I
  BY <1>1, <1>2, <1>3 DEF Min
<1>5. DropLeft(t, cutset) = SubSeq(t, n, Len(t))
  BY DEF DropLeft
<1> HIDE DEF n
<1>6. QED
  BY <1>4, <1>5 DEF Strings

LEMMA TrimSpaceText ==
  ASSUME NEW text \in Strings
  PROVE  TrimSpace(text) \in Strings
<1> DEFINE t == TrimRight(text, White)
<1>1. TrimSpace(text) = IF t = Empty THEN Empty ELSE DropLeft(t, White)
  BY DEF TrimSpace, DropLeft
<1>2. Empty \in Strings
  BY DEF Empty, Strings
<1>3. QED
  BY <1>1, <1>2, TrimRightText, DropLeftText

(* A token before or after a text. *)
LEMMA TokenAdded ==
  ASSUME NEW t \in Strings, NEW c \in Tokens
  PROVE  /\ <<c>> \o t \in Strings /\ <<c>> \o t # Empty
         /\ t \o <<c>> \in Strings /\ t \o <<c>> # Empty
         /\ (t \o <<c>>)[Len(t \o <<c>>)] = c
  BY DEF Strings, Empty

LEMMA HasPrefixSlash ==
  ASSUME NEW text \in Strings
  PROVE  HasPrefix(text, Slash) <=> text # Empty /\ text[1] = "/"
  BY DEF HasPrefix, IsPrefix, Slash, Strings, Empty

LEMMA HasSuffixSlash ==
  ASSUME NEW text \in Strings
  PROVE  HasSuffix(text, Slash) <=> text # Empty /\ text[Len(text)] = "/"
  BY DEF HasSuffix, IsSuffix, IsPrefix, Reverse, Slash, Strings, Empty

LEMMA LeadingSlashText ==
  ASSUME NEW text \in Strings
  PROVE  LET t == WithLeadingSlash(text) IN t \in Strings /\ t # Empty /\ t[1] = "/"
<1>1. "/" \in Tokens
  BY TextAssumption DEF Delimiters
<1>2. CASE HasPrefix(text, Slash)
  BY <1>2, HasPrefixSlash DEF WithLeadingSlash
<1>3. CASE ~HasPrefix(text, Slash)
  <2>1. Slash \o text \in Strings /\ Slash \o text # Empty
    BY <1>1, TokenAdded DEF Slash
  <2>2. (Slash \o text)[1] = "/"
    BY <1>1 DEF Slash, Strings
  <2>3. QED
    BY <1>3, <2>1, <2>2 DEF WithLeadingSlash
<1>4. QED
  BY <1>2, <1>3

(* A text that begins with a slash, and one that also ends in one. *)
Rooted(t) == t \in Strings /\ t # Empty /\ t[1] = "/"
Subtree(t) == Rooted(t) /\ t[Len(t)] = "/"

(* A normalised prefix begins and ends with a slash ... *)
LEMMA PrefixText ==
  ASSUME NEW text \in Strings
  PROVE  Subtree(NormalizePrefix(text))
<1> DEFINE p == WithLeadingSlash(TrimSpace(text))
<1>1. p \in Strings /\ p # Empty /\ p[1] = "/"
  BY TrimSpaceText, LeadingSlashText
<1>2. NormalizePrefix(text) = IF HasSuffix(p, Slash) THEN p ELSE p \o Slash
  BY DEF NormalizePrefix
<1> HIDE DEF p
<1>3. CASE HasSuffix(p, Slash)
  BY <1>1, <1>2, <1>3, HasSuffixSlash DEF Subtree, Rooted
<1>4. CASE ~HasSuffix(p, Slash)
  <2>1. "/" \in Tokens
    BY TextAssumption DEF Delimiters
  <2>2. /\ p \o Slash \in Strings /\ p \o Slash # Empty
        /\ (p \o Slash)[Len(p \o Slash)] = "/"
    BY <1>1, <2>1, TokenAdded DEF Slash
  <2>3. (p \o Slash)[1] = "/"
    BY <1>1, <2>1 DEF Slash, Strings, Empty
  <2>4. QED
    BY <1>2, <1>4, <2>2, <2>3 DEF Subtree, Rooted
<1>5. QED
  BY <1>3, <1>4

(* ... and a normalised stripPrefix does not, unless it is one. *)
LEMMA StripPrefixText ==
  ASSUME NEW text \in Strings
  PROVE  LET q == NormalizeStripPrefix(text)
         IN  q \in Strings /\ (q = Slash \/ q = Empty \/ q[Len(q)] # "/")
<1> DEFINE p == WithLeadingSlash(TrimSpace(text))
<1>1. p \in Strings
  BY TrimSpaceText, LeadingSlashText
<1>2. NormalizeStripPrefix(text) = IF p = Slash THEN p ELSE TrimRight(p, {"/"})
  BY DEF NormalizeStripPrefix
<1> HIDE DEF p
<1>3. QED
  BY <1>1, <1>2, TrimRightText
-----------------------------------------------------------------------------
(* Expansion *)

Results == [ok : BOOLEAN, text : Strings]

(* The first } from i on is not before i. *)
LEMMA ClosingBound ==
  ASSUME NEW v \in Strings, NEW i \in Nat \ {0}, Closing(v, i) # 0
  PROVE  Closing(v, i) \in i .. Len(v)
<1> DEFINE I == {k \in i .. Len(v) : v[k] = "}"}
<1>1. Closing(v, i) = IF I # {} THEN Min(I) ELSE 0
  BY DEF Closing, SelectInSubSeq
<1>2. I \in SUBSET Nat /\ I # {}
  <2>1. I # {}
    BY <1>1
  <2>2. \A k \in i .. Len(v) : k \in Nat
    OBVIOUS
  <2>3. QED
    BY <2>1, <2>2
<1>3. \E x \in I : \A y \in I : x <= y
  BY <1>2, LeastOf
<1>4. QED
  BY <1>1, <1>2, <1>3 DEF Min

LEMMA PieceEndBound ==
  ASSUME NEW v \in Strings, NEW i \in 1 .. Len(v)
  PROVE  PieceEnd(v, i) \in i .. Len(v)
<1>0. Len(v) \in Nat
  BY DEF Strings
<1>1. CASE ~OpensExpression(v, i)
  BY <1>0, <1>1 DEF PieceEnd
<1>2. CASE Unclosed(v, i)
  BY <1>0, <1>2 DEF PieceEnd, Unclosed
<1>3. CASE OpensExpression(v, i) /\ ~Unclosed(v, i)
  <2>1. PieceEnd(v, i) = Closing(v, i + 2) /\ Closing(v, i + 2) # 0
    BY <1>3 DEF PieceEnd, Unclosed
  <2>2. Closing(v, i + 2) \in (i + 2) .. Len(v)
    BY <2>1, ClosingBound
  <2>3. QED
    BY <2>1, <2>2
<1>4. QED
  BY <1>1, <1>2, <1>3 DEF Unclosed

LEMMA ResultTypes ==
  /\ Failed \in Results
  /\ \A t \in Strings : Text(t) \in Results
  /\ \A x \in Results, y \in Results : Joined(x, y) \in Results
<1>1. Failed \in Results
  BY DEF Failed, Results, Empty, Strings
<1>2. \A t \in Strings : Text(t) \in Results
  BY DEF Text, Results
<1>3. ASSUME NEW x \in Results, NEW y \in Results PROVE Joined(x, y) \in Results
  <2>1. x.text \in Strings /\ y.text \in Strings
    BY DEF Results
  <2>2. x.text \o y.text \in Strings
    BY <2>1 DEF Strings
  <2>3. QED
    BY <1>1, <1>2, <2>2 DEF Joined
<1>4. QED
  BY <1>1, <1>2, <1>3

LEMMA ExpressionType ==
  ASSUME NEW e \in Strings
  PROVE  ExpandEnvExpression(e) \in Results
<1> DEFINE expr  == TrimSpace(e)
           I     == {k \in 1 .. Len(expr) : expr[k] = ":"}
           colon == SelectInSeq(expr, LAMBDA c : c = ":")
           split == SplitEnvExpression(expr, colon)
           name  == TrimSpace(split.name)
<1>1. expr \in Strings
  BY TrimSpaceText
<1>2. ExpandEnvExpression(e) = IF name = Empty THEN Failed ELSE LookupEnv(name, split.default)
  BY DEF ExpandEnvExpression
<1>3. colon = IF I # {} THEN Min(I) ELSE 0
  BY DEF SelectInSeq
<1> HIDE DEF expr
<1>4. colon \in 0 .. Len(expr)
  <2>1. CASE I = {}
    <3>1. Len(expr) \in Nat
      BY <1>1 DEF Strings
    <3>2. QED
      BY <1>3, <2>1, <3>1
  <2>2. CASE I # {}
    <3>1. I \in SUBSET Nat
      OBVIOUS
    <3>2. \E x \in I : \A y \in I : x <= y
      BY <2>2, <3>1, LeastOf
    <3>3. QED
      BY <1>3, <2>2, <3>2 DEF Min
  <2>3. QED
    BY <2>1, <2>2
<1> HIDE DEF colon
<1>5. split.default \in Results
  <2>1. CASE colon = 0
    BY <2>1, ResultTypes DEF SplitEnvExpression
  <2>2. CASE colon # 0
    <3>1. SubSeq(expr, colon + 1, Len(expr)) \in Strings
      BY <1>1, <1>4 DEF Strings
    <3>2. QED
      BY <2>2, <3>1, ResultTypes DEF SplitEnvExpression
  <2>3. QED
    BY <2>1, <2>2
<1> HIDE DEF split
<1>6. LookupEnv(name, split.default) \in Results
  BY <1>5, ResultTypes, TextAssumption DEF LookupEnv
<1>7. QED
  BY <1>2, <1>6, ResultTypes

LEMMA PieceType ==
  ASSUME NEW v \in Strings, NEW i \in 1 .. Len(v)
  PROVE  Piece(v, i) \in Results
<1>1. CASE ~OpensExpression(v, i)
  <2>1. <<v[i]>> \in Strings
    BY DEF Strings
  <2>2. QED
    BY <1>1, <2>1, ResultTypes DEF Piece
<1>2. CASE Unclosed(v, i)
  BY <1>2, ResultTypes DEF Piece, Unclosed
<1>3. CASE OpensExpression(v, i) /\ ~Unclosed(v, i)
  <2> DEFINE n == Closing(v, i + 2)
  <2>1. n \in (i + 2) .. Len(v)
    BY <1>3, ClosingBound DEF Unclosed
  <2>2. Piece(v, i) = ExpandEnvExpression(SubSeq(v, i + 2, n - 1))
    BY <1>3 DEF Piece
  <2> HIDE DEF n
  <2>3. SubSeq(v, i + 2, n - 1) \in Strings
    BY <2>1 DEF Strings
  <2>4. QED
    BY <2>2, <2>3, ExpressionType
<1>4. QED
  BY <1>1, <1>2, <1>3 DEF Unclosed

(* f is what the recursion over the pieces of v computes. *)
IsRest(v, f) ==
  f = [i \in 1 .. (Len(v) + 1) |->
         IF i > Len(v) THEN Text(Empty)
         ELSE Joined(Piece(v, i), f[PieceEnd(v, i) + 1])]

LEMMA ExpandIsRest ==
  ASSUME NEW v
  PROVE  ExpandEnvString(v) = (CHOOSE f : IsRest(v, f))[1]
  BY DEF ExpandEnvString, IsRest

(* The recursion has a solution: it is built from the end of the text.     *)
LEMMA RestExists ==
  ASSUME NEW v \in Strings
  PROVE  \E f : IsRest(v, f)
<1> DEFINE L == Len(v) + 1
           Solves(g, k) == \A i \in k .. L :
             g[i] = IF i > Len(v) THEN Text(Empty)
                    ELSE Joined(Piece(v, i), g[PieceEnd(v, i) + 1])
           T == {k \in 1 .. L : ~ \E g : Solves(g, k)}
<1>0. Len(v) \in Nat /\ L \in Nat /\ L > Len(v)
  BY DEF Strings
<1>1. T = {}
  <2> SUFFICES ASSUME T # {} PROVE FALSE
    OBVIOUS
  <2>1. PICK m \in T : \A k \in T : m >= k
    <3>1. T \in SUBSET (0 .. L)
      BY <1>0
    <3>2. QED
      BY <1>0, <3>1, GreatestOf
  <2>2. m \in 1 .. L
    OBVIOUS
  <2>3. CASE m = L
    <3> DEFINE g == [i \in {L} |-> Text(Empty)]
    <3>1. Solves(g, L)
      BY <1>0
    <3>2. QED
      BY <2>1, <2>3, <3>1
  <2>4. CASE m # L
    <3>1. m + 1 \in 1 .. L /\ m + 1 \notin T /\ m \in 1 .. Len(v)
      <4>1. m + 1 \in 1 .. L /\ m \in 1 .. Len(v) /\ ~(m >= m + 1)
        BY <1>0, <2>2, <2>4
      <4> HIDE DEF T
      <4>2. QED
        BY <2>1, <4>1
    <3>2. PICK g : Solves(g, m + 1)
      BY <3>1
    <3> DEFINE h == [i \in m .. L |-> IF i = m THEN Joined(Piece(v, m), g[PieceEnd(v, m) + 1])
                                               ELSE g[i]]
    <3>3. \A i \in m .. Len(v) : PieceEnd(v, i) + 1 \in (m + 1) .. L
                                 /\ PieceEnd(v, i) + 1 # m
      BY <1>0, <3>1, PieceEndBound
    <3>4. \A i \in (m + 1) .. L : h[i] = g[i]
      BY <2>2
    <3>5. h[m] = Joined(Piece(v, m), g[PieceEnd(v, m) + 1])
      BY <2>2
    <3> HIDE DEF h
    <3>6. Solves(h, m)
      <4> TAKE i \in m .. L
      <4>1. CASE i = m
        BY <1>0, <3>1, <3>3, <3>4, <3>5, <4>1
      <4>2. CASE i # m /\ i > Len(v)
        BY <1>0, <3>2, <3>4, <4>2
      <4>3. CASE i # m /\ ~(i > Len(v))
        <5>1. i \in (m + 1) .. L /\ i \in m .. Len(v)
          BY <1>0, <2>2, <4>3
        <5>2. g[i] = Joined(Piece(v, i), g[PieceEnd(v, i) + 1])
          BY <3>2, <4>3, <5>1
        <5>3. h[i] = g[i] /\ h[PieceEnd(v, i) + 1] = g[PieceEnd(v, i) + 1]
          BY <3>3, <3>4, <5>1
        <5>4. QED
          BY <4>3, <5>2, <5>3
      <4>4. QED
        BY <4>1, <4>2, <4>3
    <3>7. QED
      BY <2>1, <3>6
  <2>5. QED
    BY <2>3, <2>4
<1>2. PICK g : Solves(g, 1)
  BY <1>0, <1>1
<1> DEFINE f == [i \in 1 .. L |-> g[i]]
<1>3. \A i \in 1 .. Len(v) : PieceEnd(v, i) + 1 \in 1 .. L
  BY <1>0, PieceEndBound
<1>4. IsRest(v, f)
  <2>1. \A i \in 1 .. L : f[i] = IF i > Len(v) THEN Text(Empty)
                                 ELSE Joined(Piece(v, i), f[PieceEnd(v, i) + 1])
    BY <1>0, <1>2, <1>3
  <2>2. QED
    BY <2>1 DEF IsRest
<1>5. QED
  BY <1>4

(* f solves that recursion. *)
Solves(v, f) ==
  \A i \in 1 .. (Len(v) + 1) :
    f[i] = IF i > Len(v) THEN Text(Empty) ELSE Joined(Piece(v, i), f[PieceEnd(v, i) + 1])

LEMMA RestEquation ==
  ASSUME NEW v \in Strings
  PROVE  \E f : ExpandEnvString(v) = f[1] /\ Solves(v, f)
<1> DEFINE f == CHOOSE g : IsRest(v, g)
<1>1. IsRest(v, f)
  BY RestExists
<1>2. ExpandEnvString(v) = f[1]
  BY ExpandIsRest
<1> HIDE DEF f
<1>3. Solves(v, f)
  BY <1>1 DEF IsRest, Solves
<1>4. QED
  BY <1>2, <1>3

(* What is left of a text from i on is a text or an error. *)
LEMMA RestType ==
  ASSUME NEW v \in Strings, NEW f, Solves(v, f)
  PROVE  \A k \in 1 .. (Len(v) + 1) : f[k] \in Results /\ (f[k].ok = TRUE \/ f[k] = Failed)
<1>2. Len(v) \in Nat /\ Len(v) + 1 \in Nat /\ 1 \in 1 .. (Len(v) + 1)
  BY DEF Strings
<1> DEFINE T == {k \in 1 .. (Len(v) + 1) : f[k] \notin Results}
<1>3. T = {}
  <2> SUFFICES ASSUME T # {} PROVE FALSE
    OBVIOUS
  <2>1. PICK m \in T : \A k \in T : m >= k
    <3>1. T \in SUBSET (0 .. (Len(v) + 1))
      BY <1>2
    <3>2. QED
      BY <1>2, <3>1, GreatestOf
  <2>2. m \in 1 .. (Len(v) + 1) /\ f[m] \notin Results
    OBVIOUS
  <2>3. CASE m > Len(v)
    <3>1. f[m] = Text(Empty)
      BY <2>2, <2>3 DEF Solves
    <3>2. Empty \in Strings
      BY DEF Empty, Strings
    <3>3. QED
      BY <2>2, <3>1, <3>2, ResultTypes
  <2>4. CASE ~(m > Len(v))
    <3> DEFINE e == PieceEnd(v, m) + 1
    <3>1. m \in 1 .. Len(v)
      BY <1>2, <2>2, <2>4
    <3>2. e \in 1 .. (Len(v) + 1) /\ ~(m >= e)
      BY <1>2, <3>1, PieceEndBound
    <3>3. f[m] = Joined(Piece(v, m), f[e])
      BY <2>2, <2>4 DEF Solves
    <3> HIDE DEF e
    <3>4. f[e] \in Results
      BY <2>1, <3>2
    <3>5. QED
      BY <2>2, <3>1, <3>3, <3>4, PieceType, ResultTypes
  <2>5. QED
    BY <2>3, <2>4
<1>4. ASSUME NEW k \in 1 .. (Len(v) + 1) PROVE f[k].ok = TRUE \/ f[k] = Failed
  <2>1. CASE k > Len(v)
    <3>1. f[k] = Text(Empty)
      BY <2>1 DEF Solves
    <3>2. QED
      BY <3>1 DEF Text
  <2>2. CASE ~(k > Len(v))
    <3>1. PICK x, y : f[k] = Joined(x, y)
      BY <2>2 DEF Solves
    <3>2. QED
      BY <3>1 DEF Joined, Text
  <2>3. QED
    BY <2>1, <2>2
<1>5. QED
  BY <1>3, <1>4

(* The expansion of a text is a text or an error. *)
LEMMA ExpansionType ==
  ASSUME NEW v \in Strings
  PROVE  ExpandEnvString(v) \in Results
<1>1. PICK f : ExpandEnvString(v) = f[1] /\ Solves(v, f)
  BY RestEquation
<1>2. 1 \in 1 .. (Len(v) + 1)
  BY DEF Strings
<1>3. QED
  BY <1>1, <1>2, RestType
-----------------------------------------------------------------------------
(* Expansion in parts *)

(* The first position from i to n with the token c, or 0. *)
First(v, i, n, c) ==
  LET I == {k \in i .. n : v[k] = c} IN IF I # {} THEN Min(I) ELSE 0

LEMMA FirstIs ==
  ASSUME NEW v, NEW c, NEW i \in Nat \ {0}, NEW n \in Nat, NEW m \in Nat, i <= m, m <= n,
         v[m] = c, \A k \in Nat : i <= k /\ k < m => v[k] # c
  PROVE  First(v, i, n, c) = m
<1> DEFINE I == {k \in i .. n : v[k] = c}
<1>1. m \in I
  OBVIOUS
<1>2. \A k \in I : k \in Nat /\ m <= k
  OBVIOUS
<1>3. First(v, i, n, c) = Min(I)
  BY <1>1 DEF First
<1> HIDE DEF I
<1>4. Min(I) \in I /\ \A k \in I : Min(I) <= k
  BY <1>1, <1>2 DEF Min
<1>5. Min(I) \in Nat /\ Min(I) <= m /\ m <= Min(I)
  BY <1>1, <1>2, <1>4
<1>6. Min(I) = m
  BY <1>5
<1>7. QED
  BY <1>3, <1>6

LEMMA FirstFound ==
  ASSUME NEW v, NEW c, NEW i \in Nat \ {0}, NEW n \in Nat, NEW m, m = First(v, i, n, c), m # 0
  PROVE  /\ m \in Nat /\ i <= m /\ m <= n /\ v[m] = c
         /\ \A k \in Nat : i <= k /\ k < m => v[k] # c
<1> DEFINE I == {k \in i .. n : v[k] = c}
<1>1. m = Min(I) /\ I # {}
  BY DEF First
<1>2. I \in SUBSET Nat
  OBVIOUS
<1>3. \E x \in I : \A y \in I : x <= y
  BY <1>1, <1>2, LeastOf
<1>4. m \in I /\ \A y \in I : m <= y
  BY <1>1, <1>3 DEF Min
<1>5. QED
  BY <1>4

LEMMA FirstNone ==
  ASSUME NEW v, NEW c, NEW i \in Nat \ {0}, NEW n \in Nat
  PROVE  First(v, i, n, c) = 0 <=> \A k \in Nat : i <= k /\ k <= n => v[k] # c
<1> DEFINE I == {k \in i .. n : v[k] = c}
<1>1. ASSUME First(v, i, n, c) # 0 PROVE \E k \in Nat : i <= k /\ k <= n /\ v[k] = c
  BY <1>1, FirstFound
<1>2. ASSUME NEW k \in Nat, i <= k, k <= n, v[k] = c PROVE First(v, i, n, c) # 0
  <2>1. k \in I /\ I \in SUBSET Nat /\ 0 \notin I
    BY <1>2
  <2>2. First(v, i, n, c) = Min(I)
    BY <2>1 DEF First
  <2> HIDE DEF I
  <2>3. \E x \in I : \A y \in I : x <= y
    BY <2>1, LeastOf
  <2>4. Min(I) \in I
    BY <2>3 DEF Min
  <2>5. QED
    BY <2>1, <2>2, <2>4
<1>3. QED
  BY <1>1, <1>2

LEMMA ClosingIsFirst ==
  ASSUME NEW v, NEW i
  PROVE  Closing(v, i) = First(v, i, Len(v), "}")
  BY DEF Closing, SelectInSubSeq, First

(* Two texts that agree up to a shift: w from m to n, and v from d + m on. *)
LEMMA SubSeqShift ==
  ASSUME NEW v \in Strings, NEW w \in Strings, NEW d \in Nat, NEW m \in Nat \ {0}, NEW n \in Nat,
         n <= Len(w), n + d <= Len(v), m <= n + 1, \A k \in Nat : m <= k /\ k <= n => w[k] = v[d + k]
  PROVE  SubSeq(w, m, n) = SubSeq(v, d + m, d + n)
<1> DEFINE x == SubSeq(w, m, n)
           y == SubSeq(v, d + m, d + n)
<1>1. x \in Strings /\ Len(x) = n + 1 - m /\ \A k \in 1 .. (n + 1 - m) : x[k] = w[m + k - 1]
  BY DEF Strings
<1>2. y \in Strings /\ Len(y) = n + 1 - m /\ \A k \in 1 .. (n + 1 - m) : y[k] = v[d + m + k - 1]
  BY DEF Strings
<1> HIDE DEF x, y
<1>3. \A k \in 1 .. (n + 1 - m) : x[k] = y[k]
  <2> TAKE k \in 1 .. (n + 1 - m)
  <2>1. m + k - 1 \in Nat /\ m <= m + k - 1 /\ m + k - 1 <= n /\ d + (m + k - 1) = d + m + k - 1
    OBVIOUS
  <2>2. QED
    BY <1>1, <1>2, <2>1
<1>4. Len(x) = Len(y) /\ \A k \in 1 .. Len(x) : x[k] = y[k]
  BY <1>1, <1>2, <1>3
<1>5. x = y
  BY <1>1, <1>2, <1>4 DEF Strings
<1>6. QED
  BY <1>5 DEF x, y

(* The first n tokens of w are those of v after d. *)
Agree(w, v, d, n) == \A k \in Nat : 1 <= k /\ k <= n => w[k] = v[d + k]

(* The first c of w from j on is that of v from d + j on. *)
LEMMA FirstShift ==
  ASSUME NEW v, NEW w, NEW c, NEW d \in Nat, NEW j \in Nat \ {0}, NEW n \in Nat,
         NEW N \in Nat, d + n <= N,
         Agree(w, v, d, n),
         NEW m, m = First(w, j, n, c), m # 0
  PROVE  First(v, d + j, N, c) = d + m
<1>1. /\ m \in Nat /\ j <= m /\ m <= n /\ w[m] = c
      /\ \A k \in Nat : j <= k /\ k < m => w[k] # c
  BY FirstFound
<1>2. \A k \in Nat : d + j <= k /\ k < d + m => v[k] # c
  <2> TAKE k \in Nat
  <2> HAVE d + j <= k /\ k < d + m
  <2>1. /\ k - d \in Nat /\ 1 <= k - d /\ j <= k - d /\ k - d < m /\ k - d <= n
        /\ d + (k - d) = k
    BY <1>1
  <2>2. QED
    BY <1>1, <2>1 DEF Agree
<1>3. /\ d + j \in Nat \ {0} /\ d + m \in Nat /\ d + j <= d + m /\ d + m <= N
      /\ v[d + m] = c
  BY <1>1 DEF Agree
<1> DEFINE a == d + j
           b == d + m
<1>4. /\ a \in Nat \ {0} /\ b \in Nat /\ a <= b /\ b <= N /\ v[b] = c
      /\ \A k \in Nat : a <= k /\ k < b => v[k] # c
  BY <1>2, <1>3
<1> HIDE DEF a, b
<1>5. First(v, a, N, c) = b
  BY <1>4, FirstIs
<1>6. QED
  BY <1>5 DEF a, b

(* w stands in v after its first d tokens. *)
StandsIn(w, v, d) ==
  /\ w \in Strings /\ v \in Strings /\ d \in Nat /\ d + Len(w) <= Len(v)
  /\ Agree(w, v, d, Len(w))

(* An expression opens in w where it opens in v, but for a $ that ends w.   *)
LEMMA OpensShift ==
  ASSUME NEW v, NEW w, NEW d, StandsIn(w, v, d), NEW j \in 1 .. Len(w),
         d + Len(w) = Len(v) \/ w[Len(w)] # "$"
  PROVE  OpensExpression(v, d + j) <=> OpensExpression(w, j)
<1>1. /\ Len(w) \in Nat /\ Len(v) \in Nat /\ d \in Nat /\ d + Len(w) <= Len(v)
      /\ j \in Nat /\ 1 <= j /\ j <= Len(w) /\ w[j] = v[d + j]
  BY DEF StandsIn, Strings, Agree
<1>2. CASE j < Len(w)
  <2>1. j + 1 \in Nat /\ 1 <= j + 1 /\ j + 1 <= Len(w) /\ d + (j + 1) = d + j + 1 /\ d + j < Len(v)
    BY <1>1, <1>2
  <2>2. w[j + 1] = v[d + j + 1]
    BY <2>1 DEF StandsIn, Agree
  <2>3. QED
    BY <1>1, <1>2, <2>1, <2>2 DEF OpensExpression
<1>3. CASE j = Len(w)
  <2>1. ~(j < Len(w)) /\ (d + Len(w) = Len(v) => ~(d + j < Len(v)))
    BY <1>1, <1>3
  <2>2. d + Len(w) = Len(v) \/ v[d + j] # "$"
    BY <1>1, <1>3
  <2>3. QED
    BY <2>1, <2>2 DEF OpensExpression
<1>4. QED
  BY <1>1, <1>2, <1>3

(* An expression that is closed in w is closed there in v. *)
LEMMA ClosingShift ==
  ASSUME NEW v, NEW w, NEW d, StandsIn(w, v, d), NEW i \in Nat \ {0},
         NEW m, m = Closing(w, i), m # 0
  PROVE  Closing(v, d + i) = d + m
<1> DEFINE n == Len(w)
           N == Len(v)
           c == "}"
<1>1. /\ n \in Nat /\ N \in Nat /\ d \in Nat /\ d + n <= N
      /\ Agree(w, v, d, n)
  BY DEF StandsIn, Strings
<1>2. m = First(w, i, n, c) /\ Closing(v, d + i) = First(v, d + i, N, c)
  BY ClosingIsFirst
<1> HIDE DEF n, N, c
<1>3. First(v, d + i, N, c) = d + m
  BY <1>1, <1>2, FirstShift
<1>4. QED
  BY <1>2, <1>3

(* An expression that is not closed at the end of v is not in v. *)
LEMMA NoClosingShift ==
  ASSUME NEW v, NEW w, NEW d, StandsIn(w, v, d), NEW i \in Nat \ {0}, d + Len(w) = Len(v),
         Closing(w, i) = 0
  PROVE  Closing(v, d + i) = 0
<1> DEFINE n == Len(w)
           N == Len(v)
           c == "}"
           a == d + i
<1>1. /\ n \in Nat /\ N \in Nat /\ d \in Nat /\ N = d + n /\ a \in Nat \ {0} /\ a = d + i
      /\ Agree(w, v, d, n)
  BY DEF StandsIn, Strings
<1>2. First(w, i, n, c) = 0 /\ Closing(v, a) = First(v, a, N, c)
  BY ClosingIsFirst
<1> HIDE DEF n, N, c, a
<1>3. \A k \in Nat : i <= k /\ k <= n => w[k] # c
  BY <1>1, <1>2, FirstNone
<1>4. \A k \in Nat : a <= k /\ k <= N => v[k] # c
  <2> TAKE k \in Nat
  <2> HAVE a <= k /\ k <= N
  <2>1. k - d \in Nat /\ 1 <= k - d /\ i <= k - d /\ k - d <= n /\ d + (k - d) = k
    BY <1>1
  <2>2. QED
    BY <1>1, <1>3, <2>1 DEF Agree
<1>5. First(v, a, N, c) = 0
  BY <1>1, <1>4, FirstNone
<1>6. QED
  BY <1>2, <1>5 DEF a

(* A piece of w is one of v, if w ends where v does or outside of a piece.  *)
LEMMA PieceShift ==
  ASSUME NEW v, NEW w, NEW d, StandsIn(w, v, d), NEW j \in 1 .. Len(w),
         d + Len(w) = Len(v) \/ (w[Len(w)] # "$" /\ ~Unclosed(w, j))
  PROVE  Piece(v, d + j) = Piece(w, j) /\ PieceEnd(v, d + j) = d + PieceEnd(w, j)
<1>1. /\ Len(w) \in Nat /\ Len(v) \in Nat /\ d \in Nat /\ d + Len(w) <= Len(v)
      /\ j \in Nat /\ 1 <= j /\ j <= Len(w) /\ w[j] = v[d + j] /\ w \in Strings /\ v \in Strings
  BY DEF StandsIn, Strings, Agree
<1>2. OpensExpression(v, d + j) <=> OpensExpression(w, j)
  BY OpensShift
<1>3. j + 2 \in Nat \ {0} /\ d + (j + 2) = d + j + 2
  BY <1>1
<1>4. CASE ~OpensExpression(w, j)
  <2> DEFINE a == d + j
  <2>1. ~OpensExpression(v, a) /\ v[a] = w[j]
    BY <1>1, <1>2, <1>4
  <2> HIDE DEF a
  <2>2. Piece(v, a) = Piece(w, j) /\ PieceEnd(v, a) = a /\ PieceEnd(w, j) = j
    BY <1>4, <2>1 DEF Piece, PieceEnd, Unclosed
  <2>3. QED
    BY <2>2 DEF a
<1>5. CASE Unclosed(w, j)
  <2>1. Closing(v, d + (j + 2)) = 0
    BY <1>3, <1>5, NoClosingShift DEF Unclosed
  <2>2. Unclosed(v, d + j) /\ OpensExpression(v, d + j) /\ OpensExpression(w, j)
    BY <1>2, <1>3, <1>5, <2>1 DEF Unclosed
  <2>3. QED
    BY <1>5, <2>2 DEF Piece, PieceEnd
<1>6. CASE OpensExpression(w, j) /\ ~Unclosed(w, j)
  <2> DEFINE m == Closing(w, j + 2)
  <2>1. m # 0
    BY <1>6 DEF Unclosed
  <2>2. Closing(v, d + j + 2) = d + m
    BY <1>3, <2>1, ClosingShift
  <2>3. m \in (j + 2) .. Len(w)
    BY <1>1, <1>3, <2>1, ClosingBound
  <2>4. /\ Piece(w, j) = ExpandEnvExpression(SubSeq(w, j + 2, m - 1))
        /\ PieceEnd(w, j) = m
    BY <1>6 DEF Piece, PieceEnd
  <2> HIDE DEF m
  <2>5. d + m # 0
    BY <1>1, <1>3, <2>3
  <2>6. OpensExpression(v, d + j) /\ ~Unclosed(v, d + j)
    BY <1>2, <1>6, <2>2, <2>5 DEF Unclosed
  <2>7. /\ Piece(v, d + j) = ExpandEnvExpression(SubSeq(v, d + j + 2, (d + m) - 1))
        /\ PieceEnd(v, d + j) = d + m
    BY <2>2, <2>6 DEF Piece, PieceEnd
  <2>8. SubSeq(w, j + 2, m - 1) = SubSeq(v, d + (j + 2), d + (m - 1))
    <3> DEFINE a == j + 2
               b == m - 1
    <3>1. /\ a \in Nat \ {0} /\ b \in Nat /\ b <= Len(w) /\ b + d <= Len(v) /\ a <= b + 1
          /\ \A k \in Nat : a <= k /\ k <= b => 1 <= k /\ k <= Len(w)
      BY <1>1, <2>3
    <3> HIDE DEF a, b
    <3>2. \A k \in Nat : a <= k /\ k <= b => w[k] = v[d + k]
      BY <3>1 DEF StandsIn, Agree
    <3>3. SubSeq(w, a, b) = SubSeq(v, d + a, d + b)
      BY <1>1, <3>1, <3>2, SubSeqShift
    <3>4. QED
      BY <3>3 DEF a, b
  <2>9. d + (j + 2) = d + j + 2 /\ d + (m - 1) = (d + m) - 1
    BY <1>1, <2>3
  <2>10. QED
    BY <2>4, <2>7, <2>8, <2>9
<1>7. QED
  BY <1>4, <1>5, <1>6 DEF Unclosed

(* What is left of v after an equal token is left of w after it. *)
LEMMA SuffixExpansion ==
  ASSUME NEW v, NEW w, NEW d, StandsIn(w, v, d), d + Len(w) = Len(v),
         NEW f, Solves(v, f), NEW g, Solves(w, g)
  PROVE  \A j \in 1 .. (Len(w) + 1) : f[d + j] = g[j]
<1> DEFINE n == Len(w)
           T == {j \in 1 .. (n + 1) : f[d + j] # g[j]}
<1>1. n \in Nat /\ n + 1 \in Nat /\ d \in Nat /\ Len(v) = d + n /\ w \in Strings
  BY DEF StandsIn, Strings
<1> HIDE DEF n
<1>2. T = {}
  <2> SUFFICES ASSUME T # {} PROVE FALSE
    OBVIOUS
  <2>1. PICK m \in T : \A k \in T : m >= k
    <3>1. T \in SUBSET (0 .. (n + 1))
      BY <1>1
    <3> HIDE DEF T
    <3>2. QED
      BY <1>1, <3>1, GreatestOf
  <2>2. m \in 1 .. (n + 1) /\ f[d + m] # g[m]
    OBVIOUS
  <2>3. CASE m = n + 1
    <3>1. g[m] = Text(Empty)
      BY <1>1, <2>2, <2>3 DEF Solves, n
    <3> DEFINE x == d + m
    <3>2. x \in 1 .. (Len(v) + 1) /\ x > Len(v)
      BY <1>1, <2>3
    <3> HIDE DEF x
    <3>3. f[x] = Text(Empty)
      BY <3>2 DEF Solves
    <3>4. QED
      BY <2>2, <3>1, <3>3 DEF x
  <2>4. CASE m # n + 1
    <3> DEFINE x == d + m
               e == PieceEnd(w, m)
    <3>1. m \in 1 .. n /\ m \in 1 .. (Len(w) + 1) /\ ~(m > Len(w)) /\ m \in 1 .. Len(w)
      BY <1>1, <2>2, <2>4 DEF n
    <3>2. x \in 1 .. (Len(v) + 1) /\ ~(x > Len(v))
      BY <1>1, <3>1
    <3>3. e \in m .. n
      BY <1>1, <3>1, PieceEndBound DEF n
    <3>4. Piece(v, x) = Piece(w, m) /\ PieceEnd(v, x) = d + e
      BY <1>1, <3>1, PieceShift
    <3>5. g[m] = Joined(Piece(w, m), g[e + 1])
      BY <3>1 DEF Solves
    <3> HIDE DEF x, e
    <3>6. f[x] = Joined(Piece(v, x), f[PieceEnd(v, x) + 1])
      BY <3>2 DEF Solves
    <3>7. e + 1 \in 1 .. (n + 1) /\ ~(m >= e + 1) /\ d + (e + 1) = (d + e) + 1
      BY <1>1, <3>1, <3>3
    <3>8. f[d + (e + 1)] = g[e + 1]
      BY <2>1, <3>7
    <3>9. f[x] = g[m]
      BY <3>4, <3>5, <3>6, <3>7, <3>8
    <3>10. QED
      BY <2>2, <3>9 DEF x
  <2>5. QED
    BY <2>3, <2>4
<1>3. QED
  BY <1>2 DEF n

(* Results are joined from the left or from the right. *)
LEMMA JoinedText ==
  ASSUME NEW x \in Results, x.ok = TRUE
  PROVE  x = Text(x.text) /\ x.text \in Strings
  BY DEF Results, Text

LEMMA JoinedEmpty ==
  ASSUME NEW y \in Results, y.ok = TRUE \/ y = Failed
  PROVE  Joined(Text(Empty), y) = y
<1>1. CASE y.ok = TRUE
  <2>1. y = Text(y.text) /\ y.text \in Strings
    BY <1>1, JoinedText
  <2>2. Empty \o y.text = y.text
    BY <2>1 DEF Empty, Strings
  <2>3. QED
    BY <1>1, <2>1, <2>2 DEF Joined, Text
<1>2. CASE y = Failed
  BY <1>2 DEF Joined, Failed
<1>3. QED
  BY <1>1, <1>2

LEMMA ConcatAssociates ==
  ASSUME NEW s \in Strings, NEW t \in Strings, NEW u \in Strings
  PROVE  (s \o t) \o u = s \o (t \o u)
  BY DEF Strings

LEMMA JoinedAssociates ==
  ASSUME NEW p \in Results, NEW x \in Results, p.ok = TRUE, x.ok = TRUE,
         NEW y \in Results, y.ok = TRUE \/ y = Failed
  PROVE  Joined(p, Joined(x, y)) = Joined(Joined(p, x), y)
<1>1. p.text \in Strings /\ x.text \in Strings /\ y.text \in Strings
  BY DEF Results
<1>2. CASE y.ok = TRUE
  BY <1>1, <1>2, ConcatAssociates DEF Joined, Text
<1>3. CASE y = Failed
  BY <1>3 DEF Joined, Failed
<1>4. QED
  BY <1>2, <1>3

LEMMA JoinedOk ==
  ASSUME NEW x \in Results, NEW y \in Results, Joined(x, y).ok = TRUE
  PROVE  x.ok = TRUE /\ y.ok = TRUE
  BY DEF Results, Joined, Failed

(* An expression that is not closed is an error. *)
LEMMA UnclosedFails ==
  ASSUME NEW v, NEW i, Piece(v, i).ok = TRUE
  PROVE  ~Unclosed(v, i)
  BY DEF Piece, Unclosed, Failed

(* A text is expanded in parts: a, which ends outside of an expression, and *)
(* what follows it.                                                         *)
LEMMA PartsExpansion ==
  ASSUME NEW s, NEW a, NEW b, StandsIn(a, s, 0), StandsIn(b, s, Len(a)),
         Len(a) + Len(b) = Len(s), a[Len(a)] # "$", ExpandEnvString(a).ok = TRUE
  PROVE  ExpandEnvString(s) = Joined(ExpandEnvString(a), ExpandEnvString(b))
<1>1. s \in Strings /\ a \in Strings /\ b \in Strings
  BY DEF StandsIn
<1>2. PICK fs : ExpandEnvString(s) = fs[1] /\ Solves(s, fs)
  BY <1>1, RestEquation
<1>3. PICK fa : ExpandEnvString(a) = fa[1] /\ Solves(a, fa)
  BY <1>1, RestEquation
<1>4. PICK fb : ExpandEnvString(b) = fb[1] /\ Solves(b, fb)
  BY <1>1, RestEquation
<1> DEFINE n == Len(a)
           y == fb[1]
           T == {k \in 1 .. (n + 1) : fa[k].ok = TRUE /\ fs[k] # Joined(fa[k], y)}
<1>5. n \in Nat /\ n + 1 \in Nat /\ Len(b) \in Nat /\ Len(s) = n + Len(b)
  BY <1>1 DEF Strings
<1>6. y \in Results /\ (y.ok = TRUE \/ y = Failed)
  <2>1. 1 \in 1 .. (Len(b) + 1)
    BY <1>5
  <2>2. QED
    BY <1>1, <1>4, <2>1, RestType
<1>7. \A k \in 1 .. (n + 1) : fa[k] \in Results
  BY <1>1, <1>3, RestType
<1>8. fs[n + 1] = y
  <2>1. 1 \in 1 .. (Len(b) + 1)
    BY <1>5
  <2>2. QED
    BY <1>2, <1>4, <2>1, SuffixExpansion
<1> HIDE DEF y, n
<1>9. T = {}
  <2> SUFFICES ASSUME T # {} PROVE FALSE
    OBVIOUS
  <2>1. PICK m \in T : \A k \in T : m >= k
    <3>1. T \in SUBSET (0 .. (n + 1))
      BY <1>5
    <3> HIDE DEF T
    <3>2. QED
      BY <1>5, <3>1, GreatestOf
  <2>2. m \in 1 .. (n + 1) /\ fa[m].ok = TRUE /\ fs[m] # Joined(fa[m], y)
    OBVIOUS
  <2>3. CASE m = n + 1
    <3>1. fa[m] = Text(Empty)
      BY <1>3, <1>5, <2>2, <2>3 DEF Solves, n
    <3>2. Joined(Text(Empty), y) = y
      BY <1>6, JoinedEmpty
    <3>3. QED
      BY <1>8, <2>2, <2>3, <3>1, <3>2
  <2>4. CASE m # n + 1
    <3> DEFINE e == PieceEnd(a, m)
               p == Piece(a, m)
    <3>1. m \in 1 .. n /\ m \in 1 .. (Len(a) + 1) /\ ~(m > Len(a)) /\ m \in 1 .. Len(a)
      BY <1>5, <2>2, <2>4 DEF n
    <3>2. m \in 1 .. (Len(s) + 1) /\ ~(m > Len(s))
      BY <1>5, <3>1
    <3>3. e \in m .. n
      BY <1>1, <3>1, PieceEndBound DEF n
    <3>4. fa[m] = Joined(p, fa[e + 1])
      BY <1>3, <3>1 DEF Solves
    <3>5. e + 1 \in 1 .. (n + 1) /\ ~(m >= e + 1)
      BY <1>5, <3>1, <3>3
    <3>6. p \in Results /\ fa[e + 1] \in Results
      BY <1>1, <1>7, <3>1, <3>5, PieceType
    <3>7. p.ok = TRUE /\ fa[e + 1].ok = TRUE
      BY <2>2, <3>4, <3>6, JoinedOk
    <3>8. ~Unclosed(a, m)
      BY <3>7, UnclosedFails
    <3>9. Piece(s, 0 + m) = p /\ PieceEnd(s, 0 + m) = 0 + e
      BY <3>1, <3>8, PieceShift
    <3>10. Piece(s, m) = p /\ PieceEnd(s, m) = e
      <4>1. 0 + m = m /\ 0 + e = e
        BY <3>1, <3>3
      <4>2. QED
        BY <3>9, <4>1
    <3>11. fs[m] = Joined(p, fs[e + 1])
      BY <1>2, <3>2, <3>10 DEF Solves
    <3>12. fs[e + 1] = Joined(fa[e + 1], y)
      BY <2>1, <3>5, <3>7
    <3> HIDE DEF p
    <3>13. Joined(p, Joined(fa[e + 1], y)) = Joined(Joined(p, fa[e + 1]), y)
      BY <1>6, <3>6, <3>7, JoinedAssociates
    <3>14. QED
      BY <2>2, <3>4, <3>11, <3>12, <3>13
  <2>5. QED
    BY <2>3, <2>4
<1>10. 1 \in 1 .. (n + 1) /\ fa[1].ok = TRUE
  BY <1>3, <1>5
<1>11. fs[1] = Joined(fa[1], y)
  BY <1>9, <1>10
<1>12. QED
  BY <1>2, <1>3, <1>4, <1>11 DEF y

(* A text without expressions is what it says. *)
LEMMA TokenThenRest ==
  ASSUME NEW s \in Strings, NEW m \in 1 .. Len(s)
  PROVE  <<s[m]>> \o SubSeq(s, m + 1, Len(s)) = SubSeq(s, m, Len(s))
  BY DEF Strings

LEMMA PlainExpansion ==
  ASSUME NEW s \in Strings, \A i \in 1 .. Len(s) : ~OpensExpression(s, i)
  PROVE  ExpandEnvString(s) = Text(s)
<1>1. PICK f : ExpandEnvString(s) = f[1] /\ Solves(s, f)
  BY RestEquation
<1> DEFINE n == Len(s)
           T == {k \in 1 .. (n + 1) : f[k] # Text(SubSeq(s, k, n))}
<1>2. n \in Nat /\ n + 1 \in Nat
  BY DEF Strings
<1>3. T = {}
  <2> SUFFICES ASSUME T # {} PROVE FALSE
    OBVIOUS
  <2>1. PICK m \in T : \A k \in T : m >= k
    <3>1. T \in SUBSET (0 .. (n + 1))
      BY <1>2
    <3> HIDE DEF T
    <3>2. QED
      BY <1>2, <3>1, GreatestOf
  <2>2. m \in 1 .. (n + 1) /\ f[m] # Text(SubSeq(s, m, n))
    OBVIOUS
  <2>3. CASE m = n + 1
    <3>1. f[m] = Text(Empty)
      BY <1>1, <1>2, <2>2, <2>3 DEF Solves
    <3>2. SubSeq(s, m, n) = Empty
      BY <1>2, <2>3 DEF Empty, Strings
    <3>3. QED
      BY <2>2, <3>1, <3>2
  <2>4. CASE m # n + 1
    <3>1. m \in 1 .. n /\ ~(m > Len(s)) /\ m + 1 \in 1 .. (n + 1) /\ ~(m >= m + 1)
      BY <1>2, <2>2, <2>4
    <3>2. Piece(s, m) = Text(<<s[m]>>) /\ PieceEnd(s, m) = m
      BY <3>1 DEF Piece, PieceEnd, Unclosed
    <3>3. f[m] = Joined(Text(<<s[m]>>), f[m + 1])
      BY <1>1, <2>2, <3>1, <3>2 DEF Solves
    <3>4. f[m + 1] = Text(SubSeq(s, m + 1, n))
      BY <2>1, <3>1
    <3>5. f[m] = Text(<<s[m]>> \o SubSeq(s, m + 1, n))
      BY <3>3, <3>4 DEF Joined, Text
    <3>6. QED
      BY <2>2, <3>1, <3>5, TokenThenRest
  <2>5. QED
    BY <2>3, <2>4
<1>4. f[1] = Text(SubSeq(s, 1, n))
  BY <1>2, <1>3
<1>5. SubSeq(s, 1, n) = s
  BY DEF Strings
<1>6. QED
  BY <1>1, <1>4, <1>5

(* The two halves of a text stand in it. *)
LEMMA Halves ==
  ASSUME NEW s \in Strings, NEW i \in 1 .. Len(s),
         NEW a, a = SubSeq(s, 1, i), NEW b, b = SubSeq(s, i + 1, Len(s))
  PROVE  /\ StandsIn(a, s, 0) /\ StandsIn(b, s, Len(a)) /\ Len(a) + Len(b) = Len(s)
         /\ a[Len(a)] = s[i]
<1>1. a \in Strings /\ Len(a) = i /\ \A k \in 1 .. i : a[k] = s[k]
  BY DEF Strings
<1>2. b \in Strings /\ Len(b) = Len(s) - i /\ \A k \in 1 .. (Len(s) - i) : b[k] = s[i + k]
  BY DEF Strings
<1>3. Len(s) \in Nat /\ i \in Nat /\ 1 <= i /\ i <= Len(s)
  BY DEF Strings
<1>4. Agree(a, s, 0, Len(a))
  BY <1>1, <1>3 DEF Agree
<1>5. Agree(b, s, i, Len(b))
  BY <1>2, <1>3 DEF Agree
<1>6. QED
  BY <1>1, <1>2, <1>3, <1>4, <1>5 DEF StandsIn

(* ExpansionComposes, for every text. *)
LEMMA TextComposes ==
  ASSUME NEW s \in Strings
  PROVE  /\ (\A i \in DOMAIN s : ~OpensExpression(s, i)) => ExpandEnvString(s) = Text(s)
         /\ \A i \in 1 .. Len(s) :
              LET left  == ExpandEnvString(SubSeq(s, 1, i))
                  right == ExpandEnvString(SubSeq(s, i + 1, Len(s)))
              IN  left.ok /\ s[i] # "$" =>
                    ExpandEnvString(s) = IF right.ok THEN Text(left.text \o right.text) ELSE Failed
<1>1. DOMAIN s = 1 .. Len(s)
  BY DEF Strings
<1>2. ASSUME NEW i \in 1 .. Len(s), s[i] # "$",
             NEW a, a = SubSeq(s, 1, i), NEW b, b = SubSeq(s, i + 1, Len(s)),
             ExpandEnvString(a).ok
      PROVE  ExpandEnvString(s) =
               IF ExpandEnvString(b).ok
               THEN Text(ExpandEnvString(a).text \o ExpandEnvString(b).text) ELSE Failed
  <2>1. /\ StandsIn(a, s, 0) /\ StandsIn(b, s, Len(a)) /\ Len(a) + Len(b) = Len(s)
        /\ a[Len(a)] = s[i]
    BY <1>2, Halves
  <2>2. ExpandEnvString(a).ok = TRUE
    <3>1. a \in Strings
      BY <2>1 DEF StandsIn
    <3>2. ExpandEnvString(a).ok \in BOOLEAN
      BY <3>1, ExpansionType DEF Results
    <3>3. QED
      BY <1>2, <3>2
  <2>3. ExpandEnvString(s) = Joined(ExpandEnvString(a), ExpandEnvString(b))
    <3>1. a[Len(a)] # "$"
      BY <1>2, <2>1
    <3>2. QED
      BY ONLY <2>1, <2>2, <3>1, PartsExpansion
  <2>4. ExpandEnvString(b).ok \in BOOLEAN
    <3>1. b \in Strings
      BY <2>1 DEF StandsIn
    <3>2. QED
      BY <3>1, ExpansionType DEF Results
  <2> DEFINE x == ExpandEnvString(a)
             y == ExpandEnvString(b)
             z == ExpandEnvString(s)
  <2>5. x.ok = TRUE /\ y.ok \in BOOLEAN /\ z = Joined(x, y)
    BY <2>2, <2>3, <2>4
  <2> HIDE DEF x, y, z
  <2>6. z = IF y.ok THEN Text(x.text \o y.text) ELSE Failed
    BY <2>5 DEF Joined
  <2>7. QED
    BY <2>6 DEF x, y, z
<1>3. QED
  BY <1>1, <1>2, PlainExpansion
-----------------------------------------------------------------------------
(* The routes of a loaded file, as far as paths and limits go. *)

LEMMA ExpandedRoute ==
  ASSUME NEW r \in RouteConfigs
  PROVE  LET x == ExpandRoute(r)
         IN  /\ DOMAIN x = DOMAIN r
             /\ x.prefix = ExpandEnvString(r.prefix).text
             /\ x.stripPrefix = ExpandEnvString(r.stripPrefix).text
             /\ x.rateLimitRPS = r.rateLimitRPS
             /\ x.rateLimitBurst = r.rateLimitBurst
             /\ DOMAIN x.healthCheck = DOMAIN r.healthCheck
             /\ DOMAIN x.passiveHealth = DOMAIN r.passiveHealth
             /\ DOMAIN x.circuitBreaker = DOMAIN r.circuitBreaker
  BY DEF ExpandRoute, ExpandTexts, RouteTexts, RouteConfigs

LEMMA NormalizedRoute ==
  ASSUME NEW r \in RouteConfigs, NEW x, x = ExpandRoute(r)
  PROVE  LET y == NormalizeRoute(x)
         IN  /\ y.prefix = NormalizePrefix(x.prefix)
             /\ y.stripPrefix = NormalizeStripPrefix(x.stripPrefix)
             /\ y.rateLimitRPS = x.rateLimitRPS
             /\ y.rateLimitBurst = BurstOr(x.rateLimitRPS, x.rateLimitBurst)
             /\ y.healthCheck = NormalizeHealth(x.healthCheck)
             /\ y.passiveHealth = NormalizePassive(x.passiveHealth)
             /\ y.circuitBreaker = NormalizeBreaker(x.circuitBreaker)
<1>1. DOMAIN x = {"id", "prefix", "stripPrefix", "target", "upstreams", "rateLimitRPS",
                  "rateLimitBurst", "maxConcurrency", "healthCheck", "passiveHealth",
                  "circuitBreaker"}
  BY ExpandedRoute DEF RouteConfigs
<1>2. QED
  BY <1>1 DEF NormalizeRoute

LEMMA OptionFields ==
  ASSUME NEW r \in RouteConfigs, NEW y, y = NormalizeRoute(ExpandRoute(r))
  PROVE  /\ {"interval", "timeout"} \subseteq DOMAIN y.healthCheck
         /\ {"failureThreshold", "successThreshold", "unhealthyDuration"} \subseteq DOMAIN y.passiveHealth
         /\ {"failureThreshold", "openDuration", "halfOpenMaxRequests"} \subseteq DOMAIN y.circuitBreaker
<1> DEFINE x == ExpandRoute(r)
<1>1. /\ y.healthCheck = NormalizeHealth(x.healthCheck)
      /\ y.passiveHealth = NormalizePassive(x.passiveHealth)
      /\ y.circuitBreaker = NormalizeBreaker(x.circuitBreaker)
  BY NormalizedRoute
<1>2. /\ {"interval", "timeout"} \subseteq DOMAIN x.healthCheck
      /\ {"failureThreshold", "successThreshold", "unhealthyDuration"} \subseteq DOMAIN x.passiveHealth
      /\ {"failureThreshold", "openDuration", "halfOpenMaxRequests"} \subseteq DOMAIN x.circuitBreaker
  BY ExpandedRoute
     DEF RouteConfigs, HealthCheckConfigs, PassiveHealthConfigs, CircuitBreakerConfigs
<1> HIDE DEF x
<1>3. QED
  BY <1>1, <1>2 DEF NormalizeHealth, NormalizePassive, NormalizeBreaker

LEMMA LoadedLength ==
  ASSUME NEW f \in Configs
  PROVE  /\ Len(Loaded(f).routes) \in Nat
         /\ DOMAIN Loaded(f).routes = 1 .. Len(Loaded(f).routes)
<1>1. f.routes \in Seq(RouteConfigs)
  BY DEF Configs
<1>2. Loaded(f).routes = [i \in 1 .. Len(f.routes) |-> NormalizeRoute(ExpandRoute(f.routes[i]))]
  BY <1>1 DEF Loaded, Normalized, ExpandConfigEnv
<1>3. Len(f.routes) \in Nat
  BY <1>1
<1>4. QED
  BY <1>2, <1>3

(* What is known of every route of a loaded file, before it is validated.  *)
LEMMA LoadedRoutes ==
  ASSUME NEW f \in Configs, NEW i \in DOMAIN Loaded(f).routes
  PROVE  LET y == Loaded(f).routes[i]
         IN  /\ Subtree(y.prefix)
             /\ y.stripPrefix \in Strings
             /\ \/ y.stripPrefix = Slash \/ y.stripPrefix = Empty
                \/ y.stripPrefix[Len(y.stripPrefix)] # "/"
<1> DEFINE r == f.routes[i]
           y == Loaded(f).routes[i]
<1>1. i \in DOMAIN f.routes /\ y = NormalizeRoute(ExpandRoute(r))
  BY DEF Loaded, Normalized, ExpandConfigEnv
<1>2. r \in RouteConfigs
  BY <1>1 DEF Configs
<1> HIDE DEF y
<1>3. r.prefix \in Strings /\ r.stripPrefix \in Strings
  BY <1>2 DEF RouteConfigs
<1> HIDE DEF r
<1>4. /\ ExpandEnvString(r.prefix).text \in Strings
      /\ ExpandEnvString(r.stripPrefix).text \in Strings
  BY <1>3, ExpansionType DEF Results
<1>5. /\ y.prefix = NormalizePrefix(ExpandEnvString(r.prefix).text)
      /\ y.stripPrefix = NormalizeStripPrefix(ExpandEnvString(r.stripPrefix).text)
  BY <1>1, <1>2, ExpandedRoute, NormalizedRoute
<1>6. QED
  BY <1>4, <1>5, PrefixText, StripPrefixText DEF y
-----------------------------------------------------------------------------
(* Settings *)

LEMMA PeriodAtLeastOne ==
  ASSUME NEW n \in Int, n > 0, n <= 100000
  PROVE  Second \div n > 0
<1> DEFINE q == Second \div n
<1>1. q \in Int /\ Second < n * (q + 1)
  BY DEF Second
<1>2. q <= 0 => n * (q + 1) <= n
  BY <1>1
<1>3. QED
  BY <1>1, <1>2 DEF Second

(* The ticker of a bucket has a period up to the limit of the rate. *)
LEMMA PeriodPositive ==
  ASSUME NEW n \in 1 .. Limit
  PROVE  Second \div n > 0
<1>1. n \in Int /\ n > 0
  BY DEF Limit
<1>2. n <= 100000
  BY DEF Limit
<1>3. QED
  BY <1>1, <1>2, PeriodAtLeastOne

LEMMA LimitPositive ==
  ASSUME NEW n, InLimit(n)
  PROVE  n > 0
  BY DEF InLimit, Limit

LEMMA RateInLimit ==
  ASSUME NEW limit \in Nat, NEW n, n \in 0 .. limit, n > 0, NEW b \in Int
  PROVE  n \in 1 .. limit /\ BurstOr(n, b) > 0
  BY DEF BurstOr, PositiveOr

(* A rate has a burst, if only by normalisation. *)
LEMMA RateUsable ==
  ASSUME NEW x, NEW b \in Int, ValidRateLimit(x), x.rateLimitRPS > 0,
         x.rateLimitBurst = BurstOr(x.rateLimitRPS, b)
  PROVE  NewTokenBucketWorks(x)
<1>1. x.rateLimitRPS \in 0 .. Limit
  BY DEF ValidRateLimit
<1>0. Limit \in Nat
  BY DEF Limit
<1>2. x.rateLimitRPS \in 1 .. Limit /\ x.rateLimitBurst > 0
  BY <1>0, <1>1, RateInLimit
<1>3. QED
  BY <1>2, PeriodPositive DEF NewTokenBucketWorks

LEMMA DurationType ==
  ASSUME NEW text, NEW default \in DOMAIN Durations, Parses(text)
  PROVE  DurationOr(text, default) \in Int
<1>1. OrDefault(text, default) \in DOMAIN Durations
  BY DEF Parses, OrDefault
<1>2. QED
  BY <1>1, ConfigAssumption DEF DurationOr

LEMMA HealthUsable ==
  ASSUME NEW h, {"interval", "timeout"} \subseteq DOMAIN h, h.enabled, ValidHealth(h)
  PROVE  KeptAsWritten(ActiveHealthOptions(h), {"interval", "timeout"})
<1> DEFINE i == IntervalDuration(h)
           t == TimeoutDuration(h)
<1>1. Parses(h.interval) /\ Parses(h.timeout) /\ 0 < t /\ t < i
  BY DEF ValidHealth
<1>2. i \in Int /\ t \in Int
  BY <1>1, DurationType, ConfigAssumption DEF IntervalDuration, TimeoutDuration
<1> HIDE DEF i, t
<1>3. i > 0 /\ t > 0
  BY <1>1, <1>2
<1>4. ActiveHealthOptions(h) = [h EXCEPT !.interval = i, !.timeout = t]
  BY DEF ActiveHealthOptions, i, t
<1>5. QED
  BY <1>3, <1>4 DEF KeptAsWritten

LEMMA PassiveUsable ==
  ASSUME NEW p, p.enabled, ValidPassive(p),
         {"failureThreshold", "successThreshold", "unhealthyDuration"} \subseteq DOMAIN p
  PROVE  KeptAsWritten(PassiveHealthOptions(p),
                       {"failureThreshold", "successThreshold", "unhealthyDuration"})
<1> DEFINE d == UnhealthyDurationDuration(p)
<1>1. p.failureThreshold > 0 /\ p.successThreshold > 0 /\ d > 0
  BY LimitPositive DEF ValidPassive
<1>2. PassiveHealthOptions(p) = [p EXCEPT !.unhealthyDuration = d]
  BY DEF PassiveHealthOptions
<1> HIDE DEF d
<1>3. QED
  BY <1>1, <1>2 DEF KeptAsWritten

LEMMA BreakerUsable ==
  ASSUME NEW b, b.enabled, ValidBreaker(b),
         {"failureThreshold", "openDuration", "halfOpenMaxRequests"} \subseteq DOMAIN b
  PROVE  KeptAsWritten(CircuitBreakerOptions(b),
                       {"failureThreshold", "openDuration", "halfOpenMaxRequests"})
<1> DEFINE d == OpenDurationDuration(b)
<1>1. b.failureThreshold > 0 /\ b.halfOpenMaxRequests > 0 /\ d > 0
  BY LimitPositive DEF ValidBreaker
<1>2. CircuitBreakerOptions(b) = [b EXCEPT !.openDuration = d]
  BY DEF CircuitBreakerOptions
<1> HIDE DEF d
<1>3. QED
  BY <1>1, <1>2 DEF KeptAsWritten

(* Everything that a valid route of a loaded file switches on is usable. *)
LEMMA RouteUsable ==
  ASSUME NEW f \in Configs, NEW i \in DOMAIN Loaded(f).routes,
         NEW y, y = Loaded(f).routes[i], ValidRoute(y)
  PROVE  /\ y.rateLimitRPS > 0 => NewTokenBucketWorks(y)
         /\ y.upstreams # <<>>
         /\ y.healthCheck.enabled =>
              KeptAsWritten(ActiveHealthOptions(y.healthCheck), {"interval", "timeout"})
         /\ y.passiveHealth.enabled =>
              KeptAsWritten(PassiveHealthOptions(y.passiveHealth),
                            {"failureThreshold", "successThreshold", "unhealthyDuration"})
         /\ y.circuitBreaker.enabled =>
              KeptAsWritten(CircuitBreakerOptions(y.circuitBreaker),
                            {"failureThreshold", "openDuration", "halfOpenMaxRequests"})
<1> DEFINE r == f.routes[i]
           x == ExpandRoute(r)
<1>1. i \in DOMAIN f.routes /\ y = NormalizeRoute(x)
  BY DEF Loaded, Normalized, ExpandConfigEnv
<1>2. r \in RouteConfigs
  BY <1>1 DEF Configs
<1>3. /\ ValidRateLimit(y) /\ y.upstreams # <<>>
      /\ ValidHealth(y.healthCheck) /\ ValidPassive(y.passiveHealth)
      /\ ValidBreaker(y.circuitBreaker)
  BY DEF ValidRoute, ValidUpstreams
<1> HIDE DEF r
<1>4. /\ {"interval", "timeout"} \subseteq DOMAIN y.healthCheck
      /\ {"failureThreshold", "successThreshold", "unhealthyDuration"} \subseteq DOMAIN y.passiveHealth
      /\ {"failureThreshold", "openDuration", "halfOpenMaxRequests"} \subseteq DOMAIN y.circuitBreaker
  BY <1>1, <1>2, OptionFields
<1>5. /\ y.rateLimitRPS = x.rateLimitRPS
      /\ y.rateLimitBurst = BurstOr(x.rateLimitRPS, x.rateLimitBurst)
  BY <1>1, <1>2, NormalizedRoute
<1>6. x.rateLimitBurst \in Int
  BY <1>2, ExpandedRoute DEF RouteConfigs
<1> HIDE DEF x
<1>7. y.rateLimitRPS > 0 => NewTokenBucketWorks(y)
  BY <1>3, <1>5, <1>6, RateUsable
<1>8. QED
  BY <1>3, <1>4, <1>7, HealthUsable, PassiveUsable, BreakerUsable

LEMMA ServerUsable ==
  ASSUME NEW f \in Configs, NEW y, y = Loaded(f).server, ValidRateLimit(y), y.rateLimitRPS > 0
  PROVE  NewTokenBucketWorks(y)
<1> DEFINE x == ExpandTexts(f.server, ServerTexts)
<1>1. f.server \in ServerConfigs
  BY DEF Configs
<1>2. DOMAIN x = {"addr", "requestTimeout", "shutdownTimeout", "rateLimitRPS",
                  "rateLimitBurst", "maxConcurrency"} /\ x.rateLimitBurst \in Int
  BY <1>1 DEF ExpandTexts, ServerTexts, ServerConfigs
<1>3. y = NormalizeServer(x)
  BY DEF Loaded, Normalized, ExpandConfigEnv
<1> HIDE DEF x
<1>4. y.rateLimitRPS = x.rateLimitRPS /\ y.rateLimitBurst = BurstOr(x.rateLimitRPS, x.rateLimitBurst)
  BY <1>2, <1>3 DEF NormalizeServer
<1>5. QED
  BY <1>2, <1>4, RateUsable
-----------------------------------------------------------------------------
(* Segments *)

LEMMA NextSlashIs ==
  ASSUME NEW t \in Strings, NEW i \in 1 .. Len(t)
  PROVE  /\ NextSlash(t, i) \in (i + 1) .. (Len(t) + 1)
         /\ NextSlash(t, i) <= Len(t) => t[NextSlash(t, i)] = "/"
         /\ \A k \in Nat : i < k /\ k < NextSlash(t, i) => t[k] # "/"
<1> DEFINE m == First(t, i + 1, Len(t), "/")
<1>0. Len(t) \in Nat /\ i + 1 \in Nat \ {0}
  BY DEF Strings
<1>1. NextSlash(t, i) = IF m = 0 THEN Len(t) + 1 ELSE m
  BY DEF NextSlash, SelectInSubSeq, First
<1>2. CASE m = 0
  <2>1. \A k \in Nat : i + 1 <= k /\ k <= Len(t) => t[k] # "/"
    BY <1>0, <1>2, FirstNone
  <2> HIDE DEF m
  <2>2. NextSlash(t, i) = Len(t) + 1
    BY <1>1, <1>2
  <2>3. QED
    BY <1>0, <2>1, <2>2
<1>3. CASE m # 0
  <2>1. /\ m \in Nat /\ i + 1 <= m /\ m <= Len(t) /\ t[m] = "/"
        /\ \A k \in Nat : i + 1 <= k /\ k < m => t[k] # "/"
    BY <1>0, <1>3, FirstFound
  <2> HIDE DEF m
  <2>2. NextSlash(t, i) = m
    BY <1>1, <1>3
  <2>3. QED
    BY <1>0, <2>1, <2>2
<1>4. QED
  BY <1>2, <1>3

(* The segment after position i, and what is left of its text. *)
SegmentAt(t, i) == SubSeq(t, i + 1, NextSlash(t, i) - 1)

LEMMA SegmentText ==
  ASSUME NEW t \in Strings, NEW i \in 1 .. Len(t)
  PROVE  /\ SegmentAt(t, i) \in Strings
         /\ Len(SegmentAt(t, i)) = NextSlash(t, i) - 1 - i
         /\ \A k \in 1 .. (NextSlash(t, i) - 1 - i) : SegmentAt(t, i)[k] = t[i + k]
<1> DEFINE e == NextSlash(t, i)
<1>1. e \in (i + 1) .. (Len(t) + 1) /\ Len(t) \in Nat
  BY NextSlashIs DEF Strings
<1> HIDE DEF e
<1>2. SegmentAt(t, i) = SubSeq(t, i + 1, e - 1)
  BY DEF SegmentAt, e
<1>3. QED
  BY <1>1, <1>2 DEF Strings, e

IsFrom(t, f) ==
  f = [i \in 1 .. (Len(t) + 1) |->
         IF i > Len(t) THEN <<>> ELSE <<SegmentAt(t, i)>> \o f[NextSlash(t, i)]]

LEMMA SegmentsAreFrom ==
  ASSUME NEW t
  PROVE  Segments(t) = (CHOOSE f : IsFrom(t, f))[1]
  BY DEF Segments, IsFrom, SegmentAt

LEMMA FromExists ==
  ASSUME NEW v \in Strings
  PROVE  \E f : IsFrom(v, f)
<1> DEFINE L == Len(v) + 1
           Fits(g, k) == \A i \in k .. L :
             g[i] = IF i > Len(v) THEN <<>> ELSE <<SegmentAt(v, i)>> \o g[NextSlash(v, i)]
           T == {k \in 1 .. L : ~ \E g : Fits(g, k)}
<1>0. Len(v) \in Nat /\ L \in Nat /\ L > Len(v)
  BY DEF Strings
<1>1. T = {}
  <2> SUFFICES ASSUME T # {} PROVE FALSE
    OBVIOUS
  <2>1. PICK m \in T : \A k \in T : m >= k
    <3>1. T \in SUBSET (0 .. L)
      BY <1>0
    <3>2. QED
      BY <1>0, <3>1, GreatestOf
  <2>2. m \in 1 .. L
    OBVIOUS
  <2>3. CASE m = L
    <3> DEFINE g == [i \in {L} |-> <<>>]
    <3>1. Fits(g, L)
      BY <1>0
    <3>2. QED
      BY <2>1, <2>3, <3>1
  <2>4. CASE m # L
    <3>1. m + 1 \in 1 .. L /\ m + 1 \notin T /\ m \in 1 .. Len(v)
      <4>1. m + 1 \in 1 .. L /\ m \in 1 .. Len(v) /\ ~(m >= m + 1)
        BY <1>0, <2>2, <2>4
      <4> HIDE DEF T
      <4>2. QED
        BY <2>1, <4>1
    <3>2. PICK g : Fits(g, m + 1)
      BY <3>1
    <3> DEFINE new == <<SegmentAt(v, m)>> \o g[NextSlash(v, m)]
    <3> HIDE DEF new
    <3> DEFINE h == [i \in m .. L |-> IF i = m THEN new ELSE g[i]]
    <3>3. \A i \in m .. Len(v) : NextSlash(v, i) \in (m + 1) .. L
      BY <1>0, <3>1, NextSlashIs
    <3>4. \A i \in (m + 1) .. L : h[i] = g[i]
      BY <2>2
    <3>5. h[m] = <<SegmentAt(v, m)>> \o g[NextSlash(v, m)]
      <4>1. m \in m .. L
        BY <1>0, <2>2
      <4>2. QED
        BY <4>1 DEF new
    <3> HIDE DEF h
    <3>6. Fits(h, m)
      <4> TAKE i \in m .. L
      <4>1. CASE i = m
        <5>1. i \in m .. Len(v) /\ ~(i > Len(v))
          BY <1>0, <3>1, <4>1
        <5>2. h[NextSlash(v, m)] = g[NextSlash(v, m)]
          BY <3>3, <3>4, <4>1, <5>1
        <5>3. QED
          BY <3>5, <4>1, <5>1, <5>2
      <4>2. CASE i # m /\ i > Len(v)
        <5>1. i \in (m + 1) .. L /\ h[i] = g[i]
          BY <1>0, <2>2, <3>4, <4>2
        <5>2. g[i] = <<>>
          BY <3>2, <4>2, <5>1
        <5>3. QED
          BY <4>2, <5>1, <5>2
      <4>3. CASE i # m /\ ~(i > Len(v))
        <5>1. i \in (m + 1) .. L /\ i \in m .. Len(v)
          BY <1>0, <2>2, <4>3
        <5>2. g[i] = <<SegmentAt(v, i)>> \o g[NextSlash(v, i)]
          BY <3>2, <4>3, <5>1
        <5>3. h[i] = g[i] /\ h[NextSlash(v, i)] = g[NextSlash(v, i)]
          BY <3>3, <3>4, <5>1
        <5>4. QED
          BY <4>3, <5>2, <5>3
      <4>4. QED
        BY <4>1, <4>2, <4>3
    <3>7. QED
      BY <2>1, <3>6
  <2>5. QED
    BY <2>3, <2>4
<1>2. PICK g : Fits(g, 1)
  <2> HIDE DEF Fits
  <2>1. 1 \in 1 .. L /\ 1 \notin T
    BY <1>0, <1>1
  <2>2. QED
    BY <2>1
<1> DEFINE f == [i \in 1 .. L |-> g[i]]
<1>3. \A i \in 1 .. Len(v) : NextSlash(v, i) \in 1 .. L
  BY <1>0, NextSlashIs
<1>4. IsFrom(v, f)
  <2>1. \A i \in 1 .. L : f[i] = IF i > Len(v) THEN <<>>
                                 ELSE <<SegmentAt(v, i)>> \o f[NextSlash(v, i)]
    BY <1>0, <1>2, <1>3
  <2>2. QED
    BY <2>1 DEF IsFrom
<1>5. QED
  BY <1>4

(* f gives the segments from each position on. *)
Splits(t, f) ==
  \A i \in 1 .. (Len(t) + 1) :
    f[i] = IF i > Len(t) THEN <<>> ELSE <<SegmentAt(t, i)>> \o f[NextSlash(t, i)]

LEMMA SegmentsEquation ==
  ASSUME NEW t \in Strings
  PROVE  \E f : Segments(t) = f[1] /\ Splits(t, f)
<1> DEFINE f == CHOOSE g : IsFrom(t, g)
<1>1. IsFrom(t, f)
  BY FromExists
<1>2. Segments(t) = f[1]
  BY SegmentsAreFrom
<1> HIDE DEF f
<1>3. Splits(t, f)
  BY <1>1 DEF IsFrom, Splits
<1>4. QED
  BY <1>2, <1>3

(* A segment holds tokens of t. *)
TokensOf(t, seg) == \A k \in 1 .. Len(seg) : \E l \in 1 .. Len(t) : seg[k] = t[l]
Parts(t, segs) ==
  segs \in Seq(Strings) /\ \A k \in 1 .. Len(segs) : TokensOf(t, segs[k])

(* One segment before others. *)
LEMMA OneMore ==
  ASSUME NEW x \in Strings, NEW rest \in Seq(Strings)
  PROVE  LET all == <<x>> \o rest
         IN  /\ all \in Seq(Strings) /\ Len(all) = 1 + Len(rest) /\ all[1] = x
             /\ \A k \in 1 .. Len(rest) : all[k + 1] = rest[k]
<1>1. <<x>> \in Seq(Strings) /\ Len(<<x>>) = 1 /\ <<x>>[1] = x /\ Len(rest) \in Nat
  OBVIOUS
<1> DEFINE all == <<x>> \o rest
<1>2. /\ all \in Seq(Strings) /\ Len(all) = Len(<<x>>) + Len(rest)
      /\ \A i \in 1 .. Len(<<x>>) + Len(rest) :
           all[i] = IF i <= Len(<<x>>) THEN <<x>>[i] ELSE rest[i - Len(<<x>>)]
  BY <1>1, ConcatProperties
<1> HIDE DEF all
<1>3. all[1] = x
  BY <1>1, <1>2
<1>4. ASSUME NEW k \in 1 .. Len(rest) PROVE all[k + 1] = rest[k]
  <2>1. k + 1 \in 1 .. Len(<<x>>) + Len(rest) /\ ~(k + 1 <= Len(<<x>>)) /\ k + 1 - Len(<<x>>) = k
    BY <1>1
  <2>2. QED
    BY <1>2, <2>1
<1>5. QED
  BY <1>1, <1>2, <1>3, <1>4 DEF all

LEMMA PartsType ==
  ASSUME NEW t \in Strings, NEW f, Splits(t, f)
  PROVE  \A i \in 1 .. (Len(t) + 1) : Parts(t, f[i])
<1>0. Len(t) \in Nat
  BY DEF Strings
<1> DEFINE T == {i \in 1 .. (Len(t) + 1) : ~Parts(t, f[i])}
<1>1. T = {}
  <2> SUFFICES ASSUME T # {} PROVE FALSE
    OBVIOUS
  <2>1. PICK m \in T : \A k \in T : m >= k
    <3>1. T \in SUBSET (0 .. (Len(t) + 1)) /\ Len(t) + 1 \in Nat
      BY <1>0
    <3>2. QED
      BY <3>1, GreatestOf
  <2>2. m \in 1 .. (Len(t) + 1) /\ ~Parts(t, f[m])
    OBVIOUS
  <2>3. CASE m > Len(t)
    <3>1. f[m] = <<>>
      BY <2>2, <2>3 DEF Splits
    <3>2. QED
      BY <2>2, <3>1 DEF Parts
  <2>4. CASE ~(m > Len(t))
    <3> DEFINE e == NextSlash(t, m)
               x == SegmentAt(t, m)
    <3>1. m \in 1 .. Len(t)
      BY <1>0, <2>2, <2>4
    <3>2. e \in (m + 1) .. (Len(t) + 1)
      BY <3>1, NextSlashIs
    <3>3. f[m] = <<x>> \o f[e]
      BY <2>2, <2>4 DEF Splits
    <3>4. x \in Strings /\ Len(x) = e - 1 - m /\ \A k \in 1 .. (e - 1 - m) : x[k] = t[m + k]
      BY <3>1, SegmentText
    <3> HIDE DEF e, x
    <3>5. e \notin T /\ e \in 1 .. (Len(t) + 1)
      <4>1. e \in 1 .. (Len(t) + 1) /\ ~(m >= e)
        BY <1>0, <3>1, <3>2
      <4> HIDE DEF T
      <4>2. QED
        BY <2>1, <4>1
    <3>6. Parts(t, f[e])
      BY <3>5
    <3> HIDE DEF T
    <3>7. TokensOf(t, x)
      <4> SUFFICES ASSUME NEW k \in 1 .. Len(x) PROVE \E l \in 1 .. Len(t) : x[k] = t[l]
        BY DEF TokensOf
      <4>1. m + k \in 1 .. Len(t) /\ k \in 1 .. (e - 1 - m)
        BY <1>0, <3>1, <3>2, <3>4
      <4>2. QED
        BY <3>4, <4>1
    <3>8. f[e] \in Seq(Strings) /\ \A k \in 1 .. Len(f[e]) : TokensOf(t, f[e][k])
      BY <3>6 DEF Parts
    <3> DEFINE all == <<x>> \o f[e]
    <3>9. /\ all \in Seq(Strings) /\ Len(all) = 1 + Len(f[e]) /\ all[1] = x
          /\ \A k \in 1 .. Len(f[e]) : all[k + 1] = f[e][k]
      BY <3>4, <3>8, OneMore
    <3> HIDE DEF all
    <3>10. ASSUME NEW k \in 1 .. Len(all) PROVE TokensOf(t, all[k])
      <4>1. CASE k = 1
        BY <3>7, <3>9, <4>1
      <4>2. CASE k # 1
        <5>1. k - 1 \in 1 .. Len(f[e]) /\ (k - 1) + 1 = k
          BY <3>8, <3>9, <4>2
        <5>2. QED
          BY <3>8, <3>9, <5>1
      <4>3. QED
        BY <4>1, <4>2
    <3>11. Parts(t, all)
      BY <3>9, <3>10 DEF Parts
    <3>12. QED
      BY <2>2, <3>3, <3>11 DEF all
  <2>5. QED
    BY <2>3, <2>4
<1>2. QED
  BY <1>1
(* The segments from i on are the one after i and those from the next      *)
(* slash on.                                                               *)
LEMMA HeadTail ==
  ASSUME NEW t \in Strings, NEW f, Splits(t, f), NEW i \in 1 .. Len(t)
  PROVE  LET e == NextSlash(t, i)
         IN  /\ e \in (i + 1) .. (Len(t) + 1)
             /\ f[i] \in Seq(Strings) /\ f[e] \in Seq(Strings)
             /\ Len(f[i]) = 1 + Len(f[e]) /\ f[i][1] = SegmentAt(t, i)
             /\ \A k \in 1 .. Len(f[e]) : f[i][k + 1] = f[e][k]
<1> DEFINE e == NextSlash(t, i)
           x == SegmentAt(t, i)
<1>1. Len(t) \in Nat /\ i \in 1 .. (Len(t) + 1) /\ ~(i > Len(t))
  BY DEF Strings
<1>2. e \in (i + 1) .. (Len(t) + 1)
  BY NextSlashIs
<1>3. f[i] = <<x>> \o f[e]
  BY <1>1 DEF Splits
<1>4. x \in Strings
  BY SegmentText
<1> HIDE DEF e, x
<1>5. e \in 1 .. (Len(t) + 1)
  BY <1>1, <1>2
<1>6. f[e] \in Seq(Strings)
  BY <1>5, PartsType DEF Parts
<1>7. QED
  BY <1>2, <1>3, <1>4, <1>6, OneMore DEF e, x

(* From the end on there are no segments. *)
LEMMA NoMore ==
  ASSUME NEW t \in Strings, NEW f, Splits(t, f)
  PROVE  Len(t) + 1 \in 1 .. (Len(t) + 1) /\ f[Len(t) + 1] = <<>>
<1>1. Len(t) \in Nat /\ Len(t) + 1 \in 1 .. (Len(t) + 1) /\ Len(t) + 1 > Len(t)
  BY DEF Strings
<1>2. QED
  BY <1>1 DEF Splits

(* A text that begins with a slash is determined by its segments. *)
SameFrom(p, q, i) ==
  Len(p) = Len(q) /\ \A k \in Nat : i < k /\ k <= Len(p) => p[k] = q[k]

LEMMA SameTails ==
  ASSUME NEW p \in Strings, NEW q \in Strings, NEW f, NEW g, Splits(p, f), Splits(q, g)
  PROVE  \A i \in 1 .. (Len(p) + 1) : f[i] = g[i] /\ i <= Len(q) + 1 => SameFrom(p, q, i)
<1>0. Len(p) \in Nat /\ Len(q) \in Nat
  BY DEF Strings
<1> DEFINE T == {i \in 1 .. (Len(p) + 1) : f[i] = g[i] /\ i <= Len(q) + 1 /\ ~SameFrom(p, q, i)}
<1>1. T = {}
  <2> SUFFICES ASSUME T # {} PROVE FALSE
    OBVIOUS
  <2>1. PICK m \in T : \A k \in T : m >= k
    <3>1. T \in SUBSET (0 .. (Len(p) + 1)) /\ Len(p) + 1 \in Nat
      BY <1>0
    <3>2. QED
      BY <3>1, GreatestOf
  <2>2. m \in 1 .. (Len(p) + 1) /\ f[m] = g[m] /\ m <= Len(q) + 1 /\ ~SameFrom(p, q, m)
    OBVIOUS
  <2>3. CASE m = Len(p) + 1
    <3>1. g[m] = <<>>
      BY <2>2, <2>3, NoMore
    <3>2. m = Len(q) + 1
      <4> SUFFICES ASSUME m # Len(q) + 1 PROVE FALSE
        OBVIOUS
      <4>1. m \in 1 .. Len(q)
        BY <1>0, <2>2
      <4>2. Len(g[m]) = 1 + Len(g[NextSlash(q, m)]) /\ Len(g[NextSlash(q, m)]) \in Nat
        BY <4>1, HeadTail
      <4>3. QED
        BY <3>1, <4>2
    <3>3. SameFrom(p, q, m)
      BY <1>0, <2>3, <3>2 DEF SameFrom
    <3>4. QED
      BY <2>2, <3>3
  <2>4. CASE m # Len(p) + 1
    <3>1. m \in 1 .. Len(p)
      BY <1>0, <2>2, <2>4
    <3> DEFINE e == NextSlash(p, m)
               d == NextSlash(q, m)
    <3>2. /\ e \in (m + 1) .. (Len(p) + 1)
          /\ f[m] \in Seq(Strings) /\ f[e] \in Seq(Strings)
          /\ Len(f[m]) = 1 + Len(f[e]) /\ f[m][1] = SegmentAt(p, m)
          /\ \A k \in 1 .. Len(f[e]) : f[m][k + 1] = f[e][k]
      BY ONLY <3>1, p \in Strings, Splits(p, f), HeadTail
    <3>3. m \in 1 .. Len(q)
      <4> SUFFICES ASSUME m \notin 1 .. Len(q) PROVE FALSE
        OBVIOUS
      <4>1. m = Len(q) + 1
        BY <1>0, <2>2, <3>1
      <4>2. f[m] = <<>>
        BY <2>2, <4>1, NoMore
      <4> HIDE DEF e
      <4>3. Len(f[e]) \in Nat
        BY <3>2
      <4>4. QED
        BY <3>2, <4>2, <4>3
    <3>4. /\ d \in (m + 1) .. (Len(q) + 1)
          /\ g[m] \in Seq(Strings) /\ g[d] \in Seq(Strings)
          /\ Len(g[m]) = 1 + Len(g[d]) /\ g[m][1] = SegmentAt(q, m)
          /\ \A k \in 1 .. Len(g[d]) : g[m][k + 1] = g[d][k]
      <4> HIDE DEF T
      <4>1. QED
        BY <3>3, HeadTail
    <3>5. /\ Len(SegmentAt(p, m)) = e - 1 - m
          /\ \A k \in 1 .. (e - 1 - m) : SegmentAt(p, m)[k] = p[m + k]
      BY <3>1, SegmentText
    <3>6. /\ Len(SegmentAt(q, m)) = d - 1 - m
          /\ \A k \in 1 .. (d - 1 - m) : SegmentAt(q, m)[k] = q[m + k]
      BY <3>3, SegmentText
    <3>7. /\ e <= Len(p) => p[e] = "/"
          /\ d <= Len(q) => q[d] = "/"
      BY <3>1, <3>3, NextSlashIs
    <3> HIDE DEF e, d, T
    <3>8. e = d
      <4>1. e - 1 - m = d - 1 - m
        BY <2>2, <3>2, <3>4, <3>5, <3>6
      <4>2. e \in Int /\ d \in Int /\ m \in Int
        BY <3>1, <3>2, <3>4
      <4>3. QED
        BY <4>1, <4>2
    <3>9. f[e] = g[d]
      <4>1. Len(f[e]) = Len(g[d])
        <5>1. Len(f[e]) \in Nat /\ Len(g[d]) \in Nat
          BY <3>2, <3>4
        <5>2. 1 + Len(f[e]) = 1 + Len(g[d])
          BY <2>2, <3>2, <3>4
        <5>3. QED
          BY <5>1, <5>2
      <4>2. \A k \in 1 .. Len(f[e]) : f[e][k] = g[d][k]
        BY <2>2, <3>2, <3>4, <4>1
      <4>3. QED
        BY <3>2, <3>4, <4>1, <4>2, SeqEqual
    <3>10. e \in 1 .. (Len(p) + 1) /\ e <= Len(q) + 1 /\ ~(m >= e)
      BY <1>0, <3>1, <3>2, <3>4, <3>8
    <3>11. SameFrom(p, q, e)
      <4>1. e \notin T
        BY <2>1, <3>10
      <4>2. QED
        BY <3>8, <3>9, <3>10, <4>1 DEF T
    <3>12. ASSUME NEW k \in Nat, m < k, k <= Len(p) PROVE p[k] = q[k]
      <4>1. CASE k < e
        <5>1. k - m \in 1 .. (e - 1 - m) /\ m + (k - m) = k
          BY <3>1, <3>2, <3>12, <4>1
        <5>2. SegmentAt(p, m)[k - m] = p[k] /\ SegmentAt(q, m)[k - m] = q[k]
          BY <3>5, <3>6, <3>8, <5>1
        <5>3. QED
          BY <2>2, <3>2, <3>4, <5>2
      <4>2. CASE k = e
        BY <3>7, <3>8, <3>11, <3>12, <4>2 DEF SameFrom
      <4>3. CASE e < k
        BY <3>11, <3>12, <4>3 DEF SameFrom
      <4>4. QED
        BY <3>2, <4>1, <4>2, <4>3
    <3>13. SameFrom(p, q, m)
      BY <3>11, <3>12 DEF SameFrom
    <3>14. QED
      BY <2>2, <3>13
  <2>5. QED
    BY <2>3, <2>4
<1>2. QED
  BY <1>1

LEMMA SegmentsDetermine ==
  ASSUME NEW p \in Strings, NEW q \in Strings, p # Empty, q # Empty, p[1] = "/", q[1] = "/",
         Segments(p) = Segments(q)
  PROVE  p = q
<1>1. PICK f : Segments(p) = f[1] /\ Splits(p, f)
  BY SegmentsEquation
<1>2. PICK g : Segments(q) = g[1] /\ Splits(q, g)
  BY SegmentsEquation
<1>3. Len(p) \in Nat /\ Len(q) \in Nat /\ 1 \in 1 .. (Len(p) + 1) /\ 1 <= Len(q) + 1
  BY DEF Strings
<1>4. SameFrom(p, q, 1)
  BY <1>1, <1>2, <1>3, SameTails
<1>5. Len(p) = Len(q) /\ \A k \in 1 .. Len(p) : p[k] = q[k]
  BY <1>3, <1>4 DEF SameFrom
<1>6. QED
  BY <1>5, SeqEqual DEF Strings
-----------------------------------------------------------------------------
(* Patterns that are read as they are written *)

LEMMA PlainSegment ==
  ASSUME NEW t \in Strings, Verbatim(t), NEW seg \in Strings, TokensOf(t, seg)
  PROVE  PathUnescape(seg) = seg /\ (seg # Empty => seg[1] # "{")
<1>1. DOMAIN seg = 1 .. Len(seg) /\ Len(seg) \in Nat /\ DOMAIN t = 1 .. Len(t)
  BY DEF Strings
<1>2. \A k \in DOMAIN seg : seg[k] # "{" /\ seg[k] \notin DOMAIN Escapes
  BY <1>1 DEF TokensOf, Verbatim
<1>3. \A k \in DOMAIN seg : Decoded(seg[k]) = seg[k]
  BY <1>2 DEF Decoded
<1>4. [k \in DOMAIN seg |-> Decoded(seg[k])] = seg
  <2>1. seg = [k \in DOMAIN seg |-> seg[k]]
    BY <1>1 DEF Strings
  <2>2. QED
    BY <1>3, <2>1
<1>5. seg # Empty => 1 \in DOMAIN seg
  BY <1>1 DEF Strings, Empty
<1>6. QED
  BY <1>2, <1>4, <1>5 DEF PathUnescape

(* P is the reading of the segments R without wildcards or escapes. *)
Reads(P, R) ==
  /\ Len(P) = Len(R) /\ DOMAIN P = 1 .. Len(R)
  /\ \A k \in 1 .. Len(R) :
       /\ P[k].key = R[k]
       /\ P[k].kind = IF k = Len(R) /\ R[k] = Empty THEN "multi" ELSE "literal"

LEMMA SegmentsType ==
  ASSUME NEW t \in Strings
  PROVE  /\ Segments(t) \in Seq(Strings)
         /\ t # Empty => Len(Segments(t)) > 0
         /\ \A k \in 1 .. Len(Segments(t)) : TokensOf(t, Segments(t)[k])
<1>1. PICK f : Segments(t) = f[1] /\ Splits(t, f)
  BY SegmentsEquation
<1>2. Len(t) \in Nat /\ 1 \in 1 .. (Len(t) + 1) /\ (t # Empty => 1 \in 1 .. Len(t))
  BY DEF Strings, Empty
<1>3. Parts(t, f[1])
  BY <1>1, <1>2, PartsType
<1>4. t # Empty => Len(f[1]) > 0
  <2> SUFFICES ASSUME t # Empty PROVE Len(f[1]) > 0
    OBVIOUS
  <2>1. f[NextSlash(t, 1)] \in Seq(Strings) /\ Len(f[1]) = 1 + Len(f[NextSlash(t, 1)])
    BY <1>1, <1>2, HeadTail
  <2>2. Len(f[NextSlash(t, 1)]) \in Nat
    BY <2>1
  <2>3. QED
    BY <2>1, <2>2
<1>5. QED
  BY <1>1, <1>3, <1>4 DEF Parts

LEMMA LengthOf ==
  ASSUME NEW n \in Nat, NEW P, P = [k \in 1 .. n |-> P[k]]
  PROVE  Len(P) = n
<1> DEFINE X == {P[k] : k \in 1 .. n}
<1>1. P \in Seq(X)
  <2>1. P \in [1 .. n -> X]
    OBVIOUS
  <2> HIDE DEF X
  <2>2. QED
    BY <2>1
<1> HIDE DEF X
<1>2. Len(P) \in Nat /\ 1 .. Len(P) = 1 .. n
  BY <1>1
<1>3. QED
  BY <1>2

LEMMA VerbatimReads ==
  ASSUME NEW t \in Strings, Verbatim(t)
  PROVE  Reads(PatternSegments(t), Segments(t))
<1> DEFINE R == Segments(t)
           P == PatternSegments(t)
<1>1. R \in Seq(Strings) /\ \A k \in 1 .. Len(R) : TokensOf(t, R[k])
  BY SegmentsType
<1>2. P = [k \in DOMAIN R |-> PatternSegment(R[k], k = Len(R))]
  BY DEF PatternSegments
<1> HIDE DEF R, P
<1>3. DOMAIN R = 1 .. Len(R) /\ Len(R) \in Nat
  BY <1>1
<1>4. P = [k \in 1 .. Len(R) |-> PatternSegment(R[k], k = Len(R))]
  BY <1>2, <1>3
<1>5. Len(P) = Len(R) /\ DOMAIN P = 1 .. Len(R)
  <2>1. DOMAIN P = 1 .. Len(R) /\ P = [k \in 1 .. Len(R) |-> P[k]]
    BY ONLY <1>4
  <2>2. QED
    BY <1>3, <2>1, LengthOf
<1>6. ASSUME NEW k \in 1 .. Len(R)
      PROVE  /\ P[k].key = R[k]
             /\ P[k].kind = IF k = Len(R) /\ R[k] = Empty THEN "multi" ELSE "literal"
  <2>1. P[k] = PatternSegment(R[k], k = Len(R))
    BY <1>4
  <2>2. PathUnescape(R[k]) = R[k] /\ (R[k] # Empty => R[k][1] # "{")
    <3>1. R[k] \in Strings /\ TokensOf(t, R[k])
      BY <1>1
    <3>2. QED
      BY <3>1, PlainSegment
  <2>3. CASE k = Len(R) /\ R[k] = Empty
    <3>1. P[k] = Rest
      BY <2>1, <2>3, Zenon DEF PatternSegment
    <3>2. Rest.key = Empty /\ Rest.kind = "multi"
      BY DEF Rest
    <3>3. QED
      BY <2>3, <3>1, <3>2
  <2>4. CASE ~(k = Len(R) /\ R[k] = Empty)
    <3>1. P[k] = Literal(R[k])
      BY <2>1, <2>2, <2>4 DEF PatternSegment
    <3>2. Literal(R[k]) = [kind |-> "literal", key |-> R[k]]
      BY <2>2, Zenon DEF Literal
    <3>3. Literal(R[k]).key = R[k] /\ Literal(R[k]).kind = "literal"
      BY <3>2
    <3>4. QED
      BY <2>4, <3>1, <3>3
  <2>5. QED
    BY <2>3, <2>4
<1>7. Reads(P, R)
  BY <1>5, <1>6 DEF Reads
<1>8. QED
  BY <1>7 DEF P, R

(* Of two such patterns, one is more general only by being the shorter, or *)
(* by the rest it ends in.                                                 *)
LEMMA ReadsApart ==
  ASSUME NEW R \in Seq(Strings), NEW S \in Seq(Strings), Len(R) > 0, Len(S) > 0,
         NEW P, NEW Q, Reads(P, R), Reads(Q, S),
         InCommon(P, Q), HasBroader(P, Q) <=> HasBroader(Q, P)
  PROVE  R = S
<1>0. Len(R) \in Nat /\ Len(S) \in Nat
  OBVIOUS
<1>1. /\ \A k \in 1 .. Len(R) : P[k].kind = "multi" <=> k = Len(R) /\ R[k] = Empty
      /\ \A k \in 1 .. Len(S) : Q[k].kind = "multi" <=> k = Len(S) /\ S[k] = Empty
  BY DEF Reads
<1>2. /\ \A k \in 1 .. Len(R) : P[k].kind # "wild" /\ (P[k].kind # "multi" => P[k].kind = "literal")
      /\ \A k \in 1 .. Len(S) : Q[k].kind # "wild" /\ (Q[k].kind # "multi" => Q[k].kind = "literal")
  BY DEF Reads
<1>3. /\ \A k \in 1 .. Len(R) : P[k].key = R[k]
      /\ \A k \in 1 .. Len(S) : Q[k].key = S[k]
      /\ Len(P) = Len(R) /\ DOMAIN P = 1 .. Len(R) /\ Len(Q) = Len(S) /\ DOMAIN Q = 1 .. Len(S)
  BY DEF Reads
<1>4. /\ HasBroader(P, Q) <=> Len(R) < Len(S) \/ \E k \in 1 .. Len(R) : k <= Len(S) /\ P[k].kind = "multi" /\ Q[k].kind # "multi"
      /\ HasBroader(Q, P) <=> Len(S) < Len(R) \/ \E k \in 1 .. Len(S) : k <= Len(R) /\ Q[k].kind = "multi" /\ P[k].kind # "multi"
  <2>1. \A k \in DOMAIN P \cap DOMAIN Q :
          /\ Broader(P[k], Q[k]) <=> P[k].kind = "multi" /\ Q[k].kind # "multi"
          /\ Broader(Q[k], P[k]) <=> Q[k].kind = "multi" /\ P[k].kind # "multi"
    BY <1>2, <1>3 DEF Broader
  <2>2. DOMAIN P \cap DOMAIN Q = {k \in 1 .. Len(R) : k <= Len(S)}
        /\ DOMAIN P \cap DOMAIN Q = {k \in 1 .. Len(S) : k <= Len(R)}
    BY <1>0, <1>3
  <2>3. QED
    BY <1>3, <2>1, <2>2 DEF HasBroader
<1>5. Len(R) = Len(S)
  <2>1. ASSUME Len(R) < Len(S) PROVE FALSE
    BY <1>0, <1>1, <1>4, <2>1
  <2>2. ASSUME Len(S) < Len(R) PROVE FALSE
    BY <1>0, <1>1, <1>4, <2>2
  <2>3. QED
    BY <1>0, <2>1, <2>2
<1>6. ASSUME NEW k \in 1 .. Len(R) PROVE R[k] = S[k]
  <2>1. P[k].kind = "multi" <=> Q[k].kind = "multi"
    BY <1>0, <1>1, <1>4, <1>5
  <2>2. ~Apart(P[k], Q[k])
    BY <1>3, <1>5 DEF InCommon
  <2>3. QED
    BY <1>1, <1>2, <1>3, <1>5, <2>1, <2>2 DEF Apart
<1>7. QED
  BY <1>5, <1>6, SeqEqual

LEMMA ReadsSameLeaf ==
  ASSUME NEW R \in Seq(Strings), NEW S \in Seq(Strings),
         NEW P, NEW Q, Reads(P, R), Reads(Q, S), SameLeaf(P, Q)
  PROVE  R = S
<1>1. Len(R) = Len(S) /\ \A k \in 1 .. Len(R) : R[k] = S[k]
  BY DEF Reads, SameLeaf
<1>2. QED
  BY <1>1, SeqEqual

(* Only equal patterns conflict. *)
LEMMA VerbatimConflict ==
  ASSUME NEW p, Rooted(p), Verbatim(p), NEW q, Rooted(q), Verbatim(q), Conflicts(p, q)
  PROVE  p = q
<1> DEFINE R == Segments(p)
           S == Segments(q)
           P == PatternSegments(p)
           Q == PatternSegments(q)
<1>1. R \in Seq(Strings) /\ Len(R) > 0 /\ Reads(P, R)
  BY SegmentsType, VerbatimReads DEF Rooted
<1>2. S \in Seq(Strings) /\ Len(S) > 0 /\ Reads(Q, S)
  BY SegmentsType, VerbatimReads DEF Rooted
<1>3. \/ InCommon(P, Q) /\ (HasBroader(P, Q) <=> HasBroader(Q, P))
      \/ SameLeaf(P, Q)
  BY DEF Conflicts
<1> HIDE DEF P, Q, R, S
<1>4. R = S
  BY <1>1, <1>2, <1>3, ReadsApart, ReadsSameLeaf
<1>5. QED
  BY <1>4, SegmentsDetermine DEF Rooted, R, S

(* Such a pattern parses unless it has a blank. *)
LEMMA VerbatimWellFormed ==
  ASSUME NEW p \in Strings, Verbatim(p), \A c \in Blanks : ~Contains(p, c)
  PROVE  WellFormed(p)
<1> DEFINE R == Segments(p)
<1>1. R \in Seq(Strings) /\ \A k \in 1 .. Len(R) : TokensOf(p, R[k])
  BY SegmentsType
<1>2. WellFormed(p) <=>
        \A k \in DOMAIN R : Contains(R[k], "{") =>
          /\ \E name \in WildcardNames : R[k] = <<"{">> \o name \o <<"}">>
          /\ \A j \in DOMAIN R : R[j] = R[k] => j = k
  BY DEF WellFormed
<1> HIDE DEF R
<1>3. ASSUME NEW k \in DOMAIN R PROVE ~Contains(R[k], "{")
  <2>1. k \in 1 .. Len(R) /\ R[k] \in Strings
    BY <1>1
  <2>2. \A j \in 1 .. Len(R[k]) : R[k][j] # "{"
    <3>1. \A l \in 1 .. Len(p) : p[l] # "{"
      <4>1. DOMAIN p = 1 .. Len(p)
        BY DEF Strings
      <4>2. QED
        BY <4>1, Zenon DEF Verbatim
    <3>2. TokensOf(p, R[k])
      BY <1>1, <2>1
    <3>3. QED
      BY <3>1, <3>2 DEF TokensOf
  <2>3. QED
    BY <2>2 DEF Contains
<1>4. QED
  BY <1>2, <1>3
(* Paths that match a pattern *)

NoBadEscapes(t) == \A k \in 1 .. Len(t) : t[k] \notin BadEscapes

LEMMA LengthOfText ==
  ASSUME NEW t \in Strings
  PROVE  Len(t) \in Nat /\ DOMAIN t = 1 .. Len(t)
  BY DEF Strings

LEMMA EmptyText == Empty \in Strings /\ Len(Empty) = 0 /\ DOMAIN Empty = {}
<1>1. Empty \in Strings /\ Len(Empty) = 0
  BY DEF Empty, Strings
<1>2. DOMAIN Empty = 1 .. Len(Empty)
  BY <1>1 DEF Strings
<1>3. QED
  BY <1>1, <1>2

LEMMA UnescapedText ==
  ASSUME NEW x \in Strings
  PROVE  LET z == PathUnescape(x)
         IN  /\ DOMAIN z = 1 .. Len(x)
             /\ \A k \in 1 .. Len(x) : x[k] \notin DOMAIN Escapes => z[k] = x[k]
             /\ NoBadEscapes(x) => \A k \in 1 .. Len(x) : z[k] = Decoded(x[k])
<1>1. DOMAIN x = 1 .. Len(x)
  BY DEF Strings
<1>2. CASE \E i \in DOMAIN x : x[i] \in BadEscapes
  <2>1. PathUnescape(x) = x
    BY <1>2 DEF PathUnescape
  <2>2. ~NoBadEscapes(x)
    BY <1>1, <1>2 DEF NoBadEscapes
  <2>3. QED
    BY <1>1, <2>1, <2>2
<1>3. CASE ~ \E i \in DOMAIN x : x[i] \in BadEscapes
  <2>1. PathUnescape(x) = [i \in DOMAIN x |-> Decoded(x[i])]
    BY <1>3 DEF PathUnescape
  <2>2. DOMAIN PathUnescape(x) = 1 .. Len(x) /\ \A k \in 1 .. Len(x) : PathUnescape(x)[k] = Decoded(x[k])
    BY <1>1, <2>1
  <2>3. QED
    BY <2>2 DEF Decoded
<1>4. QED
  BY <1>2, <1>3

(* A segment that begins as it is written, and one of a path that matches. *)
LEMMA SegmentAgrees ==
  ASSUME NEW x \in Strings, NEW y \in Strings, NEW lx, NEW ly, NoBadEscapes(y),
         NEW n \in Nat, 1 <= n, n <= Len(x), x[1] # "{", x[1] # "/",
         \A k \in 1 .. n : x[k] \notin DOMAIN Escapes,
         MatchesSegment(PatternSegment(x, lx), PathSegment(y, ly))
  PROVE  Len(y) = Len(x) /\ \A k \in 1 .. n : Decoded(y[k]) = x[k]
<1> DEFINE z == PathUnescape(x)
           w == PathSegment(y, ly)
<1>0. Len(x) \in Nat /\ Len(y) \in Nat
  BY LengthOfText
<1>1. x # Empty /\ 1 \in 1 .. n /\ 1 \in 1 .. Len(x) /\ \A k \in 1 .. n : k \in 1 .. Len(x)
  <2>1. 1 <= n /\ n <= Len(x) /\ n \in Nat
    OBVIOUS
  <2>2. 1 \in 1 .. n /\ 1 \in 1 .. Len(x) /\ \A k \in 1 .. n : k \in 1 .. Len(x)
    BY ONLY <1>0, <2>1
  <2>3. x # Empty
    BY ONLY <1>0, <2>1, EmptyText
  <2>4. QED
    BY <2>2, <2>3, Zenon
<1>2. DOMAIN z = 1 .. Len(x) /\ \A k \in 1 .. n : z[k] = x[k]
  BY <1>1, UnescapedText
<1>3. PatternSegment(x, lx) = Literal(x)
  BY <1>1 DEF PatternSegment
<1>4. Literal(x).kind = "literal" /\ Literal(x).key = z
  BY DEF Literal
<1>5. z # Empty
  <2>1. 1 \in DOMAIN z
    BY <1>1, <1>2
  <2> HIDE DEF z
  <2>2. QED
    BY <2>1, EmptyText
<1>6. w = z
  <2> HIDE DEF z, w
  <2>1. MatchesSegment(Literal(x), w)
    BY <1>3 DEF w
  <2>2. QED
    BY <1>4, <1>5, <2>1 DEF MatchesSegment
<1>7. w = PathUnescape(y)
  <2>1. w = Slash \/ w = PathUnescape(y)
    BY DEF PathSegment
  <2>2. w # Slash
    <3>1. z[1] # "/"
      BY <1>1, <1>2
    <3>2. Slash[1] = "/"
      BY DEF Slash
    <3> HIDE DEF z, w
    <3>3. QED
      BY <1>6, <3>1, <3>2
  <2>3. QED
    BY <2>1, <2>2
<1> HIDE DEF w, z
<1>8. DOMAIN w = 1 .. Len(y) /\ \A k \in 1 .. Len(y) : w[k] = Decoded(y[k])
  BY <1>7, UnescapedText
<1>9. Len(y) = Len(x)
  <2>1. 1 .. Len(y) = 1 .. Len(x)
    BY <1>2, <1>6, <1>8
  <2>2. QED
    BY ONLY <1>0, <2>1
<1>10. ASSUME NEW k \in 1 .. n PROVE Decoded(y[k]) = x[k]
  BY <1>1, <1>2, <1>6, <1>8, <1>9
<1>11. QED
  BY <1>9, <1>10

(* The segments A of a pattern match those of a path, or a beginning of them. *)
MatchesUpTo(A, B) ==
  /\ Len(A) <= Len(B)
  /\ \A k \in 1 .. Len(A) :
       MatchesSegment(PatternSegment(A[k], k = Len(A)), PathSegment(B[k], k = Len(B)))

LEMMA MatchesMeans ==
  ASSUME NEW t \in Strings, NEW q \in Strings, Matches(t, q)
  PROVE  MatchesUpTo(Segments(t), Segments(q))
<1> DEFINE A == Segments(t)
           B == Segments(q)
           P == PatternSegments(t)
           Q == PathSegments(q)
<1>1. A \in Seq(Strings) /\ B \in Seq(Strings)
  BY SegmentsType
<1>2. P = [k \in DOMAIN A |-> PatternSegment(A[k], k = Len(A))]
  BY DEF PatternSegments
<1>3. Q = [k \in DOMAIN B |-> PathSegment(B[k], k = Len(B))]
  BY DEF PathSegments
<1>4. Len(P) <= Len(Q) /\ \A k \in DOMAIN P : MatchesSegment(P[k], Q[k])
  BY DEF Matches
<1> HIDE DEF A, B, P, Q
<1>5. DOMAIN A = 1 .. Len(A) /\ DOMAIN B = 1 .. Len(B) /\ Len(A) \in Nat /\ Len(B) \in Nat
  BY <1>1
<1>6. /\ P = [k \in 1 .. Len(A) |-> PatternSegment(A[k], k = Len(A))]
      /\ Q = [k \in 1 .. Len(B) |-> PathSegment(B[k], k = Len(B))]
  BY <1>2, <1>3, <1>5
<1>7. Len(P) = Len(A)
  <2>1. P = [k \in 1 .. Len(A) |-> P[k]]
    BY ONLY <1>6
  <2>2. QED
    BY <1>5, <2>1, LengthOf
<1>8. Len(Q) = Len(B)
  <2>1. Q = [k \in 1 .. Len(B) |-> Q[k]]
    BY ONLY <1>6
  <2>2. QED
    BY <1>5, <2>1, LengthOf
<1>9. ASSUME NEW k \in 1 .. Len(A)
      PROVE  MatchesSegment(PatternSegment(A[k], k = Len(A)), PathSegment(B[k], k = Len(B)))
  <2>1. k \in 1 .. Len(B)
    BY <1>4, <1>5, <1>7, <1>8
  <2>2. P[k] = PatternSegment(A[k], k = Len(A)) /\ Q[k] = PathSegment(B[k], k = Len(B))
    BY <1>6, <2>1
  <2>3. MatchesSegment(P[k], Q[k])
    <3>1. k \in DOMAIN P
      BY <1>6
    <3>2. QED
      BY <1>4, <3>1
  <2>4. QED
    BY <2>2, <2>3
<1>10. MatchesUpTo(A, B)
  BY <1>4, <1>7, <1>8, <1>9 DEF MatchesUpTo
<1>11. QED
  BY <1>10 DEF A, B

LEMMA MatchesTail ==
  ASSUME NEW A \in Seq(Strings), NEW a \in Seq(Strings), NEW B \in Seq(Strings), NEW b \in Seq(Strings),
         Len(A) = 1 + Len(a), \A k \in 1 .. Len(a) : A[k + 1] = a[k],
         Len(B) = 1 + Len(b), \A k \in 1 .. Len(b) : B[k + 1] = b[k],
         MatchesUpTo(A, B)
  PROVE  MatchesUpTo(a, b)
<1>1. Len(a) \in Nat /\ Len(b) \in Nat /\ Len(a) <= Len(b)
  BY DEF MatchesUpTo
<1>2. ASSUME NEW k \in 1 .. Len(a)
      PROVE  MatchesSegment(PatternSegment(a[k], k = Len(a)), PathSegment(b[k], k = Len(b)))
  <2>1. k + 1 \in 1 .. Len(A) /\ k \in 1 .. Len(b)
    BY <1>1
  <2>2. MatchesSegment(PatternSegment(A[k + 1], k + 1 = Len(A)), PathSegment(B[k + 1], k + 1 = Len(B)))
    BY <2>1 DEF MatchesUpTo
  <2>3. (k + 1 = Len(A)) = (k = Len(a)) /\ (k + 1 = Len(B)) = (k = Len(b))
    BY <1>1, <2>1
  <2>4. A[k + 1] = a[k] /\ B[k + 1] = b[k]
    BY <2>1
  <2>5. QED
    BY <2>2, <2>3, <2>4
<1>3. QED
  BY <1>1, <1>2 DEF MatchesUpTo

(* s begins t, and the mux reads it as it is written. *)
Begins(s, t) ==
  /\ s \in Strings /\ t \in Strings /\ Len(s) <= Len(t) /\ \A k \in 1 .. Len(s) : s[k] = t[k]
  /\ Verbatim(s) /\ NoEmptySegment(s)

(* From i on the decoded path agrees with s. *)
AgreesFrom(s, q, i) ==
  \A k \in Nat : i <= k /\ k <= Len(s) => k <= Len(q) /\ Decoded(q[k]) = s[k]

LEMMA SlashDecoded == Decoded("/") = "/"
  BY MuxAssumption DEF Decoded, Delimiters

LEMMA VerbatimToken ==
  ASSUME NEW s \in Strings, Verbatim(s), NEW k \in 1 .. Len(s)
  PROVE  s[k] # "{" /\ s[k] \notin DOMAIN Escapes
<1>1. DOMAIN s = 1 .. Len(s)
  BY DEF Strings
<1>2. QED
  BY <1>1, Zenon DEF Verbatim

(* The segment after m: the two texts agree up to its end. *)
LEMMA OneSegmentAgrees ==
  ASSUME NEW t, NEW s, Begins(s, t), NEW q \in Strings, NoBadEscapes(q),
         NEW m \in 1 .. Len(t), m < Len(s), m <= Len(q), t[m] = "/",
         NEW lx, NEW ly,
         MatchesSegment(PatternSegment(SegmentAt(t, m), lx), PathSegment(SegmentAt(q, m), ly))
  PROVE  /\ NextSlash(t, m) = NextSlash(q, m)
         /\ \A k \in Nat : m < k /\ k < NextSlash(t, m) /\ k <= Len(s) => Decoded(q[k]) = s[k]
<1> DEFINE e == NextSlash(t, m)
           d == NextSlash(q, m)
           x == SegmentAt(t, m)
           y == SegmentAt(q, m)
<1>1. /\ t \in Strings /\ s \in Strings /\ Len(t) \in Nat /\ Len(s) \in Nat /\ Len(s) <= Len(t)
      /\ \A k \in 1 .. Len(s) : s[k] = t[k]
  BY DEF Begins, Strings
<1>2. m \in 1 .. Len(q) /\ Len(q) \in Nat
  BY DEF Strings
<1>3. /\ e \in (m + 1) .. (Len(t) + 1) /\ (e <= Len(t) => t[e] = "/")
      /\ d \in (m + 1) .. (Len(q) + 1)
  BY <1>1, <1>2, NextSlashIs
<1>4. x \in Strings /\ Len(x) = e - 1 - m /\ \A k \in 1 .. (e - 1 - m) : x[k] = t[m + k]
  BY <1>1, SegmentText
<1>5. y \in Strings /\ Len(y) = d - 1 - m /\ \A k \in 1 .. (d - 1 - m) : y[k] = q[m + k]
  BY <1>2, SegmentText
<1> HIDE DEF e, d, x, y
<1>6. s[m] = "/" /\ s[m + 1] = t[m + 1] /\ s[m + 1] # "{" /\ s[m + 1] # "/"
  <2>1. m \in 1 .. Len(s) /\ m + 1 \in 1 .. Len(s) /\ m \in 1 .. (Len(s) - 1)
    BY <1>1
  <2>2. s[m + 1] # "{"
    BY <1>1, <2>1, VerbatimToken DEF Begins
  <2>3. ~(s[m] = "/" /\ s[m + 1] = "/")
    BY <2>1 DEF Begins, NoEmptySegment
  <2>4. QED
    BY <1>1, <2>1, <2>2, <2>3
<1>7. e # m + 1
  <2>1. m < Len(s) /\ m \in 1 .. Len(t)
    OBVIOUS
  <2>2. m + 1 <= Len(t)
    BY ONLY <1>1, <2>1
  <2>3. t[m + 1] # "/"
    BY <1>6, Zenon
  <2>4. QED
    BY ONLY <1>3, <2>2, <2>3
<1> DEFINE n == IF e <= Len(s) THEN e - 1 - m ELSE Len(s) - m
<1>8. n \in Nat /\ 1 <= n /\ n <= Len(x) /\ m + n <= Len(s)
  BY <1>1, <1>3, <1>4, <1>7
<1>9. \A k \in 1 .. n : x[k] = s[m + k] /\ x[k] \notin DOMAIN Escapes
  <2> TAKE k \in 1 .. n
  <2>1. k \in 1 .. (e - 1 - m) /\ m + k \in 1 .. Len(s)
    BY <1>1, <1>3, <1>4, <1>8
  <2>2. x[k] = s[m + k]
    BY <1>1, <1>4, <2>1
  <2>3. s[m + k] \notin DOMAIN Escapes
    BY <1>1, <2>1, VerbatimToken DEF Begins
  <2>4. QED
    BY <2>2, <2>3
<1> HIDE DEF n
<1>10. x[1] # "{" /\ x[1] # "/"
  <2>1. 1 \in 1 .. n
    BY <1>8
  <2>2. QED
    BY <1>6, <1>9, <2>1
<1>11. NoBadEscapes(y)
  <2> SUFFICES ASSUME NEW k \in 1 .. Len(y) PROVE y[k] \notin BadEscapes
    BY DEF NoBadEscapes
  <2>1. k \in 1 .. (d - 1 - m) /\ m + k \in 1 .. Len(q)
    BY <1>2, <1>3, <1>5
  <2>2. QED
    BY <1>5, <2>1 DEF NoBadEscapes
<1>12. Len(y) = Len(x) /\ \A k \in 1 .. n : Decoded(y[k]) = x[k]
  <2>1. MatchesSegment(PatternSegment(x, lx), PathSegment(y, ly))
    BY DEF x, y
  <2>2. QED
    BY <1>4, <1>5, <1>8, <1>9, <1>10, <1>11, <2>1, SegmentAgrees
<1>13. e = d
  BY <1>3, <1>4, <1>5, <1>12
<1>14. ASSUME NEW k \in Nat, m < k, k < e, k <= Len(s) PROVE Decoded(q[k]) = s[k]
  <2>1. k - m \in 1 .. n /\ k - m \in 1 .. (d - 1 - m) /\ m + (k - m) = k
    BY <1>1, <1>3, <1>13, <1>14 DEF n
  <2>2. y[k - m] = q[k] /\ x[k - m] = s[k] /\ Decoded(y[k - m]) = x[k - m]
    BY <1>5, <1>9, <1>12, <2>1
  <2>3. QED
    BY <2>2
<1>15. QED
  BY <1>13, <1>14 DEF e, d

LEMMA MatchAgrees ==
  ASSUME NEW t, NEW s, Begins(s, t), NEW q \in Strings, NoBadEscapes(q),
         NEW f, NEW g, Splits(t, f), Splits(q, g)
  PROVE  \A i \in 1 .. Len(t) :
           t[i] = "/" /\ i <= Len(q) /\ q[i] = "/" /\ MatchesUpTo(f[i], g[i]) => AgreesFrom(s, q, i)
<1> DEFINE Starts(i) == t[i] = "/" /\ i <= Len(q) /\ q[i] = "/" /\ MatchesUpTo(f[i], g[i])
           T == {i \in 1 .. Len(t) : Starts(i) /\ ~AgreesFrom(s, q, i)}
<1>0. /\ t \in Strings /\ s \in Strings /\ Len(t) \in Nat /\ Len(s) \in Nat /\ Len(s) <= Len(t)
      /\ Len(q) \in Nat /\ \A k \in 1 .. Len(s) : s[k] = t[k]
  BY DEF Begins, Strings
<1>1. T = {}
  <2> SUFFICES ASSUME T # {} PROVE FALSE
    OBVIOUS
  <2>1. PICK m \in T : \A k \in T : m >= k
    <3>1. T \in SUBSET (0 .. Len(t))
      BY <1>0
    <3>2. QED
      BY <1>0, <3>1, GreatestOf
  <2>2. /\ m \in 1 .. Len(t) /\ m \in 1 .. Len(q) /\ ~AgreesFrom(s, q, m)
        /\ t[m] = "/" /\ q[m] = "/" /\ MatchesUpTo(f[m], g[m])
    BY <1>0
  <2>3. m <= Len(s) => Decoded(q[m]) = s[m]
    BY <1>0, <2>2, SlashDecoded
  <2>4. CASE ~(m < Len(s))
    BY <1>0, <2>2, <2>3, <2>4 DEF AgreesFrom
  <2>5. CASE m < Len(s)
    <3> DEFINE e == NextSlash(t, m)
               d == NextSlash(q, m)
    <3>1. /\ e \in (m + 1) .. (Len(t) + 1)
          /\ f[m] \in Seq(Strings) /\ f[e] \in Seq(Strings)
          /\ Len(f[m]) = 1 + Len(f[e]) /\ f[m][1] = SegmentAt(t, m)
          /\ \A k \in 1 .. Len(f[e]) : f[m][k + 1] = f[e][k]
      <4>1. m \in 1 .. Len(t) /\ t \in Strings
        BY <1>0, <2>2
      <4> HIDE DEF T
      <4>2. QED
        BY <4>1, HeadTail
    <3>2. /\ d \in (m + 1) .. (Len(q) + 1)
          /\ g[m] \in Seq(Strings) /\ g[d] \in Seq(Strings)
          /\ Len(g[m]) = 1 + Len(g[d]) /\ g[m][1] = SegmentAt(q, m)
          /\ \A k \in 1 .. Len(g[d]) : g[m][k + 1] = g[d][k]
      <4>1. m \in 1 .. Len(q)
        BY <2>2
      <4> HIDE DEF T
      <4>2. QED
        BY <4>1, HeadTail
    <3>3. /\ e <= Len(t) => t[e] = "/"
          /\ d <= Len(q) => q[d] = "/"
      BY <1>0, <2>2, NextSlashIs
    <3>4. /\ e = d
          /\ \A k \in Nat : m < k /\ k < e /\ k <= Len(s) => Decoded(q[k]) = s[k]
      <4>1. 1 \in 1 .. Len(f[m])
        <5> HIDE DEF e
        <5>1. Len(f[e]) \in Nat
          BY <3>1
        <5>2. QED
          BY <3>1, <5>1
      <4>2. MatchesSegment(PatternSegment(f[m][1], 1 = Len(f[m])), PathSegment(g[m][1], 1 = Len(g[m])))
        BY <2>2, <4>1 DEF MatchesUpTo
      <4>3. MatchesSegment(PatternSegment(SegmentAt(t, m), 1 = Len(f[m])),
                           PathSegment(SegmentAt(q, m), 1 = Len(g[m])))
        BY <3>1, <3>2, <4>2
      <4>4. m <= Len(q)
        BY <2>2
      <4> HIDE DEF T
      <4>5. QED
        BY <2>2, <2>5, <4>3, <4>4, OneSegmentAgrees
    <3> HIDE DEF e, d
    <3>5. AgreesFrom(s, q, m) \/ e <= Len(s)
      <4> SUFFICES ASSUME ~(e <= Len(s)), NEW k \in Nat, m <= k, k <= Len(s)
                   PROVE  k <= Len(q) /\ Decoded(q[k]) = s[k]
        BY DEF AgreesFrom
      <4>1. k < e /\ k <= Len(q)
        BY <1>0, <3>1, <3>2, <3>4
      <4>2. CASE k = m
        BY <2>3, <4>1, <4>2
      <4>3. CASE k # m
        BY <2>2, <3>4, <4>1, <4>3
      <4>4. QED
        BY <4>2, <4>3
    <3>6. CASE e <= Len(s)
      <4>1. e \in 1 .. Len(t) /\ t[e] = "/" /\ ~(m >= e)
        BY <1>0, <2>2, <3>1, <3>3, <3>6
      <4>2. MatchesUpTo(f[e], g[d])
        BY <2>2, <3>1, <3>2, MatchesTail
      <4>3. Len(f[e]) > 0
        <5>1. f[NextSlash(t, e)] \in Seq(Strings) /\ Len(f[e]) = 1 + Len(f[NextSlash(t, e)])
          BY <1>0, <4>1, HeadTail
        <5>2. Len(f[NextSlash(t, e)]) \in Nat
          BY <5>1
        <5>3. QED
          BY <5>1, <5>2
      <4>4. d <= Len(q)
        <5> SUFFICES ASSUME ~(d <= Len(q)) PROVE FALSE
          OBVIOUS
        <5>1. d = Len(q) + 1
          <6>1. d \in (m + 1) .. (Len(q) + 1) /\ m \in Nat
            BY <2>2, <3>2
          <6>2. QED
            BY <1>0, <6>1
        <5>2. g[d] = <<>>
          BY <5>1, NoMore
        <5>3. Len(g[d]) = 0
          BY <5>2
        <5>4. Len(f[e]) <= Len(g[d])
          BY <4>2 DEF MatchesUpTo
        <5>5. Len(f[e]) \in Nat
          BY <3>1
        <5>6. QED
          BY <4>3, <5>3, <5>4, <5>5
      <4>5. Starts(e)
        BY <3>3, <3>4, <4>1, <4>2, <4>4
      <4>6. AgreesFrom(s, q, e)
        <5> HIDE DEF Starts
        <5>1. e \notin T
          <6> HIDE DEF T
          <6>1. QED
            BY <2>1, <4>1
        <5>2. QED
          BY <4>1, <4>5, <5>1
      <4>7. AgreesFrom(s, q, m)
        <5> SUFFICES ASSUME NEW k \in Nat, m <= k, k <= Len(s)
                     PROVE  k <= Len(q) /\ Decoded(q[k]) = s[k]
          BY DEF AgreesFrom
        <5>1. CASE k = m
          BY <2>2, <2>3, <5>1
        <5>2. CASE k # m /\ k < e
          <6>1. m < k /\ k <= Len(q)
            <7>1. m \in Nat /\ d \in Nat /\ e = d
              BY <2>2, <3>2, <3>4
            <7>2. QED
              BY <1>0, <4>4, <5>2, <7>1
          <6>2. QED
            BY <3>4, <5>2, <6>1
        <5>3. CASE k # m /\ ~(k < e)
          <6>1. e <= k
            <7>1. e \in Nat
              BY <3>1
            <7>2. QED
              BY <5>3, <7>1
          <6>2. QED
            BY ONLY <4>6, <5>3, <6>1, k \in Nat, k <= Len(s) DEF AgreesFrom
        <5>4. QED
          BY <5>1, <5>2, <5>3
      <4>8. QED
        BY <2>2, <4>7
    <3>7. QED
      BY <2>2, <3>5, <3>6
  <2>6. QED
    BY <2>4, <2>5
<1>2. QED
  BY <1>1

(* A path that matches a pattern begins, decoded, with what the pattern    *)
(* begins with, as far as that is read as it is written.                   *)
LEMMA MatchingPath ==
  ASSUME NEW t, Rooted(t), NEW s, Begins(s, t),
         NEW q, Rooted(q), NoBadEscapes(q), Matches(t, q)
  PROVE  /\ URLPath(q) \in Strings /\ Len(URLPath(q)) = Len(q)
         /\ HasPrefix(URLPath(q), s)
<1>1. /\ t \in Strings /\ q \in Strings /\ s \in Strings
      /\ t[1] = "/" /\ q[1] = "/" /\ 1 \in 1 .. Len(t) /\ 1 <= Len(q)
      /\ Len(s) \in Nat /\ Len(q) \in Nat /\ DOMAIN q = 1 .. Len(q)
  BY DEF Rooted, Begins, Strings, Empty
<1>2. PICK f : Segments(t) = f[1] /\ Splits(t, f)
  BY <1>1, SegmentsEquation
<1>3. PICK g : Segments(q) = g[1] /\ Splits(q, g)
  BY <1>1, SegmentsEquation
<1>4. MatchesUpTo(f[1], g[1])
  BY <1>1, <1>2, <1>3, MatchesMeans
<1>5. AgreesFrom(s, q, 1)
  BY <1>1, <1>2, <1>3, <1>4, MatchAgrees
<1> DEFINE u == URLPath(q)
<1>6. u = [i \in 1 .. Len(q) |-> Decoded(q[i])]
  BY <1>1 DEF URLPath
<1>7. \A i \in 1 .. Len(q) : Decoded(q[i]) \in Tokens
  BY <1>1, MuxAssumption DEF Decoded, Strings
<1> HIDE DEF u
<1>8. u \in Strings
  <2>1. u \in [1 .. Len(q) -> Tokens]
    BY <1>6, <1>7
  <2>2. QED
    BY <1>1, <2>1 DEF Strings
<1>9. Len(u) = Len(q)
  <2>1. u = [i \in 1 .. Len(q) |-> u[i]]
    BY ONLY <1>6
  <2>2. QED
    BY <1>1, <2>1, LengthOf
<1>10. \A k \in 1 .. Len(s) : k \in 1 .. Len(q) /\ u[k] = s[k]
  BY <1>1, <1>5, <1>6 DEF AgreesFrom
<1>11. Len(s) <= Len(u)
  <2>1. Len(s) = 0 \/ Len(s) \in 1 .. Len(s)
    BY <1>1
  <2>2. QED
    BY <1>1, <1>9, <1>10, <2>1
<1>12. SubSeq(s, 1, Len(s)) = SubSeq(u, 1, Len(s))
  <2> DEFINE a == SubSeq(s, 1, Len(s))
             b == SubSeq(u, 1, Len(s))
  <2>1. a \in Strings /\ Len(a) = Len(s) /\ \A k \in 1 .. Len(s) : a[k] = s[k]
    BY <1>1 DEF Strings
  <2>2. b \in Strings /\ Len(b) = Len(s) /\ \A k \in 1 .. Len(s) : b[k] = u[k]
    BY <1>1, <1>8, <1>11 DEF Strings
  <2> HIDE DEF a, b
  <2>3. a = b
    BY <1>10, <2>1, <2>2, SeqEqual DEF Strings
  <2>4. QED
    BY <2>3 DEF a, b
<1>13. HasPrefix(u, s)
  BY <1>11, <1>12 DEF HasPrefix, IsPrefix
<1>14. QED
  BY <1>8, <1>9, <1>13 DEF u
-----------------------------------------------------------------------------
(* The patterns of a route *)

LEMMA PrefixTokens ==
  ASSUME NEW t \in Strings, NEW q \in Strings, HasPrefix(t, q)
  PROVE  Len(q) <= Len(t) /\ \A i \in 1 .. Len(q) : q[i] = t[i]
<1>1. Len(q) \in Nat /\ Len(t) \in Nat /\ Len(q) <= Len(t)
  BY DEF HasPrefix, IsPrefix, Strings
<1>2. SubSeq(q, 1, Len(q)) = SubSeq(t, 1, Len(q))
  BY DEF HasPrefix, IsPrefix
<1>3. \A i \in 1 .. Len(q) : SubSeq(q, 1, Len(q))[i] = q[i] /\ SubSeq(t, 1, Len(q))[i] = t[i]
  BY <1>1 DEF Strings
<1>4. QED
  BY <1>1, <1>2, <1>3

LEMMA PrefixSplits ==
  ASSUME NEW t \in Strings, NEW q \in Strings, HasPrefix(t, q)
  PROVE  t = q \o SubSeq(t, Len(q) + 1, Len(t))
<1>1. Len(q) \in Nat /\ Len(t) \in Nat /\ Len(q) <= Len(t)
  BY PrefixTokens DEF Strings
<1>2. \A i \in 1 .. Len(q) : q[i] = t[i]
  BY PrefixTokens
<1>3. QED
  BY <1>1, <1>2 DEF Strings

(* A text without its last token. *)
LEMMA FrontText ==
  ASSUME NEW t \in Strings, t # Empty
  PROVE  /\ Front(t) \in Strings /\ Len(Front(t)) = Len(t) - 1
         /\ \A i \in 1 .. (Len(t) - 1) : Front(t)[i] = t[i]
  BY DEF Front, Strings, Empty

(* A prefix that does not reach the last token is one of the front. *)
LEMMA PrefixOfFront ==
  ASSUME NEW t \in Strings, t # Empty, NEW q \in Strings, HasPrefix(t, q), Len(q) # Len(t)
  PROVE  HasPrefix(Front(t), q)
<1>1. Len(q) \in Nat /\ Len(t) \in Nat /\ Len(q) <= Len(t) - 1
  BY DEF HasPrefix, IsPrefix, Strings
<1>2. SubSeq(Front(t), 1, Len(q)) = SubSeq(t, 1, Len(q))
  BY <1>1, FrontText DEF Strings
<1>3. QED
  BY <1>1, <1>2, FrontText DEF HasPrefix, IsPrefix

LEMMA PrefixOfSameLength ==
  ASSUME NEW t \in Strings, NEW q \in Strings, HasPrefix(t, q), Len(q) = Len(t)
  PROVE  t = q
<1>1. SubSeq(q, 1, Len(q)) = q /\ SubSeq(t, 1, Len(t)) = t
  BY DEF Strings
<1>2. QED
  BY <1>1 DEF HasPrefix, IsPrefix

LEMMA PatternsOf ==
  ASSUME NEW p, NEW x \in RoutePatterns(p)
  PROVE  x = p \/ (x = Front(p) /\ p # Slash)
  BY DEF RoutePatterns, Front

LEMMA PatternIsRooted ==
  ASSUME NEW p, Subtree(p), NEW x \in RoutePatterns(p)
  PROVE  Rooted(x) /\ (Verbatim(p) => Verbatim(x))
<1>1. p \in Strings /\ p # Empty /\ p[1] = "/" /\ p[Len(p)] = "/"
  BY DEF Subtree, Rooted
<1>2. CASE x = p
  BY <1>2 DEF Subtree
<1>3. CASE x = Front(p) /\ p # Slash
  <2>1. x \in Strings /\ Len(x) = Len(p) - 1 /\ \A i \in 1 .. (Len(p) - 1) : x[i] = p[i]
    BY <1>1, <1>3, FrontText
  <2>2. Len(p) \in Nat /\ Len(p) > 1
    <3>1. Len(p) \in Nat /\ Len(p) # 0
      BY <1>1 DEF Strings, Empty
    <3>2. Len(p) # 1
      <4> SUFFICES ASSUME Len(p) = 1 PROVE FALSE
        OBVIOUS
      <4>1. Slash \in Seq({"/"}) /\ Len(Slash) = 1 /\ Slash[1] = "/"
        BY DEF Slash
      <4>2. p \in Seq(Tokens) /\ \A k \in 1 .. Len(p) : p[k] = Slash[k]
        BY <1>1, <4>1 DEF Strings
      <4>3. "/" \in Tokens
        BY TextAssumption DEF Delimiters
      <4>4. Slash \in Seq(Tokens)
        BY <4>3 DEF Slash
      <4>5. p = Slash
        BY <4>1, <4>2, <4>4, SeqEqual
      <4>6. QED
        BY <1>3, <4>5
    <3>3. QED
      <4> DEFINE n == Len(p)
      <4>1. n \in Nat /\ n # 0 /\ n # 1
        BY <3>1, <3>2
      <4> HIDE DEF n
      <4>2. n \in Nat /\ n > 1
        BY <4>1
      <4>3. QED
        BY <4>2 DEF n
  <2>3. Rooted(x)
    BY <1>1, <2>1, <2>2 DEF Rooted, Empty
  <2>4. DOMAIN x = 1 .. (Len(p) - 1) /\ DOMAIN p = 1 .. Len(p)
    BY <1>1, <2>1, LengthOfText
  <2>5. \A i \in DOMAIN x : i \in DOMAIN p /\ x[i] = p[i]
    BY <2>1, <2>2, <2>4
  <2>6. Verbatim(p) => Verbatim(x)
    BY <2>5, Zenon DEF Verbatim
  <2>7. QED
    BY <2>3, <2>6
<1>4. QED
  BY <1>2, <1>3, PatternsOf

(* Both patterns of a route begin with its stripPrefix. *)
LEMMA PatternBegins ==
  ASSUME NEW p, Subtree(p), NEW s \in Strings, s = Slash \/ s = Empty \/ s[Len(s)] # "/",
         HasPrefix(p, s), Verbatim(s), NoEmptySegment(s), NEW x \in RoutePatterns(p)
  PROVE  Begins(s, x)
<1>1. p \in Strings /\ p # Empty /\ p[Len(p)] = "/"
  BY DEF Subtree, Rooted
<1>2. x \in Strings
  BY PatternIsRooted DEF Rooted
<1>3. HasPrefix(x, s)
  <2>1. CASE x = p
    BY <2>1
  <2>2. CASE x = Front(p) /\ p # Slash
    <3>1. Len(s) # Len(p)
      <4> SUFFICES ASSUME Len(s) = Len(p) PROVE FALSE
        OBVIOUS
      <4>1. p = s
        BY <1>1, PrefixOfSameLength
      <4>2. QED
        BY <1>1, <2>2, <4>1
    <3>2. QED
      BY <1>1, <2>2, <3>1, PrefixOfFront
  <2>3. QED
    BY <2>1, <2>2, PatternsOf
<1>4. QED
  BY <1>2, <1>3, PrefixTokens DEF Begins

(* What is left of a path that matches is the rest behind the stripPrefix. *)
LEMMA StripCovers ==
  ASSUME NEW t, Rooted(t), NEW s, Begins(s, t),
         NEW q, Rooted(q), NoBadEscapes(q), Matches(t, q)
  PROVE  LET rest == SubSeq(URLPath(q), Len(s) + 1, Len(q))
         IN  /\ URLPath(q) = s \o rest
             /\ RewritePath(URLPath(q), s) = WithLeadingSlash(rest)
<1>1. URLPath(q) \in Strings /\ Len(URLPath(q)) = Len(q) /\ HasPrefix(URLPath(q), s)
  BY MatchingPath
<1>2. s \in Strings
  BY DEF Begins
<1>3. URLPath(q) = s \o SubSeq(URLPath(q), Len(s) + 1, Len(q))
  BY <1>1, <1>2, PrefixSplits
<1>4. TrimPrefix(URLPath(q), s) = SubSeq(URLPath(q), Len(s) + 1, Len(q))
  BY <1>1 DEF TrimPrefix
<1>5. QED
  BY <1>3, <1>4 DEF RewritePath

(* A text is its front and its last token. *)
LEMMA FrontDetermines ==
  ASSUME NEW t \in Strings, t # Empty, NEW u \in Strings, u # Empty,
         Front(t) = Front(u), t[Len(t)] = u[Len(u)]
  PROVE  t = u
<1>1. Len(t) \in Nat \ {0} /\ Len(u) \in Nat \ {0}
  BY DEF Strings, Empty
<1>2. Len(t) = Len(u)
  BY <1>1, FrontText
<1>3. \A i \in 1 .. Len(t) : t[i] = u[i]
  BY <1>1, <1>2, FrontText
<1>4. QED
  BY <1>2, <1>3 DEF Strings

LEMMA DoubleSlash ==
  ASSUME NEW t \in Strings, t # Empty, NEW u \in Strings, u # Empty,
         t[Len(t)] = "/", u[Len(u)] = "/", t = Front(u)
  PROVE  HasSuffix(u, <<"/", "/">>)
<1>1. Len(t) \in Nat \ {0} /\ Len(u) = Len(t) + 1
  BY FrontText DEF Strings, Empty
<1>2. u[Len(u) - 1] = "/" /\ u[Len(u)] = "/"
  BY <1>1, FrontText
<1>3. QED
  BY <1>1, <1>2 DEF HasSuffix, IsSuffix, IsPrefix, Reverse, Strings

(* Two routes get the same pattern only if one prefix ends in two slashes. *)
LEMMA PatternsClash ==
  ASSUME NEW p \in Strings, p # Empty, p[Len(p)] = "/",
         NEW q \in Strings, q # Empty, q[Len(q)] = "/",
         p # q, NEW x \in RoutePatterns(p), x \in RoutePatterns(q)
  PROVE  HasSuffix(p, <<"/", "/">>) \/ HasSuffix(q, <<"/", "/">>)
<1>1. /\ x = p \/ x = Front(p)
      /\ x = q \/ x = Front(q)
  BY PatternsOf
<1>2. CASE x = p /\ x = Front(q)
  BY <1>2, DoubleSlash
<1>3. CASE x = Front(p) /\ x = q
  BY <1>3, DoubleSlash
<1>4. CASE x = Front(p) /\ x = Front(q)
  BY <1>4, FrontDetermines
<1>5. QED
  BY <1>1, <1>2, <1>3, <1>4

LEMMA PatternTokens ==
  ASSUME NEW p \in Strings, p # Empty, NEW x \in RoutePatterns(p), NEW c, Contains(x, c)
  PROVE  Contains(p, c)
<1>1. CASE x = p
  BY <1>1
<1>2. CASE x = Front(p)
  <2>1. PICK i \in 1 .. Len(Front(p)) : Front(p)[i] = c
    BY <1>2 DEF Contains
  <2>2. i \in 1 .. Len(p) /\ p[i] = c
    BY <2>1, FrontText DEF Strings
  <2>3. QED
    BY <2>2 DEF Contains
<1>3. QED
  BY <1>1, <1>2, PatternsOf
-----------------------------------------------------------------------------
(* A configuration that a reload accepts has the fixed fields of the one   *)
(* in force, and the one in force is accepted.                             *)
LEMMA ReloadableIsFixed ==
  ASSUME Running, FixedUntilRestart, NEW c, Reloadable(c)
  PROVE  FixedFields(c) = started
  BY DEF FixedUntilRestart, Reloadable, FixedFields, ShutdownTimeoutDuration

LEMMA CurrentIsReloadable ==
  ASSUME Running, FixedUntilRestart
  PROVE  Reloadable(current)
  BY DEF FixedUntilRestart, Reloadable, FixedFields, ShutdownTimeoutDuration

LEMMA Positions ==
  ASSUME NEW len \in Nat, NEW n \in 0 .. len, n < len
  PROVE  n \in Nat /\ n + 1 \in 1 .. len /\ \A k \in 1 .. n : k \in 1 .. len /\ k # n + 1
  OBVIOUS

LEMMA PairText ==
  ASSUME NEW a \in Tokens, NEW b \in Tokens
  PROVE  <<a, b>> \in Strings
  BY DEF Strings

(* The patterns of the system routes are read as they are written. *)
LEMMA SystemIsVerbatim ==
  ASSUME NEW q \in SystemPatterns
  PROVE  Rooted(q) /\ Verbatim(q)
<1>1. PICK w \in {"ping", "health", "version"} : q = <<"/", w>>
  BY DEF SystemPatterns
<1>2. /\ w \in Tokens /\ w \notin DOMAIN Escapes /\ w # "{"
      /\ "/" \in Tokens /\ "/" \notin DOMAIN Escapes
  BY <1>1, ConfigAssumption, MuxAssumption, TextAssumption DEF Delimiters
<1>3. q \in Strings /\ Len(q) = 2 /\ q[1] = "/" /\ q[2] = w
  <2>1. Len(q) = 2 /\ q[1] = "/" /\ q[2] = w
    BY <1>1
  <2>2. <<"/", w>> \in Strings
    BY <1>2, PairText
  <2>3. QED
    BY <1>1, <2>1, <2>2
<1>4. Rooted(q)
  BY <1>3, EmptyText DEF Rooted
<1>5. Verbatim(q)
  <2>1. DOMAIN q = 1 .. 2
    BY <1>3, LengthOfText
  <2>2. \A i \in 1 .. 2 : i = 1 \/ i = 2
    OBVIOUS
  <2>3. "/" # "{"
    OBVIOUS
  <2>4. QED
    BY <1>2, <1>3, <2>1, <2>2, <2>3, Zenon DEF Verbatim
<1>6. QED
  BY <1>4, <1>5

(* Why the prefix of a route may make the mux panic. *)
Explained(prefix) ==
  \/ ~Verbatim(prefix)
  \/ \E c \in Blanks : Contains(prefix, c)
  \/ HasSuffix(prefix, <<"/", "/">>)
  \/ RoutePatterns(prefix) \cap SystemPatterns # {}

(* A pattern without braces, escapes and blanks can be registered unless   *)
(* it is there already.                                                    *)
LEMMA PatternClash ==
  ASSUME NEW p, Subtree(p), ~Explained(p), NEW x \in RoutePatterns(p),
         NEW q, Rooted(q), Verbatim(q), Conflicts(x, q)
  PROVE  x = q
<1>1. Verbatim(p)
  BY Zenon DEF Explained
<1>2. Rooted(x) /\ Verbatim(x)
  BY <1>1, PatternIsRooted
<1>3. QED
  BY <1>2, VerbatimConflict

LEMMA PatternParses ==
  ASSUME NEW p, Subtree(p), ~Explained(p), NEW x \in RoutePatterns(p)
  PROVE  WellFormed(x)
<1>1. Verbatim(p) /\ \A c \in Blanks : ~Contains(p, c)
  BY Zenon DEF Explained
<1>2. x \in Strings /\ Verbatim(x) /\ p \in Strings /\ p # Empty
  BY <1>1, PatternIsRooted DEF Rooted, Subtree
<1>3. \A c \in Blanks : ~Contains(x, c)
  BY <1>1, <1>2, PatternTokens
<1>4. QED
  BY <1>2, <1>3, VerbatimWellFormed

(* Why registering a route of a loaded and valid configuration may panic.  *)
LEMMA RegisterClash ==
  ASSUME NEW f \in Configs, NEW c, c = Loaded(f), Valid(c),
         NEW n \in 0 .. Len(c.routes), n < Len(c.routes),
         NEW x \in RoutePatterns(c.routes[n + 1].prefix),
         ~WellFormed(x) \/ \E q \in RegisteredPatterns(c, n) : Conflicts(x, q)
  PROVE  \E r \in Routes(c) : Explained(r.prefix)
<1> DEFINE r == c.routes[n + 1]
<1> SUFFICES ASSUME \A z \in Routes(c) : ~Explained(z.prefix) PROVE FALSE
  OBVIOUS
<1>0. DOMAIN c.routes = 1 .. Len(c.routes) /\ Len(c.routes) \in Nat
  BY LoadedLength
<1> DEFINE len == Len(c.routes)
           D   == DOMAIN c.routes
<1>1. n \in Nat /\ n + 1 \in D /\ \A k \in 1 .. n : k \in D /\ k # n + 1
  <2>1. D = 1 .. len /\ len \in Nat /\ n \in 0 .. len /\ n < len
    BY <1>0
  <2> HIDE DEF D, len
  <2>2. QED
    BY <2>1, Positions
<1>2. r \in Routes(c)
  BY <1>1 DEF Routes
<1>3. Subtree(r.prefix) /\ ~Explained(r.prefix)
  BY <1>1, <1>2, LoadedRoutes
<1>4. x \in RoutePatterns(r.prefix)
  OBVIOUS
<1> HIDE DEF r
<1>5. WellFormed(x)
  BY <1>3, <1>4, PatternParses
<1>6. PICK q \in RegisteredPatterns(c, n) : Conflicts(x, q)
  BY <1>5
<1>7. CASE q \in SystemPatterns
  <2>1. x = q
    BY <1>3, <1>4, <1>6, <1>7, SystemIsVerbatim, PatternClash
  <2>2. QED
    BY <1>3, <1>4, <1>7, <2>1 DEF Explained
<1>8. ASSUME NEW k \in 1 .. n, q \in RoutePatterns(c.routes[k].prefix)
      PROVE  FALSE
  <2> DEFINE z == c.routes[k]
  <2>1. k \in DOMAIN c.routes /\ k # n + 1
    BY <1>1
  <2>2. z \in Routes(c)
    BY <2>1 DEF Routes
  <2>3. Subtree(z.prefix) /\ ~Explained(z.prefix)
    BY <2>1, <2>2, LoadedRoutes
  <2>4. z.prefix # r.prefix
    BY <1>1, <2>1 DEF r, Valid, ValidRoutes, Distinct
  <2>5. q \in RoutePatterns(z.prefix)
    BY <1>8
  <2> HIDE DEF z
  <2>6. Verbatim(z.prefix)
    BY <2>3, Zenon DEF Explained
  <2>7. x = q
    BY <1>3, <1>4, <1>6, <2>3, <2>5, <2>6, PatternIsRooted, PatternClash
  <2>8. HasSuffix(r.prefix, <<"/", "/">>) \/ HasSuffix(z.prefix, <<"/", "/">>)
    BY <1>3, <1>4, <2>3, <2>4, <2>5, <2>7, PatternsClash DEF Subtree, Rooted
  <2>9. QED
    BY <1>3, <2>3, <2>8, Zenon DEF Explained
<1>9. CASE q \in UNION {RoutePatterns(c.routes[k].prefix) : k \in 1 .. n}
  <2>1. PICK k \in 1 .. n : q \in RoutePatterns(c.routes[k].prefix)
    BY <1>9
  <2>2. QED
    BY <1>8, <2>1
<1>10. QED
  BY <1>6, <1>7, <1>9 DEF RegisteredPatterns

LEMMA InitIInv == Init => IInv
  BY ConfigAssumption
     DEF Init, IInv, LoadInv, FixedInv, BuildInv, PanicsExplained, Running,
         FixedUntilRestart, SameFileReloads, Checked

LEMMA StepIInv == IInv /\ [Next]_vars => IInv'
<1> SUFFICES ASSUME IInv, [Next]_vars PROVE IInv'
  OBVIOUS
<1> USE DEF IInv, LoadInv, FixedInv, BuildInv, Running, FixedUntilRestart, SameFileReloads, Checked
<1>1. CASE UNCHANGED vars
  BY <1>1 DEF vars, PanicsExplained
<1>2. CASE Edit \/ Reload \/ Answer
  BY <1>2, ConfigAssumption DEF Edit, Reload, Answer, PanicsExplained
<1>3. CASE Expand
  BY <1>3 DEF Expand, Advance, Reject, PanicsExplained
<1>4. CASE Normalize
  BY <1>4 DEF Normalize, Advance, Loaded, PanicsExplained
<1>5. CASE Validate
  BY <1>5 DEF Validate, Advance, Reject, PanicsExplained
<1>6. CASE CheckReload
  <2>1. CASE Running /\ ~Reloadable(cfg)
    <3>1. file # source
      BY <1>6, <2>1, CurrentIsReloadable DEF CheckReload
    <3>2. QED
      BY <1>6, <2>1, <3>1 DEF CheckReload, Reject, PanicsExplained
  <2>2. CASE ~(Running /\ ~Reloadable(cfg))
    <3>1. Running => FixedFields(cfg) = started
      BY <2>2, ReloadableIsFixed
    <3>2. /\ stage = "valid" /\ stage' = "building" /\ built' = 0 /\ patterns' = SystemPatterns
          /\ UNCHANGED <<file, cfg, started, current, source>>
      BY <1>6, <2>2 DEF CheckReload
    <3>3. Len(cfg.routes) \in Nat
      BY <3>2, LoadedLength
    <3>4. patterns' = RegisteredPatterns(cfg, 0)
      BY <3>2 DEF RegisteredPatterns
    <3>5. BuildInv'
      BY <3>2, <3>3, <3>4 DEF PanicsExplained, RegisteredPatterns
    <3>6. QED
      BY <3>1, <3>2, <3>5
  <2>3. QED
    BY <2>1, <2>2
<1>7. CASE RegisterRoute
  <2> DEFINE new == RoutePatterns(cfg.routes[built + 1].prefix)
  <2>1. /\ stage = "building" /\ built < Len(cfg.routes) /\ cfg = Loaded(file) /\ Valid(cfg)
        /\ built \in 0 .. Len(cfg.routes) /\ patterns = RegisteredPatterns(cfg, built)
    BY <1>7 DEF RegisterRoute
  <2>2. CASE \E p \in new : HandlePanics(p)
    <3>1. Reject("panicked")
      BY <1>7, <2>2 DEF RegisterRoute
    <3>2. PICK p \in new : HandlePanics(p)
      BY <2>2
    <3>3. ~WellFormed(p) \/ \E q \in RegisteredPatterns(cfg, built) : Conflicts(p, q)
      BY <2>1, <3>2 DEF HandlePanics
    <3>4. \E r \in Routes(cfg) : Explained(r.prefix)
      BY <2>1, <3>3, RegisterClash
    <3>5. PanicsExplained'
      BY <3>1, <3>4 DEF Reject, PanicsExplained, Explained, Routes
    <3>6. QED
      BY <2>1, <3>1, <3>5 DEF Reject
  <2>3. CASE ~ \E p \in new : HandlePanics(p)
    <3>1. /\ patterns' = patterns \cup new /\ built' = built + 1
          /\ UNCHANGED <<file, stage, cfg, started, current, source>>
      BY <1>7, <2>3 DEF RegisterRoute
    <3>2. built' \in 0 .. Len(cfg.routes) /\ 1 .. (built + 1) = (1 .. built) \cup {built + 1}
      BY <2>1, <3>1, LoadedLength
    <3>3. RegisteredPatterns(cfg, built + 1) = RegisteredPatterns(cfg, built) \cup new
      BY <3>2 DEF RegisteredPatterns
    <3>4. BuildInv'
      BY <2>1, <3>1, <3>2, <3>3 DEF PanicsExplained, RegisteredPatterns
    <3>5. QED
      BY <3>1, <3>4
  <2>4. QED
    BY <2>2, <2>3
<1>8. CASE Install
  BY <1>8 DEF Install, PanicsExplained
<1>9. QED
  BY <1>1, <1>2, <1>3, <1>4, <1>5, <1>6, <1>7, <1>8 DEF Next
-----------------------------------------------------------------------------
(* The invariant holds throughout. *)
LEMMA Invariance == Spec => []IInv
  BY InitIInv, StepIInv, PTL DEF Spec

(* However often the process reloads, and whatever files, the addresses,    *)
(* the token, the switches and the shutdown timeout of the configuration in *)
(* force are those the process was started with.                            *)
THEOREM FixedFieldsHold == Spec => []FixedUntilRestart
<1>1. IInv => FixedUntilRestart
  BY DEF IInv, FixedInv
<1>2. QED
  BY <1>1, Invariance, PTL

(* validateReloadConfig never refuses the file in force. *)
THEOREM SameFileIsAccepted == Spec => []SameFileReloads
<1>1. IInv => SameFileReloads
  BY DEF IInv, FixedInv
<1>2. QED
  BY <1>1, Invariance, PTL

(* However the mux reads patterns, a build of an accepted configuration     *)
(* panics only where a prefix has a brace, an escape or a blank in it, ends *)
(* in two slashes or is that of a system route.  Two routes with the same   *)
(* prefix, once normalised, and prefixes that overlap are no reason.        *)
THEOREM PanicsAreExplained == Spec => []PanicsExplained
<1>1. IInv => PanicsExplained
  BY DEF IInv, BuildInv
<1>2. QED
  BY <1>1, Invariance, PTL

(* Of every path that matches a pattern of an accepted route, the backend   *)
(* is asked for what follows the stripPrefix, if the mux reads that as it   *)
(* is written; the rest of the prefix may have wildcards and escapes.       *)
THEOREM StripAlwaysApplies == Spec => []StripApplies
<1>1. IInv => StripApplies
  <2> SUFFICES ASSUME IInv, stage = "valid", NEW i \in DOMAIN cfg.routes,
                      Verbatim(cfg.routes[i].stripPrefix), NoEmptySegment(cfg.routes[i].stripPrefix),
                      NEW pattern \in RoutePatterns(cfg.routes[i].prefix),
                      NEW path \in Paths, Matches(pattern, path)
               PROVE  LET s    == cfg.routes[i].stripPrefix
                          rest == SubSeq(URLPath(path), Len(s) + 1, Len(path))
                      IN  /\ URLPath(path) = s \o rest
                          /\ RewritePath(URLPath(path), s) = WithLeadingSlash(rest)
    BY DEF StripApplies, Routes
  <2>1. cfg = Loaded(file) /\ file \in Configs /\ Valid(cfg)
    BY DEF IInv, LoadInv, BuildInv, Checked
  <2> DEFINE r == cfg.routes[i]
  <2>2. HasPrefix(r.prefix, r.stripPrefix)
    BY <2>1 DEF Valid, ValidRoutes, ValidRoute
  <2>3. /\ Subtree(r.prefix) /\ r.stripPrefix \in Strings
        /\ \/ r.stripPrefix = Slash \/ r.stripPrefix = Empty
           \/ r.stripPrefix[Len(r.stripPrefix)] # "/"
    BY <2>1, LoadedRoutes
  <2>4. /\ Verbatim(r.stripPrefix) /\ NoEmptySegment(r.stripPrefix)
        /\ pattern \in RoutePatterns(r.prefix)
    OBVIOUS
  <2> HIDE DEF r
  <2>5. Rooted(pattern) /\ Begins(r.stripPrefix, pattern)
    BY <2>2, <2>3, <2>4, PatternIsRooted, PatternBegins
  <2>6. Rooted(path) /\ NoBadEscapes(path)
    BY ConfigAssumption, HasPrefixSlash, LengthOfText DEF Rooted, NoBadEscapes
  <2>7. QED
    BY <2>5, <2>6, StripCovers DEF r
<1>2. QED
  BY <1>1, Invariance, PTL

(* The settings of an accepted configuration are built as they are written. *)
THEOREM SettingsAreUsable == Spec => []SettingsUsable
<1>1. IInv => SettingsUsable
  <2> SUFFICES ASSUME IInv, stage = "valid" PROVE SettingsUsable
    BY DEF SettingsUsable
  <2>1. cfg = Loaded(file) /\ file \in Configs /\ Valid(cfg)
    BY DEF IInv, LoadInv, BuildInv, Checked
  <2>2. cfg.server.rateLimitRPS > 0 => NewTokenBucketWorks(cfg.server)
    BY <2>1, ServerUsable DEF Valid
  <2>3. ASSUME NEW i \in DOMAIN cfg.routes, NEW r, r = cfg.routes[i]
        PROVE  /\ r.rateLimitRPS > 0 => NewTokenBucketWorks(r)
               /\ r.upstreams # <<>>
               /\ r.healthCheck.enabled =>
                    KeptAsWritten(ActiveHealthOptions(r.healthCheck), {"interval", "timeout"})
               /\ r.passiveHealth.enabled =>
                    KeptAsWritten(PassiveHealthOptions(r.passiveHealth),
                                  {"failureThreshold", "successThreshold", "unhealthyDuration"})
               /\ r.circuitBreaker.enabled =>
                    KeptAsWritten(CircuitBreakerOptions(r.circuitBreaker),
                                  {"failureThreshold", "openDuration", "halfOpenMaxRequests"})
    <3>1. ValidRoute(r)
      BY <2>1, <2>3 DEF Valid, ValidRoutes
    <3>2. QED
      BY <2>1, <2>3, <3>1, RouteUsable
  <2>4. QED
    BY <2>2, <2>3 DEF SettingsUsable, Routes
<1>2. QED
  BY <1>1, Invariance, PTL

(* What an expression of a file expands to does not depend on what stands   *)
(* around it, and a text without expressions is left as it is.              *)
THEOREM ExpansionIsCompositional == Spec => []ExpansionComposes
<1>1. IInv => ExpansionComposes
  <2> SUFFICES ASSUME IInv PROVE \A s \in Texts(file) : s \in Strings
    BY TextComposes DEF ExpansionComposes
  <2>1. file \in Configs
    BY DEF IInv, BuildInv
  <2>2. file.server.addr \in Strings /\ file.admin.token \in Strings
    BY <2>1 DEF Configs, ServerConfigs, AdminConfigs
  <2>3. ASSUME NEW i \in DOMAIN file.routes PROVE file.routes[i].prefix \in Strings
    <3>1. file.routes[i] \in RouteConfigs
      BY <2>1 DEF Configs
    <3>2. QED
      BY <3>1 DEF RouteConfigs
  <2>4. QED
    BY <2>2, <2>3 DEF Texts, Routes
<1>2. QED
  BY <1>1, Invariance, PTL
=============================================================================
