------------------------------ MODULE MuxPatterns ------------------------------
(***************************************************************************)
(* How http.ServeMux reads the patterns that registerRoutePatterns gives   *)
(* it (go.mod asks for Go 1.26).  A pattern is taken apart at its slashes; *)
(* {name} stands for any one segment, an empty last segment for any rest.  *)
(* Segments are compared once their %xx escapes are undone, those of the   *)
(* pattern as those of a path.  The gateway's patterns all begin with "/": *)
(* they name no method and no host.                                        *)
(***************************************************************************)
EXTENDS ConfigText

CONSTANTS
  Escapes,        \* from an escape %xx to the token it stands for
  BadEscapes,     \* tokens with a % that begins no escape
  WildcardNames   \* the names that may stand between { and }

ASSUME MuxAssumption ==
  /\ (DOMAIN Escapes \cup BadEscapes) \cap Delimiters = {}
  /\ \A c \in DOMAIN Escapes : Escapes[c] \in Tokens
  /\ DOMAIN Escapes \cap BadEscapes = {}

(* What the mux looks for to find a method before the path. *)
Blanks == {" ", "TAB"}

Decoded(c) == IF c \in DOMAIN Escapes THEN Escapes[c] ELSE c

(* pathUnescape: where an escape is wrong, nothing is undone. *)
PathUnescape(segment) ==
  IF \E i \in DOMAIN segment : segment[i] \in BadEscapes THEN segment
  ELSE [i \in DOMAIN segment |-> Decoded(segment[i])]

(* r.URL.Path of a request for path, which has no wrong escapes. *)
URLPath(path) == [i \in DOMAIN path |-> Decoded(path[i])]
-----------------------------------------------------------------------------
(* The first slash after position i, or the end. *)
NextSlash(text, i) ==
  LET next == SelectInSubSeq(text, i + 1, Len(text), LAMBDA c : c = "/")
  IN  IF next = 0 THEN Len(text) + 1 ELSE next

(* What stands after each slash of a text that begins with one. *)
Segments(text) ==
  LET From[i \in 1 .. (Len(text) + 1)] ==
        IF i > Len(text) THEN <<>>
        ELSE <<SubSeq(text, i + 1, NextSlash(text, i) - 1)>> \o From[NextSlash(text, i)]
  IN  From[1]

(* A path ends in the segment "/" when its last character is a slash. *)
PathSegment(segment, last) ==
  IF last /\ segment = Empty THEN Slash ELSE PathUnescape(segment)

PathSegments(path) ==
  LET raw == Segments(path) IN [k \in DOMAIN raw |-> PathSegment(raw[k], k = Len(raw))]

(* The segments of a pattern.  The key is where the routing tree keeps a    *)
(* segment: that of a wildcard is empty.                                    *)
Rest == [kind |-> "multi", key |-> Empty]
Wildcard == [kind |-> "wild", key |-> Empty]
Literal(segment) == [kind |-> "literal", key |-> PathUnescape(segment)]

PatternSegment(segment, last) ==
  CASE last /\ segment = Empty -> Rest
    [] segment # Empty /\ segment[1] = "{" -> Wildcard
    [] OTHER -> Literal(segment)

PatternSegments(pattern) ==
  LET raw == Segments(pattern) IN [k \in DOMAIN raw |-> PatternSegment(raw[k], k = Len(raw))]

(* parsePattern accepts the text: no method, and braces only as {name},     *)
(* each name once.  {$} and {name...} may only end a pattern, and each      *)
(* route registers one with a slash after them.                             *)
WellFormed(pattern) ==
  LET raw == Segments(pattern)
  IN  /\ \A c \in Blanks : ~Contains(pattern, c)
      /\ \A k \in DOMAIN raw : Contains(raw[k], "{") =>
           /\ \E name \in WildcardNames : raw[k] = <<"{">> \o name \o <<"}">>
           /\ \A j \in DOMAIN raw : raw[j] = raw[k] => j = k
-----------------------------------------------------------------------------
(* Matching: routingNode.matchPath.  A single wildcard does not match "/";  *)
(* a literal that is empty is kept under its key and so matches like one.   *)
MatchesSegment(x, segment) ==
  \/ x.kind = "multi"
  \/ x.key = segment
  \/ x.key = Empty /\ segment # Slash

Matches(pattern, path) ==
  LET P == PatternSegments(pattern)
      Q == PathSegments(path)
  IN  /\ Len(P) <= Len(Q)
      /\ Len(P) < Len(Q) => Last(P).kind = "multi"
      /\ \A k \in DOMAIN P : MatchesSegment(P[k], Q[k])

(* Registering: pattern.conflictsWith.  Two patterns conflict when they     *)
(* have paths in common and neither is more general than the other.         *)
Apart(x, y) ==
  \/ x.kind = "literal" /\ y.kind = "literal" /\ x.key # y.key
  \/ x.kind = "wild" /\ y.kind = "literal" /\ y.key = Slash
  \/ x.kind = "literal" /\ y.kind = "wild" /\ x.key = Slash

Broader(x, y) ==
  \/ x.kind = "multi" /\ y.kind # "multi"
  \/ x.kind = "wild" /\ y.kind = "literal"

HasBroader(P, Q) ==
  Len(P) < Len(Q) \/ \E k \in DOMAIN P \cap DOMAIN Q : Broader(P[k], Q[k])

InCommon(P, Q) ==
  /\ Len(P) < Len(Q) => Last(P).kind = "multi"
  /\ Len(Q) < Len(P) => Last(Q).kind = "multi"
  /\ \A k \in DOMAIN P \cap DOMAIN Q : ~Apart(P[k], Q[k])

(* routingNode.set: a leaf of the tree takes one pattern. *)
SameLeaf(P, Q) ==
  /\ Len(P) = Len(Q) /\ Last(P).kind # "multi" /\ Last(Q).kind # "multi"
  /\ \A k \in DOMAIN P : P[k].key = Q[k].key

Conflicts(pattern, other) ==
  LET P == PatternSegments(pattern)
      Q == PatternSegments(other)
  IN  \/ InCommon(P, Q) /\ (HasBroader(P, Q) <=> HasBroader(Q, P))
      \/ SameLeaf(P, Q)
=============================================================================
