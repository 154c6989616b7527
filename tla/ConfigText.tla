------------------------------ MODULE ConfigText ------------------------------
(***************************************************************************)
(* The text operations of internal/config: trimming, the normal forms of   *)
(* prefixes and URLs (config.go), the expansion of ${NAME} and             *)
(* ${NAME:default} (env.go), and proxy.rewritePath, which applies a        *)
(* normalised stripPrefix to the path of a request.                        *)
(*                                                                         *)
(* A text is a sequence of tokens: the delimiters, which the code looks    *)
(* for, and words it does not look into.  TAB and LF are the characters.   *)
(***************************************************************************)
EXTENDS Integers, Sequences, SequencesExt

CONSTANTS
  Tokens,   \* what texts are made of
  Env       \* the environment: a function from names to values, both texts

Strings == Seq(Tokens)
White == {" ", "TAB", "LF"}
Delimiters == White \cup {"/", "$", "{", "}", ":"}

ASSUME TextAssumption ==
  /\ Delimiters \subseteq Tokens
  /\ \A name \in DOMAIN Env : Env[name] \in Strings

Empty == <<>>
Slash == <<"/">>

HasPrefix(text, prefix) == IsPrefix(prefix, text)
HasSuffix(text, suffix) == IsSuffix(suffix, text)

TrimRight(text, cutset) ==
  SubSeq(text, 1, SelectLastInSeq(text, LAMBDA c : c \notin cutset))

TrimSpace(text) ==
  LET t == TrimRight(text, White)
  IN  IF t = Empty THEN Empty
      ELSE SubSeq(t, SelectInSeq(t, LAMBDA c : c \notin White), Len(t))

TrimPrefix(text, prefix) ==
  IF HasPrefix(text, prefix) THEN SubSeq(text, Len(prefix) + 1, Len(text)) ELSE text

OrDefault(text, default) == IF text = Empty THEN default ELSE text
WithLeadingSlash(text) == IF HasPrefix(text, Slash) THEN text ELSE Slash \o text
-----------------------------------------------------------------------------
NormalizeTargetURL(target) == TrimRight(TrimSpace(target), {"/"})

NormalizePrefix(prefix) ==
  LET p == WithLeadingSlash(TrimSpace(prefix))
  IN  IF HasSuffix(p, Slash) THEN p ELSE p \o Slash

(* Mutant: a slash at the end is kept. *)
NormalizeStripPrefixKeeps(stripPrefix) == WithLeadingSlash(TrimSpace(stripPrefix))

(* The empty stripPrefix becomes "/", and "//" becomes empty. *)
NormalizeStripPrefix(stripPrefix) ==
  LET p == WithLeadingSlash(TrimSpace(stripPrefix))
  IN  IF p = Slash THEN p ELSE TrimRight(p, {"/"})

(* registerRoutePatterns: the subtree, and the path without its slash. *)
RoutePatterns(prefix) ==
  IF prefix = Slash THEN {prefix} ELSE {prefix, SubSeq(prefix, 1, Len(prefix) - 1)}

RewritePath(path, stripPrefix) == WithLeadingSlash(TrimPrefix(path, stripPrefix))
-----------------------------------------------------------------------------
(* A result of the expansion, or an error. *)
Text(t) == [ok |-> TRUE, text |-> t]
Failed == [ok |-> FALSE, text |-> Empty]

(* A variable that is empty counts as one that is not set. *)
LookupEnv(name, default) ==
  IF name \in DOMAIN Env /\ Env[name] # Empty THEN Text(Env[name]) ELSE default

(* splitEnvExpression, around the first colon, 0 when there is none. *)
SplitEnvExpression(expr, colon) ==
  IF colon = 0 THEN [name |-> expr, default |-> Failed]
  ELSE [name    |-> SubSeq(expr, 1, colon - 1),
        default |-> Text(SubSeq(expr, colon + 1, Len(expr)))]

(* expandEnvExpression: what stands between ${ and }. *)
ExpandEnvExpression(e) ==
  LET expr  == TrimSpace(e)
      split == SplitEnvExpression(expr, SelectInSeq(expr, LAMBDA c : c = ":"))
      name  == TrimSpace(split.name)
  IN  IF name = Empty THEN Failed ELSE LookupEnv(name, split.default)

OpensExpression(value, i) == i < Len(value) /\ value[i] = "$" /\ value[i + 1] = "{"

(* Mutant: the last } is taken. *)
ClosingLast(value, i) == SelectLastInSubSeq(value, i, Len(value), LAMBDA c : c = "}")

(* strings.IndexByte: the first } from i on, or 0. *)
Closing(value, i) == SelectInSubSeq(value, i, Len(value), LAMBDA c : c = "}")

(* The pieces of a text: its expressions, and each token outside of them.   *)
(* Piece(value, i) is what the one that begins at i expands to; an          *)
(* expression that is not closed takes the rest of the text.                *)
Unclosed(value, i) == OpensExpression(value, i) /\ Closing(value, i + 2) = 0

PieceEnd(value, i) ==
  CASE ~OpensExpression(value, i) -> i
    [] Unclosed(value, i) -> Len(value)
    [] OTHER -> Closing(value, i + 2)

Piece(value, i) ==
  CASE ~OpensExpression(value, i) -> Text(<<value[i]>>)
    [] Unclosed(value, i) -> Failed
    [] OTHER -> ExpandEnvExpression(SubSeq(value, i + 2, Closing(value, i + 2) - 1))

(* An error anywhere is the result. *)
Joined(x, rest) == IF x.ok /\ rest.ok THEN Text(x.text \o rest.text) ELSE Failed

(* expandEnvString: one pass from the left; what an expression yields is    *)
(* not looked at again.                                                     *)
ExpandEnvString(value) ==
  LET Rest[i \in 1 .. (Len(value) + 1)] ==
        IF i > Len(value) THEN Text(Empty)
        ELSE Joined(Piece(value, i), Rest[PieceEnd(value, i) + 1])
  IN  Rest[1]
=============================================================================
