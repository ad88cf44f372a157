------------------------------ MODULE KFilePath ------------------------------
(***************************************************************************)
(* File paths: what is parsed by KFilePathParser, appended to by           *)
(* KFilePathAddComponent and turned into a string again by                 *)
(* KFilePathNewStringRepresentationWithSeparator.                          *)
(***************************************************************************)
EXTENDS KFilePathParser, KString, FiniteSets

CONSTANT Suffix   \* the strings of the paths that are added

ASSUME SuffixAssumption == Suffix \subseteq Seq(Char)

Path(absolute, names) == [is_absolute |-> absolute, components |-> names]

Copied(c) == SubSeq(str, c.from + 1, c.to)

(* What KFilePathNewWithString has built.                                  *)
Parsed == Path(is_absolute, [n \in DOMAIN components |-> Copied(components[n])])

AddAnything(path, comp) == [path EXCEPT !.components = @ \o comp.components]
KFilePathAddComponent(path, comp) ==
  IF comp.is_absolute THEN path
  ELSE [path EXCEPT !.components = @ \o comp.components]

(* The separator goes after every component but the last one.              *)
SeparatorAtTheEnd(n, count) == TRUE
SeparatorAfter(n, count) == n # count

Root(path, sep) == IF path.is_absolute THEN KStringCopy(sep) ELSE KStringNew

NewStringRepresentation(path, char) ==
  LET sep == KStringNewWithFormat(<<char>>)
      count == Len(path.components)
      result[n \in 0 .. count] ==
        IF n = 0 THEN Root(path, sep)
        ELSE LET named == KStringAppend(result[n - 1],
                                        KStringNewWithData(path.components[n]))
             IN IF SeparatorAfter(n, count) THEN KStringAppend(named, sep) ELSE named
  IN result[count]

-----------------------------------------------------------------------------
(* The reference: a path is the names between the separators of a text.    *)

IsName(text, f, t) ==
  /\ f <= t
  /\ \A p \in f .. t : text[p] \notin Separator
  /\ f = 1 \/ text[f - 1] \in Separator
  /\ t = Len(text) \/ text[t + 1] \in Separator

Names(text) == {ft \in (DOMAIN text) \X (DOMAIN text) : IsName(text, ft[1], ft[2])}

(* The n-th name is the one up to which there are n.                       *)
NthName(text, n) ==
  CHOOSE ft \in Names(text) :
    Cardinality({gu \in Names(text) : gu[1] <= ft[1]}) = n

PathOf(text) ==
  Path(text # <<>> /\ text[1] \in Separator,
       [n \in 1 .. Cardinality(Names(text)) |->
          SubSeq(text, NthName(text, n)[1], NthName(text, n)[2])])

-----------------------------------------------------------------------------
(* Properties.                                                             *)

Canonical(text) ==
  \A p \in DOMAIN text : text[p] \in Separator =>
    /\ p > 1 => text[p - 1] \notin Separator
    /\ p = Len(text) => Len(text) = 1

(* The loop of KFilePathNewWithString computes the reference, and a path   *)
(* survives being turned into a string, with either separator.  The string *)
(* has no doubled separator and none at its end, as the unit tests expect  *)
(* of "a/b/c/" and "a/////b/c/".                                           *)
RoundTrip ==
  ~parsing =>
    /\ Parsed = PathOf(str)
    /\ \A sep \in Separator :
         LET text == NewStringRepresentation(Parsed, sep).text
         IN PathOf(text) = Parsed /\ Canonical(text)

(* Adding a relative path is what writing it after a separator would be,   *)
(* and adding an absolute one changes nothing.                             *)
AddIsTextual ==
  ~parsing /\ str # <<>> => \A sep \in Separator, suffix \in Suffix :
    LET comp == PathOf(suffix)
        sum == KFilePathAddComponent(Parsed, comp)
    IN sum = IF comp.is_absolute THEN Parsed
             ELSE PathOf(str \o <<sep>> \o suffix)

(* "KStringRef: A C-string": the string of a path, as KFileHandleNew hands *)
(* it to open, ends with a NUL.                                            *)
RepresentationIsCString ==
  ~parsing => \A sep \in Separator : NewStringRepresentation(Parsed, sep).nul

=============================================================================
