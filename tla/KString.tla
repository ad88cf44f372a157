------------------------------- MODULE KString -------------------------------
(***************************************************************************)
(* The strings of kstring.c as values: the bytes that KStringGetLength     *)
(* counts, and whether the buffer of KStringGetData has a NUL after them,  *)
(* which is what a C function that is given the buffer looks for.          *)
(* Allocation failures are left out.                                       *)
(***************************************************************************)
EXTENDS Sequences

(* vsnprintf into a buffer of one byte more than the text.                 *)
KStringNewWithFormat(text) == [text |-> text, nul |-> TRUE]

(* memcpy into a buffer of exactly the size.                               *)
KStringNewWithData(text) == [text |-> text, nul |-> FALSE]

KStringNew == KStringNewWithData(<<>>)

KStringCopy(string) == KStringNewWithData(string.text)

(* The NUL is written when the result is not empty.                        *)
KStringAppend(string, suffix) ==
  LET text == string.text \o suffix.text IN [text |-> text, nul |-> text # <<>>]

=============================================================================
