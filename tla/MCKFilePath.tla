----------------------------- MODULE MCKFilePath -----------------------------
(* KFilePath for TLC: every string up to MaxLength.                        *)
EXTENDS KFilePath

CONSTANTS MaxLength, MaxSuffix

MCChar == {"a", "b", "/", "\\"}
MCSeparator == {"/", "\\"}
MCInput == UNION {[1 .. n -> MCChar] : n \in 0 .. MaxLength}
MCSuffix == UNION {[1 .. n -> MCChar \ {"b", "\\"}] : n \in 0 .. MaxSuffix}

=============================================================================
