----------------------------- MODULE MCRedaction -----------------------------
(***************************************************************************)
(* One text of redact, for TLC: a quoted private key behind "password=".   *)
(* Position 0 is the quote, 1 the first word of the key's header, the rest *)
(* is the rest of the key.                                                 *)
(***************************************************************************)
EXTENDS Redaction

\* The pattern of passwords ends at the first blank, that of private keys at the
\* end of the key.
QuotedKey ==
  {[start |-> 0, end |-> 2, priority |-> 1],
   [start |-> 1, end |-> Size, priority |-> 0]}

QuotedKeyInit == RedactInit /\ matches = QuotedKey

QuotedKeySpec == QuotedKeyInit /\ [][RedactNext]_redactVars

=============================================================================
