----------------------------- MODULE MCOneCInbox -----------------------------
(***************************************************************************)
(* The stream of an order that 1C confirms, extends and reports paid, and  *)
(* one message that claims a version already given to another.             *)
(***************************************************************************)
EXTENDS OneCInboxProperties

CONSTANTS confirmation, extension, payment, rival

MCKind == [m \in Messages |-> CASE m \in {confirmation, extension} -> "RESERVED"
                                [] m = payment -> "PAID"
                                [] m = rival   -> "OTHER"]
MCSeq  == [m \in Messages |-> CASE m = confirmation         -> 1
                                [] m \in {extension, rival} -> 2
                                [] m = payment              -> 3]
MCUntil == [m \in Messages |-> IF m = extension THEN 2 ELSE 1]

==============================================================================
