----------------------- MODULE MCConnectionlessService -----------------------
(***************************************************************************)
(* Instance of ConnectionlessService: the lengths around one octet, one    *)
(* section, five sections, eight sections and the wrap of the length.      *)
(***************************************************************************)
EXTENDS ConnectionlessService

Lengths == (0 .. 9) \cup (19 .. 21) \cup (31 .. 37)

=============================================================================
