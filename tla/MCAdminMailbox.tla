--------------------------- MODULE MCAdminMailbox ---------------------------
(***************************************************************************)
(* AdminMailbox for TLC: three connections, one change, two heap blocks.   *)
(***************************************************************************)
EXTENDS AdminMailbox
=============================================================================
