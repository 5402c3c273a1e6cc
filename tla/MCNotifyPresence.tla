--------------------------- MODULE MCNotifyPresence ---------------------------
(***************************************************************************)
(* The instance is the system itself: nothing in NotifyPresence grows.     *)
(***************************************************************************)
EXTENDS NotifyPresence

ConfirmOrDismiss == {"confirm", "closed"}
===============================================================================
