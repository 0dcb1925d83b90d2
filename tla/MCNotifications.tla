---------------------------- MODULE MCNotifications ----------------------------
(* Notifications on a few transactions.                                    *)
EXTENDS Notifications
=================================================================================
