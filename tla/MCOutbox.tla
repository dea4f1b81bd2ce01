------------------------------- MODULE MCOutbox -------------------------------
(***************************************************************************)
(* One event in several deliveries at once: an export with its mail, a     *)
(* command that is rebuilt, a timer with its mail, and a mail alone.       *)
(***************************************************************************)
EXTENDS OutboxProperties

MCWritten == {"order.created", "order.reservation_extension.requested",
              "order.stock_confirmed", "order.reservation_expiry_reminder"}
MCRequest == {"order.reservation_extension.requested"}
===============================================================================
