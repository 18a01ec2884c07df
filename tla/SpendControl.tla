---------------------------- MODULE SpendControl ----------------------------
(***************************************************************************)
(* The two ways a deployment may bound its spend: the ledger, which refuses*)
(* a call once what was recorded has reached a limit, and the reservation  *)
(* store, which admits only what still fits.  They share nothing, so a     *)
(* deployment uses one of them.                                            *)
(***************************************************************************)
EXTENDS MeteredSpend, SpendLedger

VARIABLE accounting

ControlInit ==
  /\ accounting \in {"ledger", "reservations"}
  /\ MeteredInit /\ LedgerInit
  /\ accounting = "reservations" => ~enabled

ControlNext ==
  /\ UNCHANGED accounting
  /\ \/ accounting = "ledger" /\ LedgerNext /\ UNCHANGED <<vars, metering>>
     \/ accounting = "reservations" /\ MeteredNext /\ UNCHANGED lvars

ControlSpec == ControlInit /\ [][ControlNext]_<<vars, metering, lvars, accounting>>
=============================================================================
