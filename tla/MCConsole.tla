----------------------------- MODULE MCConsole ------------------------------
(* What the daemon keeps of its machines, for TLC: console recordings, lab *)
(* grants, guest actions and the trusted inventory. They share no state: a *)
(* behaviour is one of them (part) at work, with the others at rest.       *)
EXTENDS Recorder, Inventory, LabGrants, TLC

CONSTANTS r1, r2, r3, local, h1, h2,
          Attempt, Guarded

VARIABLES part,
          guestAt, guestCtx, guestLease, consumed, effects, run, err, outcome, cached,
          guestReceipts, told, guestFaults

guestVars == <<guestAt, guestCtx, guestLease, consumed, effects, run, err, outcome, cached,
               guestReceipts, told, guestFaults>>

Guest == INSTANCE GuestActions WITH
    at <- guestAt, ctx <- guestCtx, lease <- guestLease, receipts <- guestReceipts,
    faults <- guestFaults

(* Three recordings, two of one owner; three hosts, the local one first;   *)
(* the registry of a fleet refresh starts with the last of them enabled.   *)
MCHosts == <<local, h1, h2>>
Owners == (r1 :> 1) @@ (r2 :> 1) @@ (r3 :> 2)

MCInit == /\ part \in {"recorder", "inventory", "lab", "guest"}
          /\ RecorderInit /\ InventoryInit /\ LabInit /\ Guest!GuestInit
          /\ \A h \in Host : (part = "inventory" /\ h # h2) \/ hosts[h] = "enabled"

MCNext ==
    \/ part = "recorder" /\ RecorderNext /\ UNCHANGED <<ivars, lvars, guestVars, part>>
    \/ part = "inventory" /\ InventoryNext /\ UNCHANGED <<rvars, lvars, guestVars, part>>
    \/ part = "lab" /\ LabNext /\ UNCHANGED <<rvars, ivars, guestVars, part>>
    \/ part = "guest" /\ Guest!GuestNext /\ UNCHANGED <<rvars, ivars, lvars, part>>

MCSpec == MCInit /\ [][MCNext]_<<rvars, ivars, lvars, guestVars, part>>

(* GuestActions: however a caller retries, the guest acts at most once; a  *)
(* caller is never shown a receipt that contradicts the error beside it or *)
(* the store, and the caller of a guarded write that the guest may have    *)
(* acted on hears that it is uncertain or that nothing is known, whatever  *)
(* else fails; a confirmed write is told as failed without receipt only    *)
(* when the host could not keep its evidence.                              *)
GuestHolds == Guest!GuestTypeOK /\ Guest!ActsOnce /\ Guest!ShownIsTrue /\ Guest!UncertainIsKept
=============================================================================
