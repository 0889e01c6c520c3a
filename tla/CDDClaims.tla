------------------------------ MODULE CDDClaims ------------------------------
(***************************************************************************)
(* What the tests of the driver say about a minor device, where the code   *)
(* does something else: it is refuted by a run.                            *)
(***************************************************************************)
EXTENDS CDDDevice

(* Makefile:354-356 writes to the device, opens it again and expects to     *)
(* read back what was written: a read delivers bytes some write stored.     *)
ReadsWhatWasWritten ==
    \A t \in Tasks :
        At(t, "rbody") /\ cnt[t] > 0 /\ CDD_storage # NULL
            => ppos[t] .. ppos[t] + cnt[t] - 1 \subseteq CDD_storage
=============================================================================
