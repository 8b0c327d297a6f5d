---------------------------- MODULE MCUserQuota ----------------------------
(* Small instances of UserQuota, on two nodes and on one.                  *)
EXTENDS UserQuota, TLC

CONSTANTS n1, n2, a, b, c, t, x, r, e, s

(* Charges in the batch (a, c) and direct (b), a top-up, a transfer of     *)
(* invitation quota, a reader, an editor and a writer of the whole row.    *)
QuotaKind ==
    a :> "batch" @@ c :> "batch" @@ b :> "direct" @@ t :> "topup" @@ x :> "transfer"
QuotaNode ==
    a :> n1 @@ b :> n2 @@ c :> n1 @@ t :> n1 @@ x :> n1 @@ r :> n1 @@ e :> n2 @@ s :> n2

(* Two charges with the refreshes of the cache, two batched charges and a  *)
(* top-up, two charges and a transfer beside a writer of the row, a        *)
(* charge, a top-up and a transfer.                                        *)
Together == {{a, b, r, e}, {a, c, t, r}, {a, b, x, s}, {a, t, x, r}}

(* A charge and a reader on one node.                                      *)
ChargeKind == a :> "batch"
ChargeNode == a :> n1 @@ r :> n1
Alone == {{a, r}}
=============================================================================
