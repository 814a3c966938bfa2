------------------------------ MODULE Transfer ------------------------------
(* What the upload widget of the web interface promises of one file: it is   *)
(* stored (possibly more than once) or not, the page reports one outcome,    *)
(* and a reported success stands for a file that is already stored.  A       *)
(* reported failure promises nothing: the file may be stored all the same.   *)
CONSTANT Uploads
VARIABLES stored,   \* the uploads whose file has been stored
          outcome   \* what the page reports of each upload

TransferInit == /\ stored = {}
                /\ outcome = [u \in Uploads |-> "open"]

Store(u) == /\ stored' = stored \cup {u}
            /\ UNCHANGED outcome

Report(u, result) == /\ outcome[u] = "open"
                     /\ result = "success" => u \in stored
                     /\ outcome' = [outcome EXCEPT ![u] = result]
                     /\ UNCHANGED stored

TransferNext == \E u \in Uploads : \/ Store(u)
                                   \/ Report(u, "success")
                                   \/ Report(u, "error")

TransferSpec == TransferInit /\ [][TransferNext]_<<stored, outcome>>
=============================================================================
