----------------------------- MODULE MCPosting ------------------------------
EXTENDS Posting

CONSTANTS u1, u2

(* A limiter with room for a burst, and one that was configured with zeros *)
MCConfigs == {[rate |-> 2, burst |-> 2], [rate |-> 0, burst |-> 0]}
=============================================================================
