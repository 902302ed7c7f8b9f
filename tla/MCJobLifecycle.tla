--------------------------- MODULE MCJobLifecycle ---------------------------
(* The finite instances of JobLifecycle that TLC checks. *)
EXTENDS JobLifecycle, TLC

\* Request threads are interchangeable.
Symmetry == Permutations(Request)

\* A job has been created, a file uploaded, analysed and transformed, one request
\* after another: four requests and their four events lie behind.
Transformed ==
  /\ phase = "serving" /\ expired = FALSE
  /\ status = "ACTIVE" /\ key = "live"
  /\ files = {2} /\ entities = {2} /\ blobs = {2, 4}
  /\ outputs = {4} /\ safe = {} /\ certificates = {} /\ receipt = None
  /\ LET history == <<Genesis,
           [seq |-> 1, by |-> 1, type |-> "create"],
           [seq |-> 2, by |-> 2, type |-> "upload"],
           [seq |-> 3, by |-> 3, type |-> "analyse"],
           [seq |-> 4, by |-> 4, type |-> "transform"]>>
     IN ledger = {[hash |-> history[i + 1], prev |-> history[i]] : i \in 1..4}
  /\ thread = [r \in Request |-> Idle]
  /\ eraser = NoErasure
  /\ started = 4 /\ faults = 0 /\ erased = FALSE

SpecFromTransformed == Transformed /\ [][Next]_vars
==============================================================================
