---------------------------- MODULE AtomicStore ----------------------------
(***************************************************************************)
(* What the Catacomb component store promises its callers: one value per   *)
(* component, replaced for a whole batch of components in one step, and    *)
(* never torn by a crash.  A batch that has been committed but not yet     *)
(* made durable may still be taken back by a power loss; a durable one may *)
(* not.                                                                    *)
(***************************************************************************)
CONSTANTS Names,   \* component file names
          Values   \* well-formed component contents

VARIABLES value,   \* the store's logical contents
          possible \* the contents a power loss may leave

vars == <<value, possible>>

\* The types of the variables.
TypeOK == /\ value \in [Names -> Values]
          /\ possible \subseteq [Names -> Values]
          /\ value \in possible

Init == /\ value \in [Names -> Values]
        /\ possible = {value}

\* A batch replaces all of its components at once.
Commit == /\ possible = {value}
          /\ \E batch \in SUBSET Names : \E new \in [batch -> Values] :
                value' = [n \in Names |-> IF n \in batch THEN new[n] ELSE value[n]]
          /\ possible' = {value, value'}

\* The committed batch reaches stable storage.
MakeDurable == /\ possible' = {value}
               /\ UNCHANGED value

PowerLoss == /\ value' \in possible
             /\ possible' = {value'}

Next == Commit \/ MakeDurable \/ PowerLoss

Spec == Init /\ [][Next]_vars
============================================================================
