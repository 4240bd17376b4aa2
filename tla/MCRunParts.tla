---------------------------- MODULE MCRunParts ----------------------------
(***************************************************************************)
(* The components of MCParts and, as one more, the adapter for docker run  *)
(* with its repair, while Docker answers every call and only crashes come. *)
(* (MCRunUpdate has it with failing calls.)  A behaviour runs one of them: *)
(* none of the components reads what the adapter writes.                   *)
(***************************************************************************)
EXTENDS MCParts, MCRunUpdate

VARIABLE turn  \* what runs: the adapter, or one of the parts

runPartVars == <<vars, partVars, turn>>

\* What does not run has one initial state.
RunPartsInit ==
    /\ Init /\ PartsInit
    /\ turn \in {"adapter", "part"}
    /\ turn # "adapter" => tag = (CHOOSE i \in Images : TRUE) /\ wanted
    /\ turn # "part" => part = "notes"

RunPartsNext ==
    /\ UNCHANGED turn
    /\ \/ turn = "adapter" /\ Next /\ UNCHANGED partVars
       \/ turn = "part" /\ PartsNext /\ UNCHANGED vars

\* The fairness of RunUpdate and of MCParts.
RunPartsSpec ==
    /\ RunPartsInit /\ [][RunPartsNext]_runPartVars
    /\ WF_vars(turn = "adapter" /\ Program)
    /\ turn = "part" => /\ RetentionFairness /\ AccountsFairness
                        /\ ServeFairness /\ NotifiersFairness
=============================================================================
