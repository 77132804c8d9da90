---------------------------- MODULE MCMrdService ----------------------------
(* Two producers and their clients, for TLC.                               *)
EXTENDS MrdService, TLC

CONSTANTS
    a, b,       \* the producers
    common,     \* an MRD of both
    own,        \* an MRD of a alone
    vague,      \* an MRD of b whose size is not a number
    unknown     \* an MRD that is not mapped

\* Only b, which may serve the common MRD without it, is mapped to the vague one.
MCMapping == (common :> <<a, b>>) @@ (own :> <<a>>) @@ (vague :> <<b>>)

=============================================================================
