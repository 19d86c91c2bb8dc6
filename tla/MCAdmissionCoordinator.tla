----------------------- MODULE MCAdmissionCoordinator -----------------------
(* An instance of AdmissionCoordinator for TLC.                            *)
EXTENDS AdmissionCoordinator

\* With a limit of 2 and one slot: a child, an import (two of which contend for
\* the slot), a request that excludes every other, and one that never fits.
AsksOfLimit2 ==
  { [child |-> TRUE,  import |-> FALSE, width |-> 1],
    [child |-> FALSE, import |-> TRUE,  width |-> 1],
    [child |-> FALSE, import |-> FALSE, width |-> 2],
    [child |-> TRUE,  import |-> TRUE,  width |-> 3] }
=============================================================================
