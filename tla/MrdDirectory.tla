---------------------------- MODULE MrdDirectory ----------------------------
(***************************************************************************)
(* What getAllMRDValues promises: a directory in which each producer has a *)
(* region for each report, and a reader that asks each producer of one     *)
(* report for what its region holds.                                       *)
(*                                                                         *)
(* An answer is put together from the regions of that report, each as it   *)
(* was at one moment after the question, and has nothing of questions      *)
(* before it.  It may lack a producer: that every region is read which the *)
(* reader finds and gets the lock of is NothingLost.                       *)
(***************************************************************************)
EXTENDS Naturals

CONSTANTS
    Producers, Readers, Objects,
    Reports,        \* what readers ask for
    Servers         \* the producers of each report

VARIABLES
    region,         \* what each producer offers of each report
    report,         \* per reader: the report it asks for
    unasked,        \* per reader: producers it has still to ask
    view,           \* per reader: what it has been given
    reading         \* per reader: whether it is still to be answered

vars == <<region, report, unasked, view, reading>>

TypeOK ==
    /\ region \in [Producers \X Reports -> SUBSET Objects]
    /\ report \in [Readers -> Reports]
    /\ unasked \in [Readers -> SUBSET Producers]
    /\ view \in [Readers -> SUBSET (Producers \X Objects)]
    /\ reading \in [Readers -> BOOLEAN]

Init ==
    /\ region = [s \in Producers \X Reports |-> {}]
    /\ report \in [Readers -> Reports]
    /\ unasked = [r \in Readers |-> {}]
    /\ view = [r \in Readers |-> {}]
    /\ reading = [r \in Readers |-> FALSE]

\* A producer offers one more object.
Offer(p) ==
    /\ UNCHANGED <<report, unasked, view, reading>>
    /\ \E m \in Reports, o \in Objects :
           region' = [region EXCEPT ![<<p, m>>] = @ \cup {o}]

\* What it offered of some reports is gone: whole regions and not parts of them.
Withdraw(p) ==
    /\ UNCHANGED <<report, unasked, view, reading>>
    /\ \E M \in SUBSET Reports :
           region' = [s \in Producers \X Reports |->
                         IF s[1] = p /\ s[2] \in M THEN {} ELSE region[s]]

\* A question is taken up, or answered at once with nothing.
Ask(r) ==
    /\ ~reading[r]
    /\ UNCHANGED region
    /\ \E m \in Reports, taken \in BOOLEAN :
          /\ report' = [report EXCEPT ![r] = m]
          /\ reading' = [reading EXCEPT ![r] = taken]
          /\ unasked' = [unasked EXCEPT ![r] = IF taken THEN Servers[m] ELSE {}]
    /\ view' = [view EXCEPT ![r] = {}]

\* One producer gives all that its region holds, or nothing.  It may be asked
\* again if it is listed more than once.
Collect(r) ==
    /\ UNCHANGED <<region, report, reading>>
    /\ \E p \in unasked[r] :
          /\ view' = view \/ view' =
                [view EXCEPT ![r] = @ \cup ({p} \X region[<<p, report[r]>>])]
          /\ unasked' = unasked \/ unasked' = [unasked EXCEPT ![r] = @ \ {p}]

Answer(r) ==
    /\ reading[r] /\ unasked[r] = {}
    /\ reading' = [reading EXCEPT ![r] = FALSE]
    /\ UNCHANGED <<region, report, unasked, view>>

Next ==
    \/ \E r \in Readers : Ask(r) \/ Collect(r) \/ Answer(r)
    \/ \E p \in Producers : Withdraw(p) \/ Offer(p)

Spec == Init /\ [][Next]_vars

=============================================================================
