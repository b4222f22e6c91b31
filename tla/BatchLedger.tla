----------------------------- MODULE BatchLedger -----------------------------
(***************************************************************************)
(* What the history server promises the workflow runs that post to it: a   *)
(* batch is learned at most once, whatever is retried, lost or repeated;   *)
(* a run is told its batch is merged only when it really is; and history   *)
(* that nobody refreshes is eventually forgotten as a whole.  There are no *)
(* rows, receipts, clocks or retries here: HistoryWorker implements this.  *)
(***************************************************************************)
CONSTANTS Client,  \* workflow runs that post one batch each
          BatchOf  \* the batch each of them posts

VARIABLES learned,   \* batches that count in the stored model
          forgotten, \* batches that counted in a model deleted since
          told       \* what each client knows: "asking", "merged", "unmerged"

vars == <<learned, forgotten, told>>

Init == learned = {} /\ forgotten = {} /\ told = [c \in Client |-> "asking"]

Learn(c) ==
    /\ BatchOf[c] \notin learned \cup forgotten
    /\ learned' = learned \cup {BatchOf[c]}
    /\ UNCHANGED <<forgotten, told>>

TellMerged(c) ==
    /\ told[c] = "asking"
    /\ BatchOf[c] \in learned \cup forgotten
    /\ told' = [told EXCEPT ![c] = "merged"]
    /\ UNCHANGED <<learned, forgotten>>

GiveUp(c) ==
    /\ told[c] = "asking"
    /\ told' = [told EXCEPT ![c] = "unmerged"]
    /\ UNCHANGED <<learned, forgotten>>

Forget ==
    /\ forgotten' = forgotten \cup learned
    /\ learned' = {}
    /\ UNCHANGED told

Next == Forget \/ \E c \in Client : Learn(c) \/ TellMerged(c) \/ GiveUp(c)

Spec == Init /\ [][Next]_vars
==============================================================================
