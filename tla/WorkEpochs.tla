----------------------------- MODULE WorkEpochs -----------------------------
(***************************************************************************)
(* What the trainer promises about its input: in every epoch each file is  *)
(* processed at least once, an epoch is closed only when every file has    *)
(* been, and the epochs come one after the other.  FileDispatcher and      *)
(* DistTraining implement it.                                              *)
(***************************************************************************)
EXTENDS Naturals

CONSTANTS File,      \* the training files
          MaxEpoch   \* FLAGS_epoch

VARIABLES round,     \* number of epochs opened so far
          left,      \* files still to be processed in the open epoch
          open       \* an epoch is open

wvars == <<round, left, open>>

Init == round = 0 /\ left = {} /\ open = FALSE

Open ==
  /\ ~open /\ round < MaxEpoch
  /\ round' = round + 1
  /\ left' = File
  /\ open' = TRUE

\* Some files are processed; when none is left the epoch may be closed.
Process ==
  /\ open
  /\ left' \in SUBSET left
  /\ open' = TRUE \/ (left' = {} /\ open' = FALSE)
  /\ UNCHANGED round

Next == Open \/ Process

Spec == Init /\ [][Next]_wvars
=============================================================================
