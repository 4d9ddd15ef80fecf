------------------------------ MODULE EventLog ------------------------------
(***************************************************************************)
(* The egress event log (egress/eventlog.py): events appended to a file    *)
(* that is shifted into `Keep` older ones when it is full.  Each emit runs *)
(* under a lock.  Events are numbered in the order they are emitted, and a *)
(* file is the sequence of its events.                                     *)
(***************************************************************************)
EXTENDS Naturals, Sequences

CONSTANTS
    MaxFile,   \* _MAX_BYTES, in events
    Keep,      \* _KEEP_ROTATED
    MaxEvents  \* bound of the events emitted

ASSUME LogAssumption == MaxFile \in Nat \ {0} /\ Keep \in Nat \ {0} /\ MaxEvents \in Nat

VARIABLES
    files,     \* 0 is path, i is path.i; empty when it is not there
    emitted,   \* events written, lost ones excluded
    disabled,  \* _disabled
    clean      \* shifts since one last failed in part, up to Keep; for the property

logVars == <<files, emitted, disabled, clean>>

-----------------------------------------------------------------------------

LogTypeOK ==
    /\ files \in [0..Keep -> Seq(1..MaxEvents)]
    /\ emitted \in 0..MaxEvents
    /\ disabled \in BOOLEAN
    /\ clean \in 0..Keep

LogInit ==
    /\ files = [i \in 0..Keep |-> <<>>]
    /\ emitted = 0
    /\ disabled = FALSE
    /\ clean = Keep

(* The files that have one to replace them.                                *)
Movable == {i \in 1..Keep : files[i - 1] # <<>>}

(* _rotate_if_needed, when path is full: the files that are replaced.  A   *)
(* replace that fails is passed over, and a size that cannot be read       *)
(* replaces nothing, like a loop of which every replace fails.             *)
Rotations == IF Len(files[0]) < MaxFile THEN {{}} ELSE SUBSET Movable

(* Fault: the newest is moved first, and goes on to replace the others.    *)
ShiftedNewestFirst(M) ==
    [i \in 0..Keep |->
        IF M = {} THEN files[i] ELSE IF i = Keep THEN files[0] ELSE <<>>]

(* What the loop leaves when path.i-1 replaces path.i for the i of M, the  *)
(* oldest first: what is not moved stays until a newer file replaces it.   *)
Shifted(M) ==
    [i \in 0..Keep |->
        IF i \in M THEN files[i - 1] ELSE IF i + 1 \in M THEN <<>> ELSE files[i]]

CleanAfter(M) ==
    IF Len(files[0]) < MaxFile THEN clean
    ELSE IF M # Movable THEN 0 ELSE IF clean < Keep THEN clean + 1 ELSE Keep

(* emit                                                                    *)
Emit ==
    /\ ~disabled /\ emitted < MaxEvents
    /\ emitted' = emitted + 1
    /\ \E M \in Rotations :
          /\ files' = [Shifted(M) EXCEPT ![0] = Append(@, emitted + 1)]
          /\ clean' = CleanAfter(M)
    /\ UNCHANGED disabled

(* path cannot be opened or written, whatever became of the shift: the log *)
(* is disabled.                                                            *)
EmitFails ==
    /\ ~disabled
    /\ \E M \in Rotations : files' = Shifted(M) /\ clean' = CleanAfter(M)
    /\ disabled' = TRUE
    /\ UNCHANGED emitted

(* configure, on the next start.                                           *)
Configured ==
    /\ disabled
    /\ disabled' = FALSE
    /\ UNCHANGED <<files, emitted, clean>>

LogNext == Emit \/ EmitFails \/ Configured

-----------------------------------------------------------------------------

(* The event e is in a file.                                               *)
Kept(e) == \E i \in 0..Keep : \E j \in 1..Len(files[i]) : files[i][j] = e

(* How many files of events the log owes: a replace that fails may cost    *)
(* what the next file back held, never the file being written; each shift  *)
(* that succeeds after it adds one.                                        *)
Owed == IF clean = 0 THEN 1 ELSE clean

(* Whatever fails or restarts, the last MaxFile events written are in the  *)
(* files, and the last Keep * MaxFile once Keep shifts have succeeded (or  *)
(* none has failed); and the files hold them in the order written.         *)
LatestKept ==
    /\ \A e \in 1..emitted : e + Owed * MaxFile > emitted => Kept(e)
    /\ \A i, j \in 0..Keep : \A m \in 1..Len(files[i]), n \in 1..Len(files[j]) :
          i < j \/ (i = j /\ n < m) => files[j][n] < files[i][m]
=============================================================================
