------------------------------ MODULE LogRotate ------------------------------
(***************************************************************************)
(* The data plane's size-based log writer (internal/logrotate): one live    *)
(* file and at most `Backups` archives.  Write holds the mutex from end to  *)
(* end, so a call is one step.  A line is its number and counts one byte.   *)
(***************************************************************************)
EXTENDS Naturals, Sequences, FiniteSets

CONSTANTS
    Backups,     \* archives kept
    MaxBytes,    \* size at which the live file is rotated
    MaxLines     \* bound: lines written

ASSUME LogAssumption == {MaxBytes, MaxLines} \subseteq Nat /\ Backups \in Nat \ {0}

VARIABLES
    file,     \* file[0] is the live file, file[i] the archive path.i; their lines
    isOpen,   \* the writer's descriptor w.f is open on file[0]
    size,     \* w.size
    lines,    \* lines passed to Write
    stored,   \* the lines that reached the live file (history)
    mishaps   \* rotations that failed with the archives shifted (history)

logVars == <<file, isOpen, size, lines, stored, mishaps>>

LogInit ==
    /\ file = [i \in 0 .. Backups |-> <<>>]
    /\ isOpen = TRUE
    /\ size = 0 /\ lines = 0
    /\ stored = {} /\ mishaps = 0

\* The archives after the shift: the oldest is removed, and each is renamed to the
\* next from the oldest down.
Shifted_up(f) == [i \in 0 .. Backups |-> IF i = 0 THEN f[0] ELSE IF i = Backups THEN f[1] ELSE <<>>]
Shifted(f) == [i \in 0 .. Backups |-> IF i = 0 THEN f[0] ELSE IF i = 1 THEN <<>> ELSE f[i - 1]]

\* The live file becomes path.1, and a new one takes its place.
Rotated(f) == [Shifted(f) EXCEPT ![1] = f[0], ![0] = <<>>]

NeedsRotation == MaxBytes > 0 /\ size + 1 > MaxBytes /\ size > 0

\* w.f.Write: the line is appended to f, or lost if the descriptor is closed.
Put(f, sz, isopen) ==
    /\ lines' = lines + 1
    /\ isOpen' = isopen
    /\ file' = IF isopen THEN [f EXCEPT ![0] = Append(@, lines')] ELSE f
    /\ size' = IF isopen THEN sz + 1 ELSE sz
    /\ stored' = IF isopen THEN stored \cup {lines'} ELSE stored

Write ==
    /\ lines < MaxLines /\ ~NeedsRotation
    /\ Put(file, size, isOpen)
    /\ UNCHANGED mishaps

WriteRotate ==
    /\ lines < MaxLines /\ NeedsRotation /\ isOpen
    /\ Put(Rotated(file), 0, TRUE)
    /\ UNCHANGED mishaps

\* Write with a rotation that fails: the Close fails (always, on a closed descriptor),
\* or the rename of the live file does, or opening the new one.
WriteRotateFails ==
    /\ lines < MaxLines /\ NeedsRotation
    /\ \/ Put(file, size, FALSE) /\ UNCHANGED mishaps
       \/ /\ isOpen
          /\ \E f \in {Shifted(file), Rotated(file)} : Put(f, size, FALSE)
          /\ mishaps' = mishaps + 1

\* The process restarts: New opens the live file, and takes its size from the disk.
Restart ==
    /\ isOpen' = TRUE
    /\ size' = Len(file[0])
    /\ UNCHANGED <<file, lines, stored, mishaps>>

LogNext == Write \/ WriteRotate \/ WriteRotateFails \/ Restart

LogSpec == LogInit /\ [][LogNext]_logVars

-----------------------------------------------------------------------------
(* Properties *)

\* The lines of one file, and the lines on disk.
LinesOf(i) == {file[i][j] : j \in 1 .. Len(file[i])}
Kept == UNION {LinesOf(i) : i \in 0 .. Backups}

LogTypeOK ==
    /\ DOMAIN file = 0 .. Backups
    /\ \A i \in 0 .. Backups : \A j \in 1 .. Len(file[i]) : file[i][j] \in 1 .. lines
    /\ isOpen \in BOOLEAN
    /\ {size, lines, mishaps} \subseteq 0 .. MaxLines

\* The files hold the newest of the lines that were stored, in order (lines are
\* numbered as they are written) and without a gap, through any number of rotations,
\* failed ones and restarts included; and they hold all lines or the archives' whole
\* capacity, less one archive for each failed rotation.
Ascending(s) == \A j, k \in 1 .. Len(s) : j < k => s[j] < s[k]
NewestLinesKept ==
    /\ \A i \in 0 .. Backups : Ascending(file[i])
    /\ \A i, j \in 0 .. Backups : i < j => \A l \in LinesOf(i), m \in LinesOf(j) : m < l
    /\ Kept \subseteq stored
    /\ \A l \in Kept, m \in stored : l < m => m \in Kept
    /\ \/ Kept = stored
       \/ Cardinality(Kept) + mishaps * MaxBytes >= Backups * MaxBytes
=============================================================================
