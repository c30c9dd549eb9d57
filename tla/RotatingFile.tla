---------------------------- MODULE RotatingFile ----------------------------
(***************************************************************************)
(* JSONFileSink.Consume (src/telemetry.go) and AlertFileResponder.Handle   *)
(* (src/response_actions.go), which are alike: under a mutex a call opens  *)
(* the file if need be, encodes its record as a line, asks for the file's  *)
(* size and, when it reached MaxBytes, renames the file to a name made     *)
(* from the time in milliseconds and opens a new one.                      *)
(*                                                                         *)
(* Records are numbered by call and of any of several lengths; a file is   *)
(* the lines written to it, each with the offset at which it ends.  The    *)
(* file system calls may fail, a failing write may leave part of a line,   *)
(* and the process may be restarted between any two steps.                 *)
(***************************************************************************)
EXTENDS Integers, Sequences, FiniteSets

CONSTANTS
  MaxBytes,     \* MaxBytes
  Lengths,      \* how long a record's line may be
  Faults,       \* the calls that may fail: "open", "write", "stat", "rename"
  MaxRecords,   \* bound: calls
  MaxRestarts,  \* bound: restarts of the process
  MaxTime       \* bound: the last millisecond

ASSUME SizeAssumption == MaxBytes \in Nat \ {0} /\ Lengths \subseteq Nat \ {0}
ASSUME FaultsAssumption == Faults \subseteq {"open", "write", "stat", "rename"}
ASSUME BoundsAssumption == {MaxRecords, MaxRestarts, MaxTime} \subseteq Nat

Records == 1..MaxRecords
Times == 0..MaxTime

VARIABLES
  now,       \* the clock
  pc,        \* where the call in progress is
  rec,       \* the record of the last call
  open,      \* f # nil
  encFailed, \* the json.Encoder has seen a failed write
  size,      \* size, as the last successful Stat told it
  file,      \* what Path holds: pieces of lines, or Absent
  rotated,   \* what the rotated file of each millisecond holds, or Absent
  answer,    \* history: what each call returned
  restarts,  \* restarts so far
  misses,    \* history: rotations that were due and did not happen
  replaced   \* history: the records of files that a rename replaced

handleVars == <<open, encFailed, size>>
vars == <<now, pc, rec, handleVars, file, rotated, answer, restarts, misses, replaced>>

Whole(r, to) == [of |-> r, torn |-> FALSE, end |-> to]
Torn(r, to) == [of |-> r, torn |-> TRUE, end |-> to]
Absent == <<Whole(0, 0)>>   \* no such file
Pieces(content) == IF content = Absent THEN <<>> ELSE content

\* The offset at which a piece begins, the next one to come included: the size.
Start(content, i) == IF i = 1 THEN 0 ELSE content[i - 1].end
SizeOf(content) == Start(content, Len(content) + 1)

Init ==
  /\ now = 0
  /\ pc = "idle" /\ rec = 0
  /\ open = FALSE /\ encFailed = FALSE /\ size = 0
  /\ file = Absent
  /\ rotated = [t \in Times |-> Absent]
  /\ answer = [r \in Records |-> "none"]
  /\ restarts = 0 /\ misses = 0 /\ replaced = {}

MayFail(call) == call \in Faults

Answer(how) ==
  /\ answer' = [answer EXCEPT ![rec] = how]
  /\ pc' = "idle"

\* Mutant: rotate when the size exceeds MaxBytes, as the field's comment has it.
Full_Exceeds(bytes) == bytes > MaxBytes

\* The file has reached MaxBytes.
Full(bytes) == bytes >= MaxBytes

\* The next record arrives; the mutex is taken.
Consume ==
  /\ pc = "idle" /\ rec < MaxRecords
  /\ rec' = rec + 1
  /\ pc' = IF open THEN "encode" ELSE "ensure"
  /\ UNCHANGED <<now, handleVars, file, rotated, answer, restarts, misses, replaced>>

\* OpenFile with O_CREATE and O_APPEND, and Stat.
Opened ==
  /\ open' = TRUE /\ encFailed' = FALSE
  /\ file' = IF file = Absent THEN <<>> ELSE file
  /\ \/ size' = SizeOf(file')
     \/ MayFail("stat") /\ UNCHANGED size

EnsureFile ==
  /\ pc = "ensure"
  /\ Opened
  /\ pc' = "encode"
  /\ UNCHANGED <<now, rec, rotated, answer, restarts, misses, replaced>>

\* ensureFile fails, before the record is written or after the rotation.
EnsureFileFails ==
  /\ pc \in {"ensure", "reopen"} /\ MayFail("open")
  /\ Answer("failed")
  /\ UNCHANGED <<now, rec, handleVars, file, rotated, restarts, misses, replaced>>

Encode ==
  /\ pc = "encode" /\ ~encFailed
  /\ \E n \in Lengths : file' = Append(file, Whole(rec, SizeOf(file) + n))
  /\ pc' = "stat"
  /\ UNCHANGED <<now, rec, handleVars, rotated, answer, restarts, misses, replaced>>

\* What a failed write may leave of a line: nothing, or less than all of it.
Torsos ==
  {file} \cup {Append(file, Torn(rec, SizeOf(file) + n)) : n \in UNION {1..(m - 1) : m \in Lengths}}

\* Mutant: a new encoder for every record.
EncodeFails_Forgets ==
  /\ pc = "encode"
  /\ MayFail("write") /\ file' \in Torsos
  /\ misses' = IF file' # file /\ Full(SizeOf(file')) THEN misses + 1 ELSE misses
  /\ Answer("failed")
  /\ UNCHANGED <<now, rec, handleVars, rotated, restarts, replaced>>

\* The write fails, perhaps half-way; from then on the encoder refuses every record.
EncodeFails ==
  /\ pc = "encode"
  /\ \/ encFailed /\ UNCHANGED file
     \/ ~encFailed /\ MayFail("write") /\ file' \in Torsos
  /\ encFailed' = TRUE
  /\ misses' = IF file' # file /\ Full(SizeOf(file')) THEN misses + 1 ELSE misses
  /\ Answer("failed")
  /\ UNCHANGED <<now, rec, open, size, rotated, restarts, replaced>>

\* Stat; a file that reached MaxBytes is closed and rotated.
StatFile ==
  /\ pc = "stat"
  /\ \E known \in {SizeOf(file)} \cup (IF MayFail("stat") THEN {size} ELSE {}) :
       /\ size' = known
       /\ misses' = IF Full(SizeOf(file)) /\ ~Full(known) THEN misses + 1 ELSE misses
       /\ IF Full(known)
            THEN pc' = "rename" /\ open' = FALSE /\ UNCHANGED answer
            ELSE Answer("ok") /\ UNCHANGED open
  /\ UNCHANGED <<now, rec, encFailed, file, rotated, restarts, replaced>>

\* Mutant: the rotated file is copied and the original stays.
Rename_Copies ==
  /\ pc = "rename"
  /\ rotated' = [rotated EXCEPT ![now] = file]
  /\ pc' = "reopen"
  /\ replaced' = replaced \cup {Pieces(rotated[now])[i].of : i \in DOMAIN Pieces(rotated[now])}
  /\ UNCHANGED <<now, rec, handleVars, file, answer, restarts, misses>>

\* Mutant: rotate does not forget the file it renamed, so that ensureFile opens no new one.
Rename_KeepsHandle ==
  /\ pc = "rename"
  /\ rotated' = [rotated EXCEPT ![now] = file]
  /\ file' = Absent
  /\ open' = TRUE
  /\ Answer("ok")
  /\ replaced' = replaced \cup {Pieces(rotated[now])[i].of : i \in DOMAIN Pieces(rotated[now])}
  /\ UNCHANGED <<now, rec, encFailed, size, restarts, misses>>

\* Rename to Path.<milliseconds>, which replaces a file of that name.
Rename ==
  /\ pc = "rename"
  /\ rotated' = [rotated EXCEPT ![now] = file]
  /\ file' = Absent
  /\ pc' = "reopen"
  /\ replaced' = replaced \cup {Pieces(rotated[now])[i].of : i \in DOMAIN Pieces(rotated[now])}
  /\ UNCHANGED <<now, rec, handleVars, answer, restarts, misses>>

\* The record is written all the same; the next call opens the file again.
RenameFails ==
  /\ pc = "rename" /\ MayFail("rename")
  /\ misses' = misses + 1
  /\ Answer("failed")
  /\ UNCHANGED <<now, rec, handleVars, file, rotated, restarts, replaced>>

Reopen ==
  /\ pc = "reopen"
  /\ Opened
  /\ Answer("ok")
  /\ UNCHANGED <<now, rec, rotated, restarts, misses, replaced>>

-----------------------------------------------------------------------------

Tick ==
  /\ now < MaxTime
  /\ now' = now + 1
  /\ UNCHANGED <<pc, rec, handleVars, file, rotated, answer, restarts, misses, replaced>>

\* The process ends and another one starts; the files stay.
Restart ==
  /\ restarts < MaxRestarts
  /\ restarts' = restarts + 1
  /\ misses' = IF pc \in {"stat", "rename"} /\ Full(SizeOf(file)) THEN misses + 1 ELSE misses
  /\ pc' = "idle"
  /\ open' = FALSE /\ encFailed' = FALSE /\ size' = 0
  /\ UNCHANGED <<now, rec, file, rotated, answer, replaced>>

\* The bounds are reached.
Terminated ==
  /\ now = MaxTime
  /\ pc = "idle" /\ rec = MaxRecords
  /\ UNCHANGED vars

Next ==
  \/ Consume
  \/ EnsureFile \/ EnsureFileFails
  \/ Encode \/ EncodeFails
  \/ StatFile
  \/ Rename \/ RenameFails \/ Reopen
  \/ Tick \/ Restart \/ Terminated

Spec == Init /\ [][Next]_vars

-----------------------------------------------------------------------------
(* Properties *)

Files == {file} \cup {rotated[t] : t \in Times}

\* The lines of a file that can be read back: a torn piece spoils the record after it.
Readable(content) ==
  {Pieces(content)[i].of : i \in
     {n \in DOMAIN Pieces(content) :
        ~Pieces(content)[n].torn /\ (n > 1 => ~Pieces(content)[n - 1].torn)}}

Stored(content) == [i \in DOMAIN Pieces(content) |-> Pieces(content)[i].of]
Increasing(q) == \A i, j \in DOMAIN q : i < j => q[i] < q[j]

\* Every variable has its type; a file is open for the steps that use it.
TypeOK ==
  /\ now \in Times /\ rec \in 0..MaxRecords /\ size \in Nat
  /\ pc \in {"idle", "ensure", "encode", "stat", "rename", "reopen"}
  /\ {open, encFailed} \subseteq BOOLEAN
  /\ \A content \in Files : \A i \in DOMAIN Pieces(content) :
       content[i].of \in Records /\ Start(content, i) < content[i].end
  /\ pc \in {"encode", "stat"} => open /\ file # Absent
  /\ restarts \in 0..MaxRestarts /\ misses \in Nat

Unreadable == {r \in Records : answer[r] = "ok" /\ \A content \in Files : r \notin Readable(content)}

\* A half-written line spoils the record written after it.  The encoder refuses every
\* record after a failed write, so that a process can spoil only the first record of the
\* next one: restarts, writes that fail half-way and rotations, failed or not, together
\* lose at most one acknowledged record per restart, and those of a rotated file that a
\* second rotation in the same millisecond replaced.
LossOnlyAfterRestart == Cardinality(Unreadable \ replaced) <= restarts

\* Files hold the records in the order of the calls, each once; what an earlier
\* millisecond's file holds precedes what a later one and Path hold, also over
\* restarts and rotations that failed.
StoredInOrder ==
  /\ \A content \in Files : Increasing(Stored(content))
  /\ \A t, u \in Times : t < u =>
       \A i \in DOMAIN Stored(rotated[t]), j \in DOMAIN Stored(rotated[u]) :
         Stored(rotated[t])[i] < Stored(rotated[u])[j]
  /\ \A t \in Times : \A i \in DOMAIN Stored(rotated[t]), j \in DOMAIN Stored(file) :
       Stored(rotated[t])[i] < Stored(file)[j]

\* telemetry.go:51: the file is rotated once it has reached MaxBytes.  A line begins at or
\* past the limit only for a rotation that was due and failed, went unnoticed because Stat
\* or the write failed, or was cut off by a restart: one line for each, a later call makes
\* up for it.  So a file passes the limit by no more than its last line and these.
OverrunBounded ==
  \A content \in Files :
    Cardinality({i \in DOMAIN Pieces(content) : Start(content, i) >= MaxBytes}) <= misses

=============================================================================
